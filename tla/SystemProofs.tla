---------------------------- MODULE SystemProofs ----------------------------
(***************************************************************************)
(* What holds of the server and the applications together, for any number  *)
(* of processes, of connections they make and of messages under way: see   *)
(* MatrixSystem.                                                           *)
(***************************************************************************)
EXTENDS MatrixSystem, FiniteSetTheorems, FunctionTheorems, SequenceTheorems,
        TLAPS

\* The facts proved of the two sides alone.  Parameters are not looked at.
S == INSTANCE ServerProofs WITH
  IpcConns <- {}, DistinctIds <- TRUE, Alphabet <- ClientTypes
A == INSTANCE ApplicationProofs WITH
  Keys <- {}, ParamTypes <- {}, MaxValue <- 0,
  params <- <<>>, schema <- <<>>, wanted <- <<>>

\* What these facts assume of the constants holds here.
LEMMA SidesAssumptions ==
  /\ S!ProtocolAssumption /\ S!ConnsAssumption /\ S!RenderersAssumption
  /\ S!AlphabetAssumption /\ S!IdsAssumption
  /\ A!ProtocolAssumption /\ A!ClientAssumption /\ A!ParamsAssumption
BY SystemAssumption, ProtocolAssumption
DEF S!ProtocolAssumption, S!ConnsAssumption, S!RenderersAssumption,
  S!AlphabetAssumption, S!IdsAssumption, S!ClientTypes, ClientTypes,
  A!ProtocolAssumption, A!ClientAssumption, A!ParamsAssumption

-----------------------------------------------------------------------------
(***************************************************************************)
(* S and A define nothing but what Server and Client define.               *)
(***************************************************************************)
LEMMA SameMessages == S!Message = Message /\ A!Message = Message
BY DEF S!Message, S!ClientTypes, S!ServerTypes, S!Ids, S!Levels,
       A!Message, A!ClientTypes, A!ServerTypes, A!Ids, A!Levels,
       Message, ClientTypes, ServerTypes, Ids, Levels

LEMMA SameTypes ==
  /\ Server!TypeOK <=> S!TypeOK
  /\ Client!TypeOK <=> A!TypeOK
<1>1. Server!TypeOK <=> S!TypeOK
  BY DEF Server!TypeOK, Server!Regs, Server!Ids, Server!Levels, Server!Message,
    Server!ClientTypes, Server!ServerTypes, Server!Renderers, Server!Threads,
    Server!JobSteps, Server!Job, Server!AppStates, Server!App,
    S!TypeOK, S!Regs, S!Ids, S!Levels, S!Message, S!ClientTypes, S!ServerTypes,
    S!Renderers, S!Threads, S!JobSteps, S!Job, S!AppStates, S!App
<1>2. Client!TypeOK <=> A!TypeOK
  BY DEF Client!TypeOK, Client!Ids, Client!Levels, Client!Message,
    Client!ClientTypes, Client!ServerTypes, Client!AppStates, Client!MainSteps,
    A!TypeOK, A!Ids, A!Levels, A!Message, A!ClientTypes, A!ServerTypes,
    A!AppStates, A!MainSteps
<1> QED
  BY <1>1, <1>2

LEMMA SameHandler ==
  ASSUME NEW c, NEW m
  PROVE  Server!handleRequest(c, m) <=> S!handleRequest(c, m)
BY DEF
    Server!Regs, Server!Ids, Server!Levels, Server!Msg, Server!stackVars,
    Server!connVars, Server!rendererVars, Server!defaultAppVars,
    Server!Threads, Server!Quiet, Server!To, Server!Tell, Server!HandlerOf,
    Server!IsLast, Server!IsTop, Server!TopReg, Server!StartJob, Server!EndJob,
    Server!NoJob, Server!NoApp, Server!InertTypes, Server!Renderers,
    Server!DrawableIds, Server!IsFirstWith, Server!Ready, Server!EraseApps,
    Server!PauseTopApp, Server!IsTopId, Server!RegisterApp,
    Server!GetServerInfo, Server!CheckFrame, Server!RecordState,
    Server!AppKilled, Server!StoreSchema, Server!Inert, Server!handleRequest,
    S!Regs, S!Ids, S!Levels, S!Msg, S!stackVars, S!connVars, S!rendererVars,
    S!defaultAppVars, S!Threads, S!Quiet, S!To, S!Tell, S!HandlerOf,
    S!IsLast, S!IsTop, S!TopReg, S!StartJob, S!EndJob, S!NoJob, S!NoApp, S!InertTypes,
    S!Renderers, S!DrawableIds, S!IsFirstWith, S!Ready, S!EraseApps,
    S!PauseTopApp, S!IsTopId, S!RegisterApp, S!GetServerInfo, S!CheckFrame,
    S!RecordState, S!AppKilled, S!StoreSchema, S!Inert, S!handleRequest

LEMMA SameJob ==
  ASSUME NEW t
  PROVE  Server!FinishJob(t) <=> S!FinishJob(t)
BY DEF
    Server!Regs, Server!Ids, Server!Levels, Server!Msg, Server!stackVars,
    Server!connVars, Server!rendererVars, Server!defaultAppVars,
    Server!Quiet, Server!To, Server!Tell, Server!EndJob, Server!NoJob,
    Server!Threads, Server!Rivals, Server!Outcomes,
    Server!LastRenderer, Server!ReplyRegistered, Server!RenderFrame,
    Server!RefuseFrame, Server!ForwardSchema, Server!FinishJob, S!Regs,
    S!Ids, S!Levels, S!Msg, S!stackVars, S!connVars, S!rendererVars,
    S!defaultAppVars, S!Quiet, S!To, S!Tell, S!EndJob, S!NoJob,
    S!Threads, S!Rivals, S!Outcomes, S!LastRenderer, S!ReplyRegistered, S!RenderFrame, S!RefuseFrame,
    S!ForwardSchema, S!FinishJob

LEMMA SameTick ==
  /\ \A pressed : Server!TickButton(pressed) <=> S!TickButton(pressed)
  /\ Server!TickManage <=> S!TickManage
  /\ Server!TickSweep <=> S!TickSweep
BY DEF
    Server!Regs, Server!Ids, Server!Levels, Server!Msg, Server!stackVars,
    Server!connVars, Server!rendererVars, Server!defaultAppVars,
    Server!Quiet, Server!To, Server!IsLast, Server!IsTop, Server!NoApp,
    Server!EraseApps, Server!DeadApps, Server!TopIdChanges,
    Server!DefaultAppStillAlive, Server!StartDefaultApp,
    Server!ReapDefaultApp, Server!ManageDefaultApp, Server!TickButton,
    Server!TickManage, Server!TickSweep, S!Regs, S!Ids, S!Levels, S!Msg,
    S!stackVars, S!connVars, S!rendererVars, S!defaultAppVars, S!Quiet, S!To,
    S!IsLast, S!IsTop, S!NoApp, S!EraseApps, S!DeadApps, S!TopIdChanges,
    S!DefaultAppStillAlive, S!StartDefaultApp, S!ReapDefaultApp,
    S!ManageDefaultApp, S!TickButton, S!TickManage, S!TickSweep

LEMMA SameRest ==
  /\ Server!WebInput <=> S!WebInput
  /\ \A c : /\ Server!newConnectionCallback(c) <=> S!newConnectionCallback(c)
            /\ Server!ConnectionDies(c) <=> S!ConnectionDies(c)
BY DEF
    Server!Msg, Server!stackVars, Server!connVars, Server!rendererVars,
    Server!defaultAppVars, Server!Quiet, Server!Threads, Server!WebInput,
    Server!newConnectionCallback, Server!ConnectionDies, S!Msg, S!stackVars,
    S!connVars, S!rendererVars, S!defaultAppVars, S!Quiet, S!Threads,
    S!WebInput, S!newConnectionCallback, S!ConnectionDies, Server!Cardinality,
    S!Cardinality

LEMMA SameMain ==
  ASSUME NEW a
  PROVE  (Client!Start(a) \/ Client!MainStep(a) \/ Client!LoopThrows(a)) <=>
         (A!Start(a) \/ A!MainStep(a) \/ A!LoopThrows(a))
BY DEF
    Client!Levels, Client!Msg, Client!Post, Client!Goto, Client!NextRound,
    Client!MainStep, Client!Start, Client!CreateMainThread, Client!LoopHead,
    Client!TakeAck, Client!Draw, Client!LoopThrows, Client!TestKilled,
    Client!CheckAlive, Client!CheckFails, Client!Reconnect, A!Levels, A!Msg,
    A!Post, A!Goto, A!NextRound, A!MainStep, A!Start, A!CreateMainThread,
    A!LoopHead, A!TakeAck, A!Draw, A!LoopThrows, A!TestKilled, A!CheckAlive,
    A!CheckFails, A!Reconnect

LEMMA SameReceive ==
  ASSUME NEW a, NEW m
  PROVE  Client!handleRequest(a, m) <=> A!handleRequest(a, m)
BY DEF
    Client!threadVars, Client!Msg, Client!Post, Client!SetState,
    Client!Registered, Client!ServerInfo, Client!Pause, Client!Resume,
    Client!Kill, Client!FrameAck, Client!Answer, Client!TakeInput,
    Client!handleRequest, A!threadVars, A!Msg, A!Post, A!SetState,
    A!Registered, A!ServerInfo, A!Pause, A!Resume, A!Kill, A!FrameAck,
    A!Answer, A!TakeInput, A!handleRequest

LEMMA SameIo ==
  ASSUME NEW a
  PROVE  (Client!IoStep(a) \/ Client!ConnectionFails(a)) <=>
         (A!IoStep(a) \/ A!ConnectionFails(a))
BY DEF
    Client!threadVars, Client!JoinMainThread, Client!Write,
    Client!IoRunReturns, Client!IoStep, Client!ConnectionFails, A!threadVars,
    A!JoinMainThread, A!Write, A!IoRunReturns, A!IoStep, A!ConnectionFails

-----------------------------------------------------------------------------
(***************************************************************************)
(* What a queue of messages holds, and how many frames it holds.           *)
(***************************************************************************)
Queues == Seq(Message)

Contents(q) == {q[i] : i \in 1..Len(q)}

Places(q) == {i \in 1..Len(q) : q[i].type = "setScreenFrame"}

FrameFree(q) == \A m \in Contents(q) : m.type # "setScreenFrame"

LEMMA ContentsEmpty == Contents(<<>>) = {}
BY DEF Contents

LEMMA ContentsOne ==
  ASSUME NEW m
  PROVE  Contents(<<m>>) = {m}
BY DEF Contents

LEMMA ContentsConcat ==
  ASSUME NEW q \in Queues, NEW s \in Queues
  PROVE  /\ q \o s \in Queues
         /\ Contents(q \o s) = Contents(q) \cup Contents(s)
<1>1. /\ Len(q) \in Nat /\ Len(s) \in Nat /\ q \o s \in Queues
      /\ Len(q \o s) = Len(q) + Len(s)
      /\ \A i \in 1..(Len(q) + Len(s)) :
           (q \o s)[i] = IF i <= Len(q) THEN q[i] ELSE s[i - Len(q)]
  BY ConcatProperties, LenProperties DEF Queues
<1>2. ASSUME NEW m \in Contents(q \o s) PROVE m \in Contents(q) \cup Contents(s)
  <2>1. PICK i \in 1..(Len(q) + Len(s)) : m = (q \o s)[i]
    BY <1>1 DEF Contents
  <2>2. CASE i <= Len(q)
    BY <1>1, <2>1, <2>2 DEF Contents
  <2>3. CASE ~(i <= Len(q))
    <3>1. i - Len(q) \in 1..Len(s)
      BY <1>1, <2>3
    <3> QED
      BY <1>1, <2>1, <2>3, <3>1 DEF Contents
  <2> QED
    BY <2>2, <2>3
<1>3. Contents(q) \subseteq Contents(q \o s)
  <2> SUFFICES ASSUME NEW i \in 1..Len(q) PROVE q[i] \in Contents(q \o s)
    BY DEF Contents
  <2>1. i \in 1..(Len(q) + Len(s)) /\ (q \o s)[i] = q[i]
    BY <1>1
  <2> QED
    BY <1>1, <2>1 DEF Contents
<1>4. Contents(s) \subseteq Contents(q \o s)
  <2> SUFFICES ASSUME NEW i \in 1..Len(s) PROVE s[i] \in Contents(q \o s)
    BY DEF Contents
  <2>1. i + Len(q) \in 1..(Len(q) + Len(s)) /\ (q \o s)[i + Len(q)] = s[i]
    BY <1>1
  <2> QED
    BY <1>1, <2>1 DEF Contents
<1> QED
  BY <1>1, <1>2, <1>3, <1>4

LEMMA ContentsTail ==
  ASSUME NEW q \in Queues, q # <<>>
  PROVE  /\ Head(q) \in Message /\ Tail(q) \in Queues
         /\ Head(q) \in Contents(q)
         /\ Contents(Tail(q)) \subseteq Contents(q)
<1>1. /\ Len(q) \in Nat \ {0} /\ Head(q) = q[1] /\ Tail(q) \in Queues
      /\ Head(q) \in Message /\ Len(Tail(q)) = Len(q) - 1
      /\ \A i \in 1..(Len(q) - 1) : Tail(q)[i] = q[i + 1]
  BY HeadTailProperties DEF Queues
<1>2. \A i \in 1..(Len(q) - 1) : i + 1 \in 1..Len(q)
  BY <1>1
<1> QED
  BY <1>1, <1>2 DEF Contents

\* The frames are counted by places.
LEMMA FramesAreNat ==
  ASSUME NEW q \in Queues
  PROVE  Frames(q) \in Nat /\ IsFiniteSet(Places(q)) /\ Frames(q) = Cardinality(Places(q))
<1>1. Len(q) \in Nat /\ Places(q) \subseteq 1..Len(q)
  BY DEF Queues, Places
<1>2. IsFiniteSet(1..Len(q))
  <2>1. \A m \in Nat : IsFiniteSet(1..m)
    BY FS_Interval
  <2> QED
    BY <1>1, <2>1
<1>3. IsFiniteSet(Places(q))
  BY <1>1, <1>2, FS_Subset
<1>4. Frames(q) = Cardinality(Places(q))
  BY DEF Frames, Places
<1> QED
  BY <1>3, <1>4, FS_CardinalityType

LEMMA FramesOfFree ==
  ASSUME NEW q, FrameFree(q)
  PROVE  Frames(q) = 0
<1>1. {i \in 1..Len(q) : q[i].type = "setScreenFrame"} = {}
  BY DEF FrameFree, Contents
<1> QED
  BY <1>1, FS_EmptySet DEF Frames

LEMMA FramesEmpty == Frames(<<>>) = 0
BY FramesOfFree, ContentsEmpty DEF FrameFree

\* A queue with a frame in it is not free of frames.
LEMMA FrameCounts ==
  ASSUME NEW q \in Queues, NEW m \in Contents(q), m.type = "setScreenFrame"
  PROVE  Frames(q) >= 1
<1>1. PICK i \in 1..Len(q) : q[i] = m
  BY DEF Contents
<1>2. Places(q) # {}
  BY <1>1 DEF Places
<1> QED
  BY <1>2, FramesAreNat, FS_EmptySet

\* Appending what has no frame adds none, ...
LEMMA FramesConcatFree ==
  ASSUME NEW q \in Queues, NEW s \in Queues, FrameFree(s)
  PROVE  Frames(q \o s) = Frames(q)
<1>1. /\ Len(q) \in Nat /\ Len(s) \in Nat
      /\ Len(q \o s) = Len(q) + Len(s)
      /\ \A i \in 1..(Len(q) + Len(s)) :
           (q \o s)[i] = IF i <= Len(q) THEN q[i] ELSE s[i - Len(q)]
  BY ConcatProperties, LenProperties DEF Queues
<1>2. \A j \in 1..Len(s) : s[j].type # "setScreenFrame"
  BY DEF FrameFree, Contents
<1>3. Places(q \o s) = Places(q)
  <2>1. \A i \in Places(q) : i \in Places(q \o s)
    BY <1>1 DEF Places
  <2>2. ASSUME NEW i \in Places(q \o s) PROVE i \in Places(q)
    <3>1. i \in 1..(Len(q) + Len(s)) /\ (q \o s)[i].type = "setScreenFrame"
      BY <1>1 DEF Places
    <3>2. CASE i <= Len(q)
      BY <1>1, <3>1, <3>2 DEF Places
    <3>3. CASE ~(i <= Len(q))
      <4>1. i - Len(q) \in 1..Len(s)
        BY <1>1, <3>1, <3>3
      <4> QED
        BY <1>1, <1>2, <3>1, <3>3, <4>1
    <3> QED
      BY <3>2, <3>3
  <2> QED
    BY <2>1, <2>2
<1> QED
  BY <1>3, FramesAreNat, ContentsConcat

\* ... appending a frame adds one, ...
LEMMA FramesAppend ==
  ASSUME NEW q \in Queues, NEW m \in Message
  PROVE  /\ Append(q, m) \in Queues /\ q \o <<m>> = Append(q, m)
         /\ Contents(Append(q, m)) = Contents(q) \cup {m}
         /\ Frames(Append(q, m)) = Frames(q) + One(m.type = "setScreenFrame")
<1> DEFINE n == Len(q) + 1
<1>1. /\ Len(q) \in Nat /\ Len(Append(q, m)) = n /\ Append(q, m)[n] = m
      /\ Append(q, m) \in Queues
      /\ \A i \in 1..Len(q) : Append(q, m)[i] = q[i]
  BY AppendProperties DEF Queues
<1>2. IsFiniteSet(Places(q)) /\ Frames(q) = Cardinality(Places(q))
      /\ Frames(Append(q, m)) = Cardinality(Places(Append(q, m))) /\ Frames(q) \in Nat
  BY <1>1, FramesAreNat
<1>3. n \notin Places(q)
  BY <1>1 DEF Places
<1>4. <<m>> \in Queues /\ q \o <<m>> = Append(q, m)
  BY AppendIsConcat DEF Queues
<1>5. Contents(Append(q, m)) = Contents(q) \cup {m}
  <2>1. Contents(q \o <<m>>) = Contents(q) \cup Contents(<<m>>)
    BY <1>4, ContentsConcat
  <2>2. Contents(<<m>>) = {m}
    BY ContentsOne
  <2> QED
    BY <1>4, <2>1, <2>2
<1>6. CASE m.type = "setScreenFrame"
  <2>1. Places(Append(q, m)) = Places(q) \cup {n}
    BY <1>1, <1>6 DEF Places
  <2>2. Cardinality(Places(q) \cup {n}) = Cardinality(Places(q)) + 1
    BY <1>2, <1>3, FS_AddElement
  <2> QED
    BY <1>1, <1>2, <1>4, <1>5, <1>6, <2>1, <2>2 DEF One
<1>7. CASE m.type # "setScreenFrame"
  <2>1. Places(Append(q, m)) = Places(q)
    BY <1>1, <1>7 DEF Places
  <2> QED
    BY <1>1, <1>2, <1>4, <1>5, <1>7, <2>1 DEF One
<1> QED
  BY <1>6, <1>7

\* ... and taking off a frame takes one.
LEMMA FramesTail ==
  ASSUME NEW q \in Queues, q # <<>>
  PROVE  /\ Tail(q) \in Queues
         /\ Frames(q) = Frames(Tail(q)) + One(Head(q).type = "setScreenFrame")
<1> DEFINE rest == Places(q) \ {1}
           shift == [i \in Places(Tail(q)) |-> i + 1]
<1>1. /\ Len(q) \in Nat \ {0} /\ Head(q) = q[1] /\ Tail(q) \in Queues
      /\ Len(Tail(q)) = Len(q) - 1
      /\ \A i \in 1..(Len(q) - 1) : Tail(q)[i] = q[i + 1]
  BY HeadTailProperties DEF Queues
<1>2. /\ IsFiniteSet(Places(q)) /\ Frames(q) \in Nat
      /\ IsFiniteSet(Places(Tail(q))) /\ Frames(Tail(q)) \in Nat
      /\ Frames(q) = Cardinality(Places(q))
      /\ Frames(Tail(q)) = Cardinality(Places(Tail(q)))
  BY <1>1, FramesAreNat
<1>3. Cardinality(rest) = Frames(Tail(q))
  <2>1. shift \in Bijection(Places(Tail(q)), rest)
    <3>1. \A i \in Places(Tail(q)) : i \in Nat /\ shift[i] = i + 1 /\ shift[i] \in rest
      BY <1>1 DEF Places
    <3>2. \A j \in rest : j - 1 \in Places(Tail(q)) /\ shift[j - 1] = j
      BY <1>1 DEF Places
    <3>3. shift \in [Places(Tail(q)) -> rest]
      BY <3>1
    <3>4. \A i, j \in Places(Tail(q)) : shift[i] = shift[j] => i = j
      BY <3>1
    <3> HIDE DEF shift, rest
    <3> QED
      BY <3>2, <3>3, <3>4, Fun_IsBij
  <2>2. ExistsBijection(Places(Tail(q)), rest)
    BY <2>1 DEF ExistsBijection
  <2> QED
    BY <1>2, <2>2, FS_Bijection
<1>4. Cardinality(rest) = IF 1 \in Places(q) THEN Frames(q) - 1 ELSE Frames(q)
  BY <1>2, FS_RemoveElement
<1>5. 1 \in Places(q) <=> Head(q).type = "setScreenFrame"
  BY <1>1 DEF Places
<1> QED
  BY <1>1, <1>2, <1>3, <1>4, <1>5 DEF One

-----------------------------------------------------------------------------
(***************************************************************************)
(* Type correctness.                                                       *)
(***************************************************************************)

\* The steps of the server that occur here.
ServerMoves ==
  \/ \E c \in Conns, m \in Message : S!handleRequest(c, m)
  \/ \E t \in S!Threads : S!FinishJob(t)
  \/ S!WebInput
  \/ \E pressed \in BOOLEAN : S!TickButton(pressed)
  \/ S!TickManage
  \/ S!TickSweep
  \/ \E c \in Conns : S!newConnectionCallback(c) \/ S!ConnectionDies(c)

LEMMA ServerMovesTypes ==
  ASSUME S!TypeOK, ServerMoves
  PROVE  S!TypeOK'
<1>1. ASSUME NEW c \in Conns, NEW m \in Message, S!handleRequest(c, m)
      PROVE  S!TypeOK'
  BY <1>1, S!HandlerTypes, SidesAssumptions, SameMessages
<1>2. ASSUME NEW t \in S!Threads, S!FinishJob(t) PROVE S!TypeOK'
  BY <1>2, S!JobTypes, SidesAssumptions
<1>3. CASE S!WebInput
  BY <1>3, S!WebTypes, SidesAssumptions DEF S!Web
<1>4. CASE (\E pressed \in BOOLEAN : S!TickButton(pressed)) \/ S!TickManage \/ S!TickSweep
  BY <1>4, S!TickTypes, SidesAssumptions DEF S!Tick
<1>5. ASSUME NEW c \in Conns, S!newConnectionCallback(c) \/ S!ConnectionDies(c)
      PROVE  S!TypeOK'
  <2>1. [S!Next]_(S!vars)
    BY <1>5 DEF S!Next
  <2> QED
    BY <2>1, S!NextTypes, SidesAssumptions
<1> QED
  BY <1>1, <1>2, <1>3, <1>4, <1>5 DEF ServerMoves

\* What the processes do to their own variables.
ClientMoves(a) ==
  \/ Client!Start(a) \/ Client!MainStep(a) \/ Client!LoopThrows(a)
  \/ \E m \in Message : Client!handleRequest(a, m)
  \/ Client!IoStep(a) \/ Client!ConnectionFails(a)

LEMMA ClientMovesTypes ==
  ASSUME Client!TypeOK, NEW a \in Clients, ClientMoves(a)
  PROVE  Client!TypeOK'
<1>1. A!TypeOK
  BY SameTypes
<1>2. A!TypeOK'
  BY <1>1, SameMain, SameReceive, SameIo, SameMessages, SidesAssumptions, A!MainTypes,
     A!HandlerTypes, A!IoTypes DEF ClientMoves
<1> QED
  BY <1>2, SameTypes, PTL

LEMMA ConnIsPair ==
  /\ \A a \in Clients, n \in 1..MaxConns : <<a, n>> \in Conns
  /\ \A c \in Conns : c = <<c[1], c[2]>> /\ c[1] \in Clients /\ c[2] \in 1..MaxConns
BY DEF Conns

\* conn(a) is a connection, in use, and a's own.
LEMMA ConnFacts ==
  ASSUME TypeOK, NEW a \in Clients
  PROVE  /\ made[a] \in 0..MaxConns
         /\ conn(a) = NoConn <=> made[a] = 0
         /\ made[a] # 0 => /\ conn(a) = <<a, made[a]>>
                           /\ conn(a) \in Used
                           /\ conn(a) \in Conns
         /\ \A b \in Clients : conn(a) = conn(b) => a = b \/ made[a] = 0
<1>1. made[a] \in 0..MaxConns /\ MaxConns \in Nat
  BY SystemAssumption DEF TypeOK
<1>2. made[a] # 0 => <<a, made[a]>> \in Conns
  BY <1>1, ConnIsPair
<1>3. conn(a) = NoConn <=> made[a] = 0
  BY <1>2, SystemAssumption DEF conn
<1>4. made[a] # 0 => conn(a) \in Used
  BY <1>1, <1>2 DEF conn, Used
<1> QED
  BY <1>1, <1>2, <1>3, <1>4 DEF conn

LEMMA DeliverTypes ==
  ASSUME S!TypeOK', s2c \in [Conns -> Queues], Deliver
  PROVE  s2c' \in [Conns -> Queues]
<1>1. \A c \in Conns : sent'[c] \in Queues
  BY SameMessages DEF S!TypeOK, Queues
<1> QED
  BY <1>1, ContentsConcat DEF Deliver

\* The queues of the system.
LEMMA TypesUsed ==
  ASSUME TypeOK
  PROVE  /\ S!TypeOK
         /\ Client!TypeOK
         /\ c2s \in [Conns -> Queues]
         /\ s2c \in [Conns -> Queues]
         /\ posted \in [Clients -> Queues]
         /\ \A c \in Conns : c2s[c] \in Queues /\ s2c[c] \in Queues
         /\ \A a \in Clients : posted[a] \in Queues
<1>1. S!TypeOK /\ A!TypeOK
  BY SameTypes DEF TypeOK
<1>2. posted \in [Clients -> Queues]
  BY <1>1, SameMessages DEF A!TypeOK, Queues
<1> QED
  BY <1>1, <1>2 DEF TypeOK, Queues

LEMMA MoveConnect ==
  ASSUME TypeOK, NEW a \in Clients, Connect(a)
  PROVE  made' \in [Clients -> 0..MaxConns]
<1>1. made[a] + 1 \in 0..MaxConns
  BY SystemAssumption DEF TypeOK, Connect
<1> QED
  BY <1>1 DEF TypeOK, Connect

\* What the main thread does on its own.
MainWorks(a) ==
  \/ Client!CreateMainThread(a) \/ Client!LoopHead(a) \/ Client!TakeAck(a)
  \/ Client!Draw(a) \/ Client!LoopThrows(a) \/ Client!TestKilled(a)
  \/ Client!CheckAlive(a) \/ Client!CheckFails(a)

(***************************************************************************)
(* Every step is one of these, or leaves everything as it is.              *)
(***************************************************************************)
SystemSteps ==
  \/ \E c \in Conns : ServerReceives(c) \/ ServerAccepts(c) \/ ServerSeesCut(c)
  \/ ServerWorks(Server!FinishJob(IoThread))
  \/ ServerTicks \/ PressKill \/ ServerWorks(Server!WebInput)
  \/ \E a \in Clients :
       \/ ClientStarts(a) \/ ClientReconnects(a) \/ ClientReceives(a)
       \/ ClientWrites(a) \/ ClientSeesCut(a) \/ ClientIo(a)
       \/ ClientWorks(a, MainWorks(a))
  \/ (\E c \in Conns : Cut(c)) \/ (\E a \in Clients : Crash(a))

LEMMA StepsOfNext ==
  ASSUME Next
  PROVE  SystemSteps
<1>1. CASE ServerStep
  BY <1>1 DEF ServerStep, SystemSteps, Server!Threads
<1>2. ASSUME NEW a \in Clients, ClientStarts(a) \/ ClientStep(a)
      PROVE  SystemSteps
  <2>1. CASE ClientLoops(a) \/ ClientCannotReconnect(a)
    <3>1. ClientWorks(a, MainWorks(a))
      BY <2>1 DEF ClientLoops, ClientCannotReconnect, ClientWorks, MainWorks
    <3> QED
      BY <3>1 DEF SystemSteps
  <2> QED
    BY <1>2, <2>1 DEF ClientStep, SystemSteps
<1>3. CASE Event
  <2>1. ASSUME NEW a \in Clients,
               \/ ClientWorks(a, Client!LoopThrows(a))
               \/ ClientWorks(a, Client!Draw(a) /\ ~looping'[a])
        PROVE  SystemSteps
    <3>1. ClientWorks(a, MainWorks(a))
      BY <2>1 DEF ClientWorks, MainWorks
    <3> QED
      BY <3>1 DEF SystemSteps
  <2> QED
    BY <1>3, <2>1 DEF Event, SystemSteps
<1> QED
  BY <1>1, <1>2, <1>3 DEF Next

LEMMA InitTypes == Init => TypeOK
<1> SUFFICES ASSUME Init PROVE TypeOK
  OBVIOUS
<1>1. Server!TypeOK
  <2>1. S!Init
    BY DEF Init, Server!Init, Server!Regs, Server!NoApp, Server!Threads,
      Server!NoJob, Server!Renderers,
      S!Init, S!Regs, S!NoApp, S!Threads, S!NoJob, S!Renderers
  <2> QED
    BY <2>1, S!InitTypes, SidesAssumptions, SameTypes
<1>2. Client!TypeOK
  <2>1. A!Init
    BY DEF Init, Client!Init, A!Init
  <2> QED
    BY <2>1, A!InitTypes, SidesAssumptions, SameTypes
<1>3. made \in [Clients -> 0..MaxConns]
  BY SystemAssumption DEF Init
<1> QED
  BY <1>1, <1>2, <1>3 DEF Init, TypeOK

\* What the steps of the server's side have in common, ...
LEMMA ServerSideTypes ==
  ASSUME TypeOK, ServerMoves, Deliver, UNCHANGED <<clientVars, made, cut, gone>>,
         c2s' \in [Conns -> Queues]
  PROVE  TypeOK'
<1>1. S!TypeOK'
  BY ServerMovesTypes, TypesUsed
<1>2. s2c' \in [Conns -> Queues]
  BY <1>1, DeliverTypes, TypesUsed
<1>3. Server!TypeOK'
  BY <1>1, SameTypes, PTL
<1>4. Client!TypeOK'
  BY DEF TypeOK, Client!TypeOK, clientVars
<1> QED
  BY <1>2, <1>3, <1>4 DEF TypeOK, Queues

\* ... and those of the processes' side.
LEMMA ClientSideTypes ==
  ASSUME TypeOK, NEW a \in Clients, ClientMoves(a), ServerIdle, UNCHANGED <<cut, gone>>,
         made' \in [Clients -> 0..MaxConns],
         c2s' \in [Conns -> Queues], s2c' \in [Conns -> Queues]
  PROVE  TypeOK'
<1>1. Client!TypeOK'
  BY ClientMovesTypes DEF TypeOK
<1>2. Server!TypeOK'
  BY DEF TypeOK, Server!TypeOK, ServerIdle, serverVars
<1> QED
  BY <1>1, <1>2 DEF TypeOK, Queues

LEMMA TakenIsTyped ==
  ASSUME TypeOK, NEW c \in Conns
  PROVE  /\ c2s[c] # <<>> => /\ Head(c2s[c]) \in Message
                             /\ [c2s EXCEPT ![c] = Tail(@)] \in [Conns -> Queues]
         /\ s2c[c] # <<>> => /\ Head(s2c[c]) \in Message
                             /\ [s2c EXCEPT ![c] = Tail(@)] \in [Conns -> Queues]
BY TypesUsed, ContentsTail

LEMMA EmptyIsTyped == <<>> \in Queues
BY DEF Queues

LEMMA StepTypes == TypeOK /\ SystemSteps => TypeOK'
<1> SUFFICES ASSUME TypeOK, SystemSteps PROVE TypeOK'
  OBVIOUS
<1>1. ASSUME NEW c \in Conns, ServerReceives(c) PROVE TypeOK'
  <2>1. Head(c2s[c]) \in Message /\ c2s' \in [Conns -> Queues]
    BY <1>1, TakenIsTyped DEF ServerReceives
  <2>2. ServerMoves
    BY <1>1, <2>1, SameHandler DEF ServerReceives, ServerMoves
  <2> QED
    BY <1>1, <2>1, <2>2, ServerSideTypes DEF ServerReceives
<1>2. ASSUME NEW c \in Conns, ServerSeesCut(c) PROVE TypeOK'
  <2>1. c2s' \in [Conns -> Queues]
    BY <1>2, TypesUsed, EmptyIsTyped DEF ServerSeesCut
  <2>2. ServerMoves
    BY <1>2, SameRest DEF ServerSeesCut, ServerMoves
  <2> QED
    BY <1>2, <2>1, <2>2, ServerSideTypes DEF ServerSeesCut
<1>3. CASE \/ \E c \in Conns : ServerAccepts(c)
           \/ ServerWorks(Server!FinishJob(IoThread))
           \/ ServerTicks \/ PressKill \/ ServerWorks(Server!WebInput)
  <2>1. ServerMoves
    BY <1>3, SameRest, SameJob, SameTick
    DEF ServerMoves, ServerAccepts, ServerTicks, PressKill, ServerWorks, S!Threads
  <2>2. Deliver /\ UNCHANGED <<clientVars, made, c2s, cut, gone>>
    BY <1>3 DEF ServerAccepts, ServerTicks, PressKill, ServerWorks
  <2> QED
    BY <2>1, <2>2, ServerSideTypes, TypesUsed
<1>4. ASSUME NEW a \in Clients, ClientStarts(a) \/ ClientReconnects(a)
      PROVE  TypeOK'
  <2>1. ClientMoves(a) /\ Connect(a) /\ ServerIdle /\ UNCHANGED <<c2s, s2c, cut, gone>>
    BY <1>4 DEF ClientStarts, ClientReconnects, ClientMoves, Client!MainStep
  <2> QED
    BY <2>1, MoveConnect, ClientSideTypes, TypesUsed
<1>5. ASSUME NEW a \in Clients, ClientReceives(a) PROVE TypeOK'
  <2>1. conn(a) \in Conns
    BY <1>5, ConnFacts DEF ClientReceives
  <2>2. Head(s2c[conn(a)]) \in Message /\ s2c' \in [Conns -> Queues]
    BY <1>5, <2>1, TakenIsTyped DEF ClientReceives
  <2>3. ClientMoves(a)
    BY <1>5, <2>2 DEF ClientReceives, ClientMoves
  <2>4. made' \in [Clients -> 0..MaxConns] /\ c2s' \in [Conns -> Queues]
    BY <1>5, TypesUsed DEF ClientReceives, TypeOK
  <2> QED
    BY <1>5, <2>2, <2>3, <2>4, ClientSideTypes DEF ClientReceives
<1>6. ASSUME NEW a \in Clients, ClientWrites(a) PROVE TypeOK'
  <2>1. ClientMoves(a)
    BY <1>6 DEF ClientWrites, ClientMoves, Client!IoStep
  <2>2. Head(posted[a]) \in Message
    BY <1>6, TypesUsed, ContentsTail DEF ClientWrites, Client!Write
  <2>3. c2s' \in [Conns -> Queues]
    BY <1>6, <2>2, TypesUsed, FramesAppend DEF ClientWrites
  <2>4. made' \in [Clients -> 0..MaxConns] /\ s2c' \in [Conns -> Queues]
    BY <1>6, TypesUsed DEF ClientWrites, TypeOK
  <2> QED
    BY <1>6, <2>1, <2>3, <2>4, ClientSideTypes DEF ClientWrites
<1>7. ASSUME NEW a \in Clients, ClientSeesCut(a) PROVE TypeOK'
  <2>1. ClientMoves(a)
    BY <1>7 DEF ClientSeesCut, ClientMoves
  <2>2. s2c' \in [Conns -> Queues]
    BY <1>7, TypesUsed, EmptyIsTyped DEF ClientSeesCut
  <2>3. made' \in [Clients -> 0..MaxConns] /\ c2s' \in [Conns -> Queues]
    BY <1>7, TypesUsed DEF ClientSeesCut, TypeOK
  <2> QED
    BY <1>7, <2>1, <2>2, <2>3, ClientSideTypes DEF ClientSeesCut
<1>8. ASSUME NEW a \in Clients,
             \/ ClientIo(a)
             \/ ClientWorks(a, MainWorks(a))
      PROVE  TypeOK'
  <2>1. ClientMoves(a)
    BY <1>8 DEF ClientIo, ClientWorks, ClientMoves, Client!IoStep, MainWorks,
      Client!MainStep
  <2>2. ServerIdle /\ UNCHANGED channelVars
    BY <1>8 DEF ClientIo, ClientWorks
  <2>3. made' \in [Clients -> 0..MaxConns] /\ c2s' \in [Conns -> Queues]
        /\ s2c' \in [Conns -> Queues]
    BY <2>2, TypesUsed DEF channelVars, TypeOK
  <2> QED
    BY <2>1, <2>2, <2>3, ClientSideTypes DEF channelVars
<1>9. CASE (\E c \in Conns : Cut(c)) \/ (\E a \in Clients : Crash(a))
  <2>1. UNCHANGED <<serverVars, clientVars, made, c2s, s2c>>
    BY <1>9 DEF Cut, Crash
  <2>2. Server!TypeOK' /\ Client!TypeOK'
    BY <2>1 DEF TypeOK, Server!TypeOK, Client!TypeOK, serverVars, clientVars
  <2>3. cut' \subseteq Conns /\ gone' \subseteq Clients
    BY <1>9, ConnFacts DEF Cut, Crash, Used, TypeOK
  <2> QED
    BY <2>1, <2>2, <2>3 DEF TypeOK
<1> QED
  BY <1>1, <1>2, <1>3, <1>4, <1>5, <1>6, <1>7, <1>8, <1>9 DEF SystemSteps

LEMMA NextTypes == TypeOK /\ [Next]_vars => TypeOK'
<1>1. TypeOK /\ UNCHANGED vars => TypeOK'
  BY DEF TypeOK, Server!TypeOK, Client!TypeOK, vars, serverVars, clientVars,
    channelVars
<1> QED
  BY <1>1, StepsOfNext, StepTypes

\* Server, processes and the messages between them keep their types: nobody
\* is ever sent what the protocol does not know (matrixserver.proto).
THEOREM TypeCorrect == Spec => []TypeOK
BY InitTypes, NextTypes, PTL DEF Spec

-----------------------------------------------------------------------------
(***************************************************************************)
(* What a step of the server does to a connection.                         *)
(***************************************************************************)
Rendering(c) == job[IoThread].step = "render" /\ job[IoThread].conn = c

\* The server has connection c, or an app or a running handler does.
Knows(c) ==
  \/ c \in connections
  \/ job[IoThread].conn = c
  \/ \E r \in apps : app[r].conn = c

\* The step sends nothing to connections it does not know, and only these.
SendsOnly(types) ==
  \A c \in Conns : /\ sent'[c] # <<>> => Knows(c)
                   /\ \A m \in Contents(sent'[c]) : m.type \in types

\* Registrations keep their connection and their id; a new one is numbered
\* next and is connection c's.
StackKept(c) ==
  /\ registered' \in {registered, registered + 1}
  /\ \A r \in apps' :
       \/ /\ r \in apps
          /\ app'[r].conn = app[r].conn
          /\ app'[r].id = app[r].id
       \/ /\ r = registered + 1 /\ registered' = r
          /\ app'[r].conn = c
          /\ app'[r].id = r

\* Registrations go, or nothing happens to them.
AppsGo ==
  /\ registered' = registered
  /\ apps' \subseteq apps
  /\ \A r \in apps' : app'[r].conn = app[r].conn /\ app'[r].id = app[r].id

LEMMA AppsGoKeeps ==
  ASSUME AppsGo, NEW c
  PROVE  StackKept(c)
BY DEF AppsGo, StackKept

LEMMA SentTo ==
  ASSUME NEW d, NEW type, NEW id, sent' = S!To(d, S!Msg(type, id))
  PROVE  \A c \in Conns : sent'[c] = IF c = d THEN <<Msg(type, id)>> ELSE <<>>
BY DEF S!To, S!Quiet, S!Msg, Msg

LEMMA SentNothing ==
  ASSUME sent' = S!Quiet
  PROVE  (\A c \in Conns : sent'[c] = <<>>) /\ \A types : SendsOnly(types)
BY ContentsEmpty DEF S!Quiet, SendsOnly

LEMMA SentToKnown ==
  ASSUME NEW d, Knows(d), NEW type, NEW id, sent' = S!To(d, S!Msg(type, id)),
         NEW types, type \in types
  PROVE  SendsOnly(types)
<1>1. \A c \in Conns : sent'[c] = IF c = d THEN <<Msg(type, id)>> ELSE <<>>
  BY SentTo
<1>2. Msg(type, id).type = type
  BY DEF Msg
<1>3. \A c \in Conns : \A m \in Contents(sent'[c]) : c = d /\ m = Msg(type, id)
  BY <1>1, ContentsOne, ContentsEmpty
<1> QED
  BY <1>1, <1>2, <1>3 DEF SendsOnly

LEMMA EraseEffect ==
  ASSUME S!TypeOK, NEW erased, NEW resume, S!EraseApps(erased, resume)
  PROVE  AppsGo /\ SendsOnly({"appResume"})
<1>1. apps' = apps \ erased /\ registered' = registered
  BY DEF S!EraseApps
<1>2. \A r \in apps' : r \in apps /\ app'[r] = app[r]
  BY <1>1 DEF S!EraseApps, S!TypeOK
<1>3. SendsOnly({"appResume"})
  <2>1. CASE sent' = S!Quiet
    BY <2>1, SentNothing
  <2>2. CASE \E r \in apps : sent' = S!To(app[r].conn, S!Msg("appResume", app[r].id))
    BY <2>2, SentToKnown DEF Knows
  <2> QED
    BY <2>1, <2>2 DEF S!EraseApps
<1> QED
  BY <1>1, <1>2, <1>3 DEF AppsGo

LEMMA IoThreadOnly == S!Threads = {IoThread} /\ S!Renderers = 1..NRenderers
BY DEF S!Threads, S!Renderers

\* StartJob gives the io thread its job for connection c.
LEMMA JobStarted ==
  ASSUME S!TypeOK, NEW c, NEW step, NEW id, NEW level, S!StartJob(c, step, id, level)
  PROVE  /\ job'[IoThread].step = step
         /\ job'[IoThread].conn = c
         /\ job'[IoThread].id = id
<1>1. IoThread \in S!Threads /\ S!HandlerOf(c) = IoThread
  BY DEF S!Threads, S!HandlerOf
<1> QED
  BY <1>1 DEF S!TypeOK, S!StartJob

LEMMA NoJobIsIdle ==
  /\ S!NoJob.step = "idle" /\ S!NoJob.conn = NoConn /\ S!NoJob.id = 0
BY DEF S!NoJob

\* A handler's first step: it finds the io thread idle.  A frame is neither
\* answered nor forgotten: it becomes the io thread's job.
HandlerEffect(c, m) ==
  /\ c \in connections
  /\ job[IoThread] = S!NoJob
  /\ UNCHANGED connections
  /\ StackKept(c)
  /\ SendsOnly({"appPause", "appResume", "getServerInfo"})
  /\ \/ UNCHANGED job
     \/ job'[IoThread].step \in {"reply", "render", "refuse", "forward"}
        /\ job'[IoThread].conn = c
  /\ m.type = "setScreenFrame" <=> job'[IoThread].step \in {"render", "refuse"}
  /\ job'[IoThread].step = "reply" =>
       /\ job'[IoThread].id = registered + 1
       /\ registered' = registered + 1
       /\ registered + 1 \in apps' /\ app'[registered + 1].conn = c
  /\ \A d \in Conns : \A x \in Contents(sent'[d]) :
       x.type = "getServerInfo" => d = c /\ m.type = "getServerInfo"

LEMMA HandlerDoes ==
  ASSUME S!TypeOK, NEW c \in Conns, NEW m \in Message, S!handleRequest(c, m)
  PROVE  HandlerEffect(c, m)
<1> USE DEF S!stackVars, S!connVars
<1>1. c \in connections /\ job[IoThread] = S!NoJob
  BY DEF S!handleRequest, S!Ready, S!HandlerOf
<1>2. ASSUME UNCHANGED connections, StackKept(c), UNCHANGED job,
             SendsOnly({"appPause", "appResume"}), m.type # "setScreenFrame"
      PROVE  HandlerEffect(c, m)
  BY <1>1, <1>2, NoJobIsIdle DEF HandlerEffect, SendsOnly
<1>3. ASSUME UNCHANGED <<apps, registered>>,
             \A r \in apps : app'[r].conn = app[r].conn /\ app'[r].id = app[r].id
      PROVE  StackKept(c)
  BY <1>3 DEF StackKept
<1>4. CASE S!RegisterApp(c, m)
  <2> DEFINE new == registered + 1
  <2>1. PICK id \in S!DrawableIds(new) :
          /\ app' = [app EXCEPT ![new] = [S!NoApp EXCEPT !.id = id, !.conn = c]]
          /\ S!StartJob(c, "reply", id, 0)
    BY <1>4 DEF S!RegisterApp
  <2>2. id = new
    BY DEF S!DrawableIds
  <2>3. new \in S!Regs /\ registered' = new /\ apps' = apps \cup {new} /\ UNCHANGED connections
    BY <1>4, SidesAssumptions DEF S!RegisterApp, S!TypeOK, S!Regs, S!ProtocolAssumption
  <2>4. app'[new].conn = c /\ app'[new].id = new
    BY <2>1, <2>2, <2>3 DEF S!TypeOK, S!NoApp
  <2>5. \A r \in apps : r # new => app'[r] = app[r]
    BY <2>1 DEF S!TypeOK
  <2>6. StackKept(c)
    BY <2>3, <2>4, <2>5 DEF StackKept
  <2>7. SendsOnly({"appPause"})
    <3>1. CASE sent' = S!Quiet
      BY <3>1, SentNothing
    <3>2. CASE \E r \in apps : sent' = S!To(app[r].conn, S!Msg("appPause", app[r].id))
      BY <3>2, SentToKnown DEF Knows
    <3> QED
      BY <1>4, <3>1, <3>2 DEF S!RegisterApp, S!PauseTopApp
  <2>8. /\ job'[IoThread].step = "reply" /\ job'[IoThread].conn = c
        /\ job'[IoThread].id = new
    BY <2>1, <2>2, JobStarted
  <2>9. m.type = "registerApp"
    BY <1>4 DEF S!RegisterApp
  <2> QED
    BY <1>1, <2>3, <2>4, <2>6, <2>7, <2>8, <2>9 DEF HandlerEffect, SendsOnly
<1>5. CASE S!GetServerInfo(c, m)
  <2>1. sent' = S!To(c, S!Msg("getServerInfo", 0)) /\ m.type = "getServerInfo"
        /\ UNCHANGED <<apps, app, registered, connections, job>>
    BY <1>5 DEF S!GetServerInfo
  <2>2. SendsOnly({"appPause", "appResume", "getServerInfo"})
    BY <1>1, <2>1, SentToKnown DEF Knows
  <2>3. \A d \in Conns : Contents(sent'[d]) # {} => d = c
    BY <2>1, SentTo, ContentsEmpty
  <2> QED
    BY <1>1, <1>3, <2>1, <2>2, <2>3, NoJobIsIdle DEF HandlerEffect
<1>6. CASE S!CheckFrame(c, m)
  <2>1. /\ job'[IoThread].step \in {"render", "refuse"} /\ job'[IoThread].conn = c
        /\ m.type = "setScreenFrame" /\ sent' = S!Quiet
        /\ UNCHANGED <<apps, app, registered, connections>>
    BY <1>6, JobStarted DEF S!CheckFrame
  <2>2. \A d \in Conns : Contents(sent'[d]) = {}
    BY <2>1, SentNothing, ContentsEmpty
  <2> QED
    BY <1>1, <1>3, <2>1, <2>2, SentNothing DEF HandlerEffect
<1>7. CASE S!RecordState(c, m)
  <2>1. /\ UNCHANGED <<apps, registered, connections, job>> /\ sent' = S!Quiet
        /\ m.type # "setScreenFrame"
    BY <1>7 DEF S!RecordState
  <2>2. \A r \in apps : app'[r].conn = app[r].conn /\ app'[r].id = app[r].id
    BY <1>7 DEF S!RecordState, S!TypeOK, S!App
  <2> QED
    BY <1>2, <1>3, <2>1, <2>2, SentNothing
<1>8. CASE S!AppKilled(c, m)
  <2>1. StackKept(c) /\ SendsOnly({"appResume"})
    BY <1>8, EraseEffect, AppsGoKeeps DEF S!AppKilled
  <2>2. SendsOnly({"appPause", "appResume"})
    BY <2>1 DEF SendsOnly
  <2> QED
    BY <1>2, <1>8, <2>1, <2>2 DEF S!AppKilled
<1>9. CASE S!StoreSchema(c, m)
  <2>1. /\ job'[IoThread].step = "forward" /\ job'[IoThread].conn = c
        /\ m.type # "setScreenFrame" /\ sent' = S!Quiet
        /\ UNCHANGED <<apps, registered, connections>>
    BY <1>9, JobStarted DEF S!StoreSchema
  <2>2. \A r \in apps : app'[r].conn = app[r].conn /\ app'[r].id = app[r].id
    BY <1>9 DEF S!StoreSchema, S!TypeOK, S!App
  <2>3. \A d \in Conns : Contents(sent'[d]) = {}
    BY <2>1, SentNothing, ContentsEmpty
  <2> QED
    BY <1>1, <1>3, <2>1, <2>2, <2>3, SentNothing DEF HandlerEffect
<1>10. CASE S!Inert(c, m)
  <2>1. /\ UNCHANGED <<apps, app, registered, connections, job>> /\ sent' = S!Quiet
        /\ m.type # "setScreenFrame"
    BY <1>10 DEF S!Inert, S!InertTypes
  <2> QED
    BY <1>2, <1>3, <2>1, SentNothing
<1> QED
  BY <1>4, <1>5, <1>6, <1>7, <1>8, <1>9, <1>10 DEF S!handleRequest

\* The rest of a handler: it sends to the connection it serves, and the reply
\* to a registration carries the id of the job.
JobEffect ==
  /\ UNCHANGED <<connections, apps, app, registered>>
  /\ \/ job'[IoThread] = S!NoJob
     \/ /\ NRenderers # 1
        /\ job'[IoThread].step = "render" /\ job[IoThread].step = "render"
        /\ job'[IoThread].conn = job[IoThread].conn
  /\ SendsOnly({"registerApp", "setScreenFrame", "appPause"})
  /\ \A c \in Conns :
       IF job[IoThread].step = "render"
       THEN sent'[c] = IF c = job[IoThread].conn THEN <<Msg("setScreenFrame", 0)>> ELSE <<>>
       ELSE \A m \in Contents(sent'[c]) :
              /\ m.type # "setScreenFrame"
              /\ m.type = "registerApp" =>
                   /\ job[IoThread].step = "reply"
                   /\ job[IoThread].conn = c /\ job[IoThread].id = m.id

LEMMA JobDoes ==
  ASSUME S!TypeOK, S!FinishJob(IoThread)
  PROVE  JobEffect
<1> USE DEF S!stackVars, S!connVars
<1> DEFINE j == job[IoThread]
<1>1. IoThread \in S!Threads /\ j \in S!Job /\ S!NoJob.step = "idle"
  BY IoThreadOnly DEF S!TypeOK, S!NoJob
<1>2. Knows(j.conn)
  BY DEF Knows
<1>3. S!EndJob(IoThread) => job'[IoThread] = S!NoJob
  BY <1>1 DEF S!EndJob, S!TypeOK
<1>4. UNCHANGED <<connections, apps, app, registered>>
  BY DEF S!FinishJob, S!ReplyRegistered, S!RenderFrame, S!RefuseFrame, S!ForwardSchema
<1>5. ASSUME NEW type \in {"registerApp", "appPause"}, j.step # "render",
             type = "registerApp" => j.step = "reply",
             sent' = S!To(j.conn, S!Msg(type, j.id)), S!EndJob(IoThread)
      PROVE  JobEffect
  <2>1. \A c \in Conns : sent'[c] = IF c = j.conn THEN <<Msg(type, j.id)>> ELSE <<>>
    BY <1>5, SentTo
  <2>2. \A c \in Conns : \A m \in Contents(sent'[c]) : c = j.conn /\ m = Msg(type, j.id)
    BY <2>1, ContentsOne, ContentsEmpty
  <2>3. Msg(type, j.id).type = type /\ Msg(type, j.id).id = j.id
    BY DEF Msg
  <2>4. SendsOnly({"registerApp", "setScreenFrame", "appPause"})
    BY <1>2, <1>5, SentToKnown
  <2> QED
    BY <1>3, <1>4, <1>5, <2>2, <2>3, <2>4 DEF JobEffect
<1>6. CASE S!ReplyRegistered(IoThread)
  BY <1>5, <1>6 DEF S!ReplyRegistered
<1>7. CASE S!RenderFrame(IoThread)
  <2>1. j.step = "render" /\ sent' = S!To(j.conn, S!Msg("setScreenFrame", 0))
    BY <1>7 DEF S!RenderFrame
  <2>2. SendsOnly({"registerApp", "setScreenFrame", "appPause"})
    BY <1>2, <2>1, SentToKnown
  <2>3. \A c \in Conns : sent'[c] = IF c = j.conn THEN <<Msg("setScreenFrame", 0)>> ELSE <<>>
    BY <2>1, SentTo
  <2>4. CASE S!LastRenderer(j.todo)
    <3>1. job'[IoThread] = S!NoJob
      BY <1>3, <1>7, <2>4 DEF S!RenderFrame
    <3> QED
      BY <1>4, <2>1, <2>2, <2>3, <3>1 DEF JobEffect
  <2>5. CASE ~S!LastRenderer(j.todo)
    <3>1. NRenderers # 1
      BY <1>1, <2>5, IoThreadOnly DEF S!LastRenderer, S!Job
    <3>2. job' = [job EXCEPT ![IoThread].todo = j.todo + 1]
      BY <1>7, <2>5 DEF S!RenderFrame
    <3>3. job'[IoThread].step = j.step /\ job'[IoThread].conn = j.conn
      BY <1>1, <3>2 DEF S!TypeOK, S!Job
    <3> QED
      BY <1>4, <2>1, <2>2, <2>3, <3>1, <3>3 DEF JobEffect
  <2> QED
    BY <2>4, <2>5
<1>8. CASE S!RefuseFrame(IoThread)
  BY <1>5, <1>8 DEF S!RefuseFrame
<1>9. CASE S!ForwardSchema(IoThread)
  <2>1. j.step # "render" /\ sent' = S!Quiet /\ job'[IoThread] = S!NoJob
    BY <1>3, <1>9 DEF S!ForwardSchema
  <2>2. \A c \in Conns : Contents(sent'[c]) = {}
    BY <2>1, SentNothing, ContentsEmpty
  <2> QED
    BY <1>4, <2>1, <2>2, SentNothing DEF JobEffect
<1> QED
  BY <1>6, <1>7, <1>8, <1>9 DEF S!FinishJob

\* All other steps leave the io thread's job and the registrations alone,
\* except that apps may go.
OtherMoves ==
  \/ S!WebInput
  \/ \E pressed \in BOOLEAN : S!TickButton(pressed)
  \/ S!TickManage
  \/ S!TickSweep
  \/ \E c \in Conns : S!ConnectionDies(c)

OtherEffect ==
  /\ UNCHANGED job
  /\ connections' \subseteq connections
  /\ AppsGo
  /\ SendsOnly({"appKill", "appResume", "joystickData"})

LEMMA OtherDoes ==
  ASSUME S!TypeOK, S!TypeOK', OtherMoves
  PROVE  OtherEffect
<1> USE DEF S!stackVars, S!connVars
<1>1. ASSUME UNCHANGED <<job, apps, app, registered>>, connections' \subseteq connections,
             SendsOnly({"appKill", "joystickData"})
      PROVE  OtherEffect
  BY <1>1 DEF OtherEffect, AppsGo, SendsOnly
<1>2. CASE S!WebInput
  <2>1. SendsOnly({"appKill", "joystickData"})
    <3> SUFFICES ASSUME NEW c \in Conns
                 PROVE  /\ sent'[c] # <<>> => Knows(c)
                        /\ \A m \in Contents(sent'[c]) : m.type \in {"appKill", "joystickData"}
      BY DEF SendsOnly
    <3> DEFINE mine == {r \in apps : app[r].conn = c}
               n == S!Cardinality(mine)
    <3>1. sent'[c] = [i \in 1..n |-> S!Msg("joystickData", 0)]
      BY <1>2 DEF S!WebInput
    <3>2. sent'[c] \in Queues
      BY SameMessages DEF S!TypeOK, Queues
    <3> HIDE DEF n
    <3>3. DOMAIN sent'[c] = 1..n
      BY <3>1
    <3>4. DOMAIN sent'[c] = 1..Len(sent'[c])
      BY <3>2, LenProperties DEF Queues
    <3>5. \A m \in Contents(sent'[c]) : m = S!Msg("joystickData", 0)
      BY <3>1, <3>3, <3>4 DEF Contents
    <3>6. S!Msg("joystickData", 0).type = "joystickData"
      BY DEF S!Msg
    <3>7. ASSUME mine = {} PROVE sent'[c] = <<>>
      <4>1. n = 0
        <5>1. S!Cardinality({}) = 0
          BY S!FS_EmptySet, SidesAssumptions
        <5> QED
          BY <3>7, <5>1 DEF n
      <4>2. 1..Len(sent'[c]) = 1..0
        BY <3>3, <3>4, <4>1, Zenon
      <4>3. Len(sent'[c]) \in Nat
        BY <3>2, LenProperties DEF Queues
      <4>4. \A k \in Nat : 1..k = 1..0 => k = 0
        <5> SUFFICES ASSUME NEW k \in Nat, k # 0 PROVE 1 \in 1..k /\ 1 \notin 1..0
          BY Zenon
        <5> QED
          OBVIOUS
      <4> QED
        BY <3>2, <4>2, <4>3, <4>4, EmptySeq DEF Queues
    <3> QED
      BY <3>5, <3>6, <3>7 DEF Knows
  <2> QED
    BY <1>1, <1>2, <2>1 DEF S!WebInput
<1>3. ASSUME NEW pressed \in BOOLEAN, S!TickButton(pressed)
      PROVE  OtherEffect
  <2>1. CASE sent' = S!Quiet
    BY <1>1, <1>3, <2>1, SentNothing DEF S!TickButton
  <2>2. CASE \E r \in apps : sent' = S!To(app[r].conn, S!Msg("appKill", 0))
    <3>1. SendsOnly({"appKill", "joystickData"})
      BY <2>2, SentToKnown DEF Knows
    <3> QED
      BY <1>1, <1>3, <3>1 DEF S!TickButton
  <2> QED
    BY <1>3, <2>1, <2>2 DEF S!TickButton
<1>4. CASE S!TickManage
  <2>1. AppsGo /\ SendsOnly({"appResume"})
    <3>1. PICK erased, resume : S!EraseApps(erased, resume)
      BY <1>4 DEF S!TickManage
    <3> QED
      BY <3>1, EraseEffect
  <2> QED
    BY <1>4, <2>1 DEF S!TickManage, OtherEffect, SendsOnly
<1>5. CASE S!TickSweep \/ \E c \in Conns : S!ConnectionDies(c)
  BY <1>1, <1>5, SentNothing DEF S!TickSweep, S!ConnectionDies
<1> QED
  BY <1>2, <1>3, <1>4, <1>5 DEF OtherMoves

LEMMA AcceptDoes ==
  ASSUME NEW c \in Conns, S!newConnectionCallback(c)
  PROVE  /\ UNCHANGED <<job, apps, app, registered>>
         /\ connections' = connections \cup {c}
         /\ \A d \in Conns : sent'[d] = <<>>
BY SentNothing DEF S!newConnectionCallback, S!stackVars

-----------------------------------------------------------------------------
(***************************************************************************)
(* Connections that were not made yet are empty and known to nobody, what  *)
(* the server sends is one of its own messages, a process that has not     *)
(* connected has done nothing, and one that finds its connection dead has  *)
(* seen it cut.                                                            *)
(***************************************************************************)
Unstarted ==
  \A a \in Clients : made[a] = 0 =>
    mainAt[a] = "off" /\ posted[a] = <<>> /\ appState[a] = "starting"

UnusedEmpty ==
  \A c \in Conns : c \notin Used => c2s[c] = <<>> /\ s2c[c] = <<>> /\ ~Knows(c)

AnswersOnly ==
  \A c \in Conns : \A m \in Contents(s2c[c]) : m.type \in ServerTypes

DeadIsCut == \A a \in Clients : connDead[a] => conn(a) \in cut

Base == TypeOK /\ Unstarted /\ UnusedEmpty /\ AnswersOnly /\ DeadIsCut

LEMMA BaseInit == Init => Base
<1> SUFFICES ASSUME Init PROVE Base
  OBVIOUS
<1>1. TypeOK
  BY InitTypes
<1>2. Unstarted /\ DeadIsCut
  BY DEF Init, Client!Init, Unstarted, DeadIsCut
<1>3. \A c \in Conns : ~Knows(c)
  <2>1. job[IoThread] = Server!NoJob
    BY DEF Init, Server!Init, Server!Threads
  <2>2. job[IoThread].conn = NoConn
    BY <2>1 DEF Server!NoJob
  <2> QED
    BY <2>2, SystemAssumption DEF Init, Server!Init, Knows
<1>4. UnusedEmpty /\ AnswersOnly
  BY <1>3, ContentsEmpty DEF Init, UnusedEmpty, AnswersOnly
<1> QED
  BY <1>1, <1>2, <1>4 DEF Base

\* A step of the server's side ...
LEMMA ServerSideBase ==
  ASSUME Base, TypeOK', Deliver, UNCHANGED <<clientVars, made, cut, gone>>,
         SendsOnly(ServerTypes),
         \A c \in Conns : Knows(c)' => Knows(c) \/ c \in Used,
         \A c \in Conns : c \notin Used => c2s'[c] = <<>>
  PROVE  Base'
<1>1. Unstarted' /\ DeadIsCut'
  BY DEF Base, Unstarted, DeadIsCut, clientVars, conn
<1>2. ASSUME NEW c \in Conns PROVE s2c'[c] = s2c[c] \/ s2c'[c] = s2c[c] \o sent'[c]
  BY <1>2 DEF Deliver
<1>3. \A c \in Conns : s2c[c] \in Queues /\ sent'[c] \in Queues
  <2>1. S!TypeOK'
    BY SameTypes, PTL DEF TypeOK
  <2> QED
    BY <2>1, TypesUsed, SameMessages DEF S!TypeOK, Queues, Base
<1>4. AnswersOnly'
  <2> SUFFICES ASSUME NEW c \in Conns, NEW m \in Contents(s2c'[c])
               PROVE  m.type \in ServerTypes
    BY DEF AnswersOnly
  <2>1. m \in Contents(s2c[c]) \/ m \in Contents(sent'[c])
    <3>1. Contents(s2c[c] \o sent'[c]) = Contents(s2c[c]) \cup Contents(sent'[c])
      BY <1>3, ContentsConcat
    <3>2. CASE s2c'[c] = s2c[c]
      BY <3>2
    <3>3. CASE s2c'[c] = s2c[c] \o sent'[c]
      BY <3>1, <3>3
    <3> QED
      BY <1>2, <3>2, <3>3
  <2>2. m \in Contents(s2c[c]) => m.type \in ServerTypes
    BY DEF Base, AnswersOnly
  <2>3. m \in Contents(sent'[c]) => m.type \in ServerTypes
    BY DEF SendsOnly
  <2> QED
    BY <2>1, <2>2, <2>3
<1>5. ASSUME NEW c \in Conns, c \notin Used PROVE s2c'[c] = <<>> /\ ~Knows(c)'
  <2>1. s2c[c] = <<>> /\ ~Knows(c)
    BY <1>5 DEF Base, UnusedEmpty
  <2>2. sent'[c] = <<>>
    BY <2>1 DEF SendsOnly
  <2>3. s2c[c] \o sent'[c] = <<>>
    BY <2>1, <2>2
  <2> QED
    BY <1>2, <1>5, <2>1, <2>3
<1>6. UnusedEmpty'
  BY <1>5 DEF UnusedEmpty, Used
<1> QED
  BY <1>1, <1>4, <1>6 DEF Base

\* ... and one of the processes' side.
LEMMA ClientSideBase ==
  ASSUME Base, TypeOK', Unstarted', DeadIsCut', ServerIdle,
         \A c \in Conns : c \in Used => c \in Used',
         \A c \in Conns : c \notin Used' => c2s'[c] = c2s[c],
         \A c \in Conns : s2c'[c] = s2c[c] \/ Contents(s2c'[c]) \subseteq Contents(s2c[c]),
         \A c \in Conns : s2c[c] = <<>> => s2c'[c] = <<>>
  PROVE  Base'
<1>1. \A c \in Conns : Knows(c)' <=> Knows(c)
  BY DEF Knows, ServerIdle, serverVars
<1>2. UnusedEmpty'
  BY <1>1 DEF Base, UnusedEmpty
<1>3. AnswersOnly'
  BY DEF Base, AnswersOnly
<1> QED
  BY <1>2, <1>3 DEF Base

\* conn(a) moves on to a connection that was not in use.
LEMMA ConnectDoes ==
  ASSUME TypeOK, NEW a \in Clients, Connect(a)
  PROVE  /\ made'[a] = made[a] + 1
         /\ conn(a)' = <<a, made[a] + 1>>
         /\ conn(a)' \in Conns /\ conn(a)' \notin Used
         /\ \A b \in Clients : b # a => made'[b] = made[b] /\ conn(b)' = conn(b)
         /\ \A c \in Conns : c \in Used => c \in Used'
<1>1. made[a] \in Nat /\ made[a] + 1 \in 1..MaxConns /\ made[a] + 1 # 0
  BY SystemAssumption DEF TypeOK, Connect
<1>2. /\ made'[a] = made[a] + 1
      /\ \A b \in Clients : b # a => made'[b] = made[b]
  BY DEF TypeOK, Connect
<1>3. conn(a)' = <<a, made[a] + 1>>
  BY <1>1, <1>2 DEF conn
<1>4. conn(a)' \in Conns
  BY <1>1, <1>3, ConnIsPair
<1>5. conn(a)' \notin Used
  BY <1>1, <1>3 DEF Used
<1>6. \A b \in Clients : b # a => conn(b)' = conn(b)
  BY <1>2 DEF conn
<1>7. ASSUME NEW c \in Conns, c \in Used PROVE c \in Used'
  <2>1. c[1] \in Clients /\ c[2] \in Nat /\ c[2] <= made[c[1]]
    BY <1>7, ConnIsPair, SystemAssumption DEF Used
  <2>2. made'[c[1]] \in Nat /\ made[c[1]] \in Nat /\ made'[c[1]] >= made[c[1]]
    <3>1. made[c[1]] \in Nat
      BY <2>1, SystemAssumption DEF TypeOK
    <3> QED
      BY <1>1, <1>2, <2>1, <3>1
  <2> QED
    BY <1>7, <2>1, <2>2 DEF Used
<1> QED
  BY <1>2, <1>3, <1>4, <1>5, <1>6, <1>7


\* A connection the server comes to know is one that is in use.
LEMMA KnownAfter ==
  ASSUME S!TypeOK, NEW c \in Conns, NEW d \in Conns, Knows(d)',
         \/ \E b \in Conns, m \in Message : HandlerEffect(b, m)
         \/ JobEffect
         \/ OtherEffect
  PROVE  Knows(d)
<1>1. S!NoJob.conn = NoConn /\ NoConn # d
  BY NoJobIsIdle, SystemAssumption
<1>2. ASSUME NEW b \in Conns, NEW m \in Message, HandlerEffect(b, m)
      PROVE  Knows(d)
  BY <1>1, <1>2 DEF HandlerEffect, Knows, StackKept
<1>3. CASE JobEffect
  BY <1>1, <1>3 DEF JobEffect, Knows
<1>4. CASE OtherEffect
  BY <1>4 DEF OtherEffect, AppsGo, Knows
<1> QED
  BY <1>2, <1>3, <1>4

\* The steps of the server's side, with what they do: one kind at a time.
ServerCases ==
  \/ \E c \in Conns : /\ c2s[c] # <<>>
                      /\ HandlerEffect(c, Head(c2s[c]))
                      /\ c2s' = [c2s EXCEPT ![c] = Tail(@)]
  \/ JobEffect /\ UNCHANGED c2s
  \/ OtherEffect /\ \/ UNCHANGED c2s
                    \/ \E c \in cut : c2s' = [c2s EXCEPT ![c] = <<>>]
  \/ /\ UNCHANGED <<job, apps, app, registered, c2s>>
     /\ \E c \in Used : connections' = connections \cup {c}
     /\ \A d \in Conns : sent'[d] = <<>>

ServerSide == ServerCases /\ Deliver /\ UNCHANGED <<clientVars, made, cut, gone>>

\* Every step is one of the server's side, one of a process or an accident.
ClientSide(a) ==
  \/ ClientStarts(a) \/ ClientReconnects(a) \/ ClientReceives(a)
  \/ ClientWrites(a) \/ ClientSeesCut(a) \/ ClientIo(a)
  \/ ClientWorks(a, MainWorks(a))

Accident ==
  /\ UNCHANGED <<serverVars, clientVars, made, c2s, s2c>>
  /\ cut \subseteq cut'

LEMMA Sides ==
  ASSUME TypeOK, TypeOK', SystemSteps
  PROVE  ServerSide \/ (\E a \in Clients : ClientSide(a)) \/ Accident
<1>1. S!TypeOK
  BY TypesUsed
<1>2. S!TypeOK'
  BY SameTypes, PTL DEF TypeOK
<1>3. ASSUME NEW c \in Conns, ServerReceives(c) PROVE ServerSide
  <2>1. HandlerEffect(c, Head(c2s[c]))
    BY <1>1, <1>3, TakenIsTyped, SameHandler, HandlerDoes DEF ServerReceives
  <2> QED
    BY <1>3, <2>1 DEF ServerReceives, ServerSide, ServerCases
<1>4. ASSUME NEW c \in Conns, ServerSeesCut(c) PROVE ServerSide
  <2>1. OtherEffect
    BY <1>1, <1>2, <1>4, SameRest, OtherDoes DEF ServerSeesCut, OtherMoves
  <2> QED
    BY <1>4, <2>1 DEF ServerSeesCut, ServerSide, ServerCases
<1>5. ASSUME NEW c \in Conns, ServerAccepts(c) PROVE ServerSide
  <2>1. S!newConnectionCallback(c) /\ c \in Used /\ Deliver
        /\ UNCHANGED <<clientVars, made, c2s, cut, gone>>
    BY <1>5, SameRest DEF ServerAccepts, ServerWorks
  <2> QED
    BY <2>1, AcceptDoes DEF ServerSide, ServerCases
<1>6. CASE ServerWorks(Server!FinishJob(IoThread))
  <2>1. JobEffect
    BY <1>1, <1>6, SameJob, JobDoes DEF ServerWorks
  <2> QED
    BY <1>6, <2>1 DEF ServerWorks, ServerSide, ServerCases
<1>7. CASE ServerTicks \/ PressKill \/ ServerWorks(Server!WebInput)
  <2>1. OtherEffect
    <3>1. OtherMoves
      BY <1>7, SameRest, SameTick
      DEF ServerTicks, PressKill, ServerWorks, OtherMoves
    <3> QED
      BY <1>1, <1>2, <3>1, OtherDoes
  <2>2. Deliver /\ UNCHANGED <<clientVars, made, c2s, cut, gone>>
    BY <1>7 DEF ServerTicks, PressKill, ServerWorks
  <2> QED
    BY <2>1, <2>2 DEF ServerSide, ServerCases
<1>8. CASE (\E c \in Conns : Cut(c)) \/ (\E a \in Clients : Crash(a))
  BY <1>8 DEF Cut, Crash, Accident
<1> QED
  BY <1>3, <1>4, <1>5, <1>6, <1>7, <1>8 DEF SystemSteps, ClientSide

LEMMA ServerKeepsBase ==
  ASSUME Base, TypeOK', ServerSide
  PROVE  Base'
<1>1. S!TypeOK /\ c2s \in [Conns -> Queues]
  BY TypesUsed DEF Base
<1>2. ASSUME NEW types \in SUBSET ServerTypes, SendsOnly(types) PROVE SendsOnly(ServerTypes)
  BY <1>2 DEF SendsOnly
<1>3. \A c \in Conns : c \notin Used => c2s[c] = <<>>
  BY DEF Base, UnusedEmpty
<1>4. /\ SendsOnly(ServerTypes)
      /\ \A d \in Conns : Knows(d)' => Knows(d) \/ d \in Used
      /\ \A d \in Conns : d \notin Used => c2s'[d] = <<>>
  <2>1. ASSUME NEW c \in Conns, c2s[c] # <<>>, HandlerEffect(c, Head(c2s[c])),
               c2s' = [c2s EXCEPT ![c] = Tail(@)]
        PROVE  <1>4!:
    <3>1. SendsOnly(ServerTypes)
      <4>1. SendsOnly({"appPause", "appResume", "getServerInfo"})
        BY <2>1 DEF HandlerEffect
      <4> QED
        BY <1>2, <4>1 DEF ServerTypes
    <3>2. \A d \in Conns : Knows(d)' => Knows(d)
      <4>1. Head(c2s[c]) \in Message
        BY <2>1, TakenIsTyped DEF Base
      <4> QED
        BY <1>1, <2>1, <4>1, KnownAfter
    <3>3. \A d \in Conns : d \notin Used => c2s'[d] = <<>>
      BY <1>1, <1>3, <2>1
    <3> QED
      BY <3>1, <3>2, <3>3
  <2>2. CASE JobEffect /\ UNCHANGED c2s
    <3>1. SendsOnly(ServerTypes)
      <4>1. SendsOnly({"registerApp", "setScreenFrame", "appPause"})
        BY <2>2 DEF JobEffect
      <4> QED
        BY <1>2, <4>1 DEF ServerTypes
    <3>2. \A d \in Conns : Knows(d)' => Knows(d)
      BY <1>1, <2>2, KnownAfter
    <3> QED
      BY <1>3, <2>2, <3>1, <3>2
  <2>3. CASE OtherEffect /\ \/ UNCHANGED c2s
                            \/ \E c \in cut : c2s' = [c2s EXCEPT ![c] = <<>>]
    <3>1. SendsOnly(ServerTypes)
      <4>1. SendsOnly({"appKill", "appResume", "joystickData"})
        BY <2>3 DEF OtherEffect
      <4> QED
        BY <1>2, <4>1 DEF ServerTypes
    <3>2. \A d \in Conns : Knows(d)' => Knows(d)
      BY <1>1, <2>3, KnownAfter
    <3>3. \A d \in Conns : d \notin Used => c2s'[d] = <<>>
      BY <1>1, <1>3, <2>3
    <3> QED
      BY <3>1, <3>2, <3>3
  <2>4. CASE /\ UNCHANGED <<job, apps, app, registered, c2s>>
             /\ \E c \in Used : connections' = connections \cup {c}
             /\ \A d \in Conns : sent'[d] = <<>>
    BY <1>3, <2>4, ContentsEmpty DEF SendsOnly, Knows
  <2> QED
    BY <2>1, <2>2, <2>3, <2>4 DEF ServerSide, ServerCases
<1> QED
  BY <1>4, ServerSideBase DEF ServerSide

\* What the processes' own variables are, one step at a time.
LEMMA ClientKeepsBase ==
  ASSUME Base, TypeOK', NEW a \in Clients, ClientSide(a)
  PROVE  Base'
<1> USE DEF Client!threadVars, Client!Goto, Client!SetState, Client!Post
<1>1. /\ Client!TypeOK /\ TypeOK
      /\ c2s \in [Conns -> Queues] /\ s2c \in [Conns -> Queues]
      /\ posted \in [Clients -> Queues]
  BY TypesUsed DEF Base
<1>2. /\ mainAt \in [Clients -> Client!MainSteps]
      /\ appState \in [Clients -> Client!AppStates]
      /\ connDead \in [Clients -> BOOLEAN]
  BY <1>1 DEF Client!TypeOK
<1>3. ASSUME NEW b \in Clients, Unstarted PROVE made[b] # 0 \/ mainAt[b] = "off"
  BY <1>3 DEF Unstarted
<1>4. Unstarted /\ DeadIsCut
  BY DEF Base
<1>5. CASE ClientStarts(a)
  <2>1. /\ mainAt[a] = "off" /\ mainAt' = [mainAt EXCEPT ![a] = "started"]
        /\ posted' = [posted EXCEPT ![a] = @ \o <<Client!Msg("registerApp", 0)>>]
        /\ UNCHANGED <<appState, connDead, c2s, s2c, cut, gone>> /\ Connect(a) /\ ServerIdle
        /\ conn(a) = NoConn
    BY <1>5 DEF ClientStarts, Client!Start
  <2>2. Unstarted'
    BY <1>1, <1>2, <1>4, <2>1, ConnectDoes, ConnFacts DEF Unstarted
  <2>3. ~connDead[a]
    BY <1>4, <2>1, SystemAssumption DEF DeadIsCut, Base, TypeOK
  <2>4. DeadIsCut'
    BY <1>1, <1>4, <2>1, <2>3, ConnectDoes DEF DeadIsCut
  <2> QED
    BY <1>1, <2>1, <2>2, <2>4, ConnectDoes, ClientSideBase
<1>6. CASE ClientReconnects(a)
  <2>1. /\ mainAt[a] = "conn" /\ mainAt'[a] \in {"head", "over"}
        /\ \A b \in Clients : b # a => /\ mainAt'[b] = mainAt[b]
                                       /\ posted'[b] = posted[b]
                                       /\ appState'[b] = appState[b]
                                       /\ connDead'[b] = connDead[b]
        /\ ~connDead'[a]
        /\ UNCHANGED <<c2s, s2c, cut, gone>> /\ Connect(a) /\ ServerIdle
    BY <1>1, <1>2, <1>6 DEF ClientReconnects, Client!Reconnect, Client!NextRound
  <2>2. made'[a] # 0
    BY <1>1, <2>1, ConnectDoes, SystemAssumption DEF TypeOK
  <2>3. Unstarted'
    BY <1>1, <1>4, <2>1, <2>2, ConnectDoes DEF Unstarted
  <2>4. DeadIsCut'
    BY <1>1, <1>4, <2>1, ConnectDoes DEF DeadIsCut
  <2> QED
    BY <1>1, <2>1, <2>3, <2>4, ConnectDoes, ClientSideBase
<1>7. ASSUME UNCHANGED <<made, cut>>, ServerIdle, made[a] # 0,
             \A b \in Clients : b # a => /\ mainAt'[b] = mainAt[b]
                                         /\ posted'[b] = posted[b]
                                         /\ appState'[b] = appState[b]
                                         /\ connDead'[b] = connDead[b],
             connDead'[a] => connDead[a] \/ conn(a) \in cut,
             \A c \in Conns : c2s'[c] = c2s[c] \/ c \in Used,
             \A c \in Conns : \/ s2c'[c] = s2c[c]
                              \/ c \in Used /\ Contents(s2c'[c]) \subseteq Contents(s2c[c])
                                 /\ (s2c[c] = <<>> => s2c'[c] = <<>>)
      PROVE  Base'
  <2>1. Unstarted' /\ DeadIsCut'
    BY <1>4, <1>7 DEF Unstarted, DeadIsCut, conn
  <2>2. Used' = Used
    BY <1>7 DEF Used
  <2> QED
    BY <1>7, <2>1, <2>2, ClientSideBase
<1>8. conn(a) # NoConn => made[a] # 0 /\ conn(a) \in Used /\ conn(a) \in Conns
  BY <1>1, ConnFacts
<1>9. CASE ClientReceives(a)
  <2> DEFINE c == conn(a)
             m == Head(s2c[c])
  <2>1. /\ c # NoConn /\ s2c[c] # <<>> /\ s2c' = [s2c EXCEPT ![c] = Tail(@)]
        /\ Client!handleRequest(a, m) /\ ServerIdle /\ UNCHANGED <<made, c2s, cut, gone>>
    BY <1>9 DEF ClientReceives
  <2>2. Contents(Tail(s2c[c])) \subseteq Contents(s2c[c])
    BY <1>1, <1>8, <2>1, ContentsTail
  <2> HIDE DEF c, m
  <2>3. /\ \A b \in Clients : b # a => /\ mainAt'[b] = mainAt[b]
                                       /\ posted'[b] = posted[b]
                                       /\ appState'[b] = appState[b]
        /\ UNCHANGED connDead
    BY <1>1, <1>2, <2>1 DEF Client!handleRequest, Client!Registered, Client!ServerInfo,
      Client!Pause, Client!Resume, Client!Kill, Client!FrameAck, Client!Answer,
      Client!TakeInput
  <2> USE DEF c
  <2>4. \A d \in Conns : \/ s2c'[d] = s2c[d]
                         \/ d \in Used /\ Contents(s2c'[d]) \subseteq Contents(s2c[d])
                            /\ (s2c[d] = <<>> => s2c'[d] = <<>>)
    BY <1>1, <1>8, <2>1, <2>2
  <2> QED
    BY <1>7, <1>8, <2>1, <2>3, <2>4
<1>10. CASE ClientWrites(a)
  <2>1. /\ posted[a] # <<>> /\ posted' = [posted EXCEPT ![a] = Tail(@)]
        /\ UNCHANGED <<appState, mainAt, connDead, made, s2c, cut, gone>> /\ ServerIdle
        /\ c2s' = c2s \/ \E m : c2s' = [c2s EXCEPT ![conn(a)] = m]
    BY <1>10 DEF ClientWrites, Client!Write
  <2>2. made[a] # 0
    BY <1>4, <2>1 DEF Unstarted
  <2>3. conn(a) \in Used
    BY <1>1, <2>2, ConnFacts
  <2>4. \A c \in Conns : c2s'[c] = c2s[c] \/ c \in Used
    BY <1>1, <2>1, <2>3
  <2> QED
    BY <1>1, <1>7, <2>1, <2>2, <2>4
<1>11. CASE ClientSeesCut(a)
  <2>1. /\ conn(a) \in cut /\ connDead' = [connDead EXCEPT ![a] = TRUE]
        /\ UNCHANGED <<appState, mainAt, posted, made, c2s, cut, gone>> /\ ServerIdle
        /\ s2c' = [s2c EXCEPT ![conn(a)] = <<>>]
    BY <1>11 DEF ClientSeesCut, Client!ConnectionFails
  <2>2. conn(a) # NoConn
    BY <1>1, <2>1, SystemAssumption DEF TypeOK
  <2>3. \A d \in Conns : \/ s2c'[d] = s2c[d]
                         \/ d \in Used /\ Contents(s2c'[d]) \subseteq Contents(s2c[d])
                            /\ (s2c[d] = <<>> => s2c'[d] = <<>>)
    BY <1>1, <1>8, <2>1, <2>2, ContentsEmpty
  <2>4. \A b \in Clients : b # a => connDead'[b] = connDead[b]
    BY <1>2, <2>1
  <2> QED
    BY <1>7, <1>8, <2>1, <2>2, <2>3, <2>4
<1>12. CASE ClientIo(a)
  <2>1. UNCHANGED <<mainAt, posted, appState, connDead, made, c2s, s2c, cut>> /\ ServerIdle
    BY <1>12 DEF ClientIo, ClientWorks, channelVars, Client!JoinMainThread, Client!IoRunReturns
  <2>2. Unstarted' /\ DeadIsCut'
    BY <1>4, <2>1 DEF Unstarted, DeadIsCut, conn
  <2>3. Used' = Used
    BY <2>1 DEF Used
  <2> QED
    BY <2>1, <2>2, <2>3, ClientSideBase
<1>13. CASE ClientWorks(a, MainWorks(a))
  <2>1. /\ mainAt[a] # "off"
        /\ \A b \in Clients : b # a => /\ mainAt'[b] = mainAt[b]
                                       /\ posted'[b] = posted[b]
                                       /\ appState'[b] = appState[b]
        /\ UNCHANGED connDead
    BY <1>1, <1>2, <1>13 DEF ClientWorks, MainWorks, Client!CreateMainThread,
      Client!LoopHead, Client!TakeAck, Client!Draw, Client!LoopThrows,
      Client!TestKilled, Client!CheckAlive, Client!CheckFails, Client!NextRound
  <2>2. UNCHANGED <<made, c2s, s2c, cut>> /\ ServerIdle
    BY <1>13 DEF ClientWorks, channelVars
  <2> QED
    BY <1>3, <1>4, <1>7, <2>1, <2>2
<1> QED
  BY <1>5, <1>6, <1>9, <1>10, <1>11, <1>12, <1>13 DEF ClientSide

LEMMA AccidentKeepsBase ==
  ASSUME Base, TypeOK', Accident
  PROVE  Base'
BY DEF Accident, Base, Unstarted, UnusedEmpty, AnswersOnly, DeadIsCut, Used,
  Knows, conn, serverVars, clientVars

-----------------------------------------------------------------------------
(***************************************************************************)
(* The frames and acknowledgements of a process are in its own hands or on *)
(* the way along its connection.                                           *)
(***************************************************************************)
Held(a) == One(frameAcked[a]) + One(mainAt[a] = "draw") + Frames(posted[a])

Way(c) == Frames(c2s[c]) + Frames(s2c[c]) + One(Rendering(c))

LEMMA OneIsNat ==
  ASSUME NEW p
  PROVE  One(p) \in Nat /\ One(p) <= 1 /\ (p => One(p) = 1) /\ (~p => One(p) = 0)
BY DEF One

CreditsSplit ==
  \A a \in Clients :
    /\ Held(a) \in Nat
    /\ Credits(a) = IF made[a] = 0 THEN One(frameAcked[a]) ELSE Held(a) + Way(conn(a))
    /\ made[a] # 0 => Way(conn(a)) \in Nat

LEMMA CreditsAre == TypeOK => CreditsSplit
<1> SUFFICES ASSUME TypeOK, NEW a \in Clients
             PROVE  /\ Held(a) \in Nat
                    /\ Credits(a) = IF made[a] = 0 THEN One(frameAcked[a])
                                    ELSE Held(a) + Way(conn(a))
                    /\ made[a] # 0 => Way(conn(a)) \in Nat
  BY DEF CreditsSplit
<1> DEFINE c == conn(a)
           f == Frames(posted[a])
           out == Frames(c2s[c])
           in == Frames(s2c[c])
<1>1. f \in Nat
  BY TypesUsed, FramesAreNat
<1>2. CASE made[a] = 0
  <2>1. Credits(a) = One(frameAcked[a])
    BY <1>2, ConnFacts DEF Credits
  <2> QED
    BY <1>1, <1>2, <2>1, OneIsNat DEF Held
<1>3. CASE made[a] # 0
  <2>1. c \in Conns /\ c # NoConn
    BY <1>3, ConnFacts
  <2>2. out \in Nat /\ in \in Nat
    BY <2>1, TypesUsed, FramesAreNat
  <2>3. Credits(a) = One(frameAcked[a]) + One(mainAt[a] = "draw") + f + out + in
                     + One(Rendering(c))
    BY <2>1 DEF Credits, Rendering
  <2> HIDE DEF f, out, in, c
  <2>4. Credits(a) = (One(frameAcked[a]) + One(mainAt[a] = "draw") + f)
                     + (out + in + One(Rendering(c)))
    BY <1>1, <2>2, <2>3, OneIsNat
  <2>5. Held(a) = One(frameAcked[a]) + One(mainAt[a] = "draw") + f
        /\ Way(conn(a)) = out + in + One(Rendering(c))
    BY DEF Held, Way, f, out, in, c
  <2> QED
    BY <1>1, <1>3, <2>2, <2>4, <2>5, OneIsNat
<1> QED
  BY <1>2, <1>3

\* The three ways to lose an acknowledgement, as in CreditLostOnlyByRefusal.
Excused(a) ==
  \/ job[IoThread].step # "refuse" /\ job'[IoThread].step = "refuse"
     /\ job'[IoThread].conn = conn(a)
  \/ mainAt[a] = "draw" /\ mainAt'[a] = "head"
  \/ conn(a) \in cut

Kept(a) ==
  /\ Credits(a)' <= Credits(a)
  /\ Credits(a)' < Credits(a) => Excused(a)

WindowInv == Base /\ WindowOfOne

\* Nothing changes for a process whose variables and connection stay.
LEMMA KeptAlone ==
  ASSUME TypeOK, TypeOK', NEW a \in Clients, made'[a] = made[a],
         Held(a)' <= Held(a) \/ made[a] = 0,
         Held(a)' < Held(a) /\ made[a] # 0 => Excused(a),
         made[a] = 0 => frameAcked'[a] = frameAcked[a],
         made[a] # 0 => Way(conn(a))' = Way(conn(a))
  PROVE  Kept(a)
<1>1. /\ Held(a) \in Nat /\ Held(a)' \in Nat
      /\ Credits(a) = IF made[a] = 0 THEN One(frameAcked[a]) ELSE Held(a) + Way(conn(a))
      /\ Credits(a)' = IF made'[a] = 0 THEN One(frameAcked'[a])
                       ELSE Held(a)' + Way(conn(a))'
      /\ made[a] # 0 => Way(conn(a)) \in Nat
  <2>1. CreditsSplit /\ CreditsSplit'
    BY CreditsAre, PTL
  <2> QED
    BY <2>1 DEF CreditsSplit
<1>2. CASE made[a] = 0
  BY <1>1, <1>2, OneIsNat DEF Kept
<1>3. CASE made[a] # 0
  BY <1>1, <1>3 DEF Kept
<1> QED
  BY <1>2, <1>3

\* The balance of a process on the connection it keeps.
LEMMA KeptUsed ==
  ASSUME TypeOK, TypeOK', NEW a \in Clients, made'[a] = made[a], made[a] # 0,
         Held(a)' + Way(conn(a))' <= Held(a) + Way(conn(a)),
         Held(a)' + Way(conn(a))' < Held(a) + Way(conn(a)) => Excused(a)
  PROVE  Kept(a)
<1>1. CreditsSplit /\ CreditsSplit'
  BY CreditsAre, PTL
<1>2. Credits(a) = Held(a) + Way(conn(a)) /\ Credits(a)' = Held(a)' + Way(conn(a))'
  BY <1>1 DEF CreditsSplit
<1> QED
  BY <1>2 DEF Kept

\* The server writes frames, that is acknowledgements, one step at a time.
LEMMA DeliverFrames ==
  ASSUME TypeOK, TypeOK', Deliver, NEW c \in Conns
  PROVE  /\ c \in cut => Frames(s2c'[c]) = Frames(s2c[c])
         /\ FrameFree(sent'[c]) => Frames(s2c'[c]) = Frames(s2c[c])
         /\ c \notin cut /\ sent'[c] = <<Msg("setScreenFrame", 0)>> =>
              Frames(s2c'[c]) = Frames(s2c[c]) + 1
<1> DEFINE ack == Msg("setScreenFrame", 0)
<1>1. s2c'[c] = IF c \in cut THEN s2c[c] ELSE s2c[c] \o sent'[c]
  BY DEF Deliver
<1>2. s2c[c] \in Queues /\ sent'[c] \in Queues
  <2>1. S!TypeOK'
    BY SameTypes, PTL DEF TypeOK
  <2> QED
    BY <2>1, TypesUsed, SameMessages DEF S!TypeOK, Queues
<1>3. ack \in Message /\ ack.type = "setScreenFrame"
  BY ProtocolAssumption
  DEF Msg, Message, ClientTypes, Ids, Levels, ProtocolAssumption
<1> HIDE DEF ack
<1>4. Frames(s2c[c] \o <<ack>>) = Frames(s2c[c]) + 1
  BY <1>2, <1>3, FramesAppend DEF One
<1>5. FrameFree(sent'[c]) => Frames(s2c[c] \o sent'[c]) = Frames(s2c[c])
  BY <1>2, FramesConcatFree
<1> QED
  BY <1>1, <1>4, <1>5 DEF ack

LEMMA EmptyIsFree == FrameFree(<<>>)
BY ContentsEmpty DEF FrameFree

\* No step of the server makes a credit; it loses one only by a refusal, or
\* with the connection.
LEMMA ServerWay ==
  ASSUME Base, TypeOK', ServerSide, NRenderers = 1, NEW c \in Conns
  PROVE  /\ Way(c)' <= Way(c)
         /\ Way(c)' < Way(c) =>
              \/ /\ job[IoThread].step # "refuse" /\ job'[IoThread].step = "refuse"
                 /\ job'[IoThread].conn = c
              \/ c \in cut
<1> DEFINE out == Frames(c2s[c])
           in == Frames(s2c[c])
           work == One(Rendering(c))
           refused == /\ job[IoThread].step # "refuse" /\ job'[IoThread].step = "refuse"
                      /\ job'[IoThread].conn = c
           Good == out' + in' + work' <= out + in + work
                   /\ (out' + in' + work' < out + in + work => refused \/ c \in cut)
<1> SUFFICES Good
  BY DEF Way
<1>1. /\ TypeOK /\ Deliver /\ c2s \in [Conns -> Queues]
      /\ out \in Nat /\ in \in Nat /\ out' \in Nat /\ in' \in Nat
  <2>1. \A q \in Queues : Frames(q) \in Nat
    BY FramesAreNat
  <2>2. c2s' \in [Conns -> Queues] /\ s2c' \in [Conns -> Queues]
    BY DEF TypeOK, Queues
  <2> QED
    BY <2>1, <2>2, TypesUsed DEF Base, ServerSide
<1>2. work \in Nat /\ work' \in Nat /\ (Rendering(c) => work = 1)
      /\ (~Rendering(c) => work = 0) /\ (Rendering(c)' => work' = 1)
      /\ (~Rendering(c)' => work' = 0)
  BY OneIsNat
<1>3. ASSUME FrameFree(sent'[c]) PROVE in' = in
  BY <1>1, <1>3, DeliverFrames
<1>4. ASSUME out' = out, in' = in, work' = work PROVE Good
  BY <1>1, <1>2, <1>4
<1>11. ASSUME out' + in' + work' <= out + in + work, refused \/ c \in cut PROVE Good
  BY <1>11
<1>5. S!NoJob.step = "idle"
  BY NoJobIsIdle
<1>6. ASSUME NEW d \in Conns, c2s[d] # <<>>, HandlerEffect(d, Head(c2s[d])),
             c2s' = [c2s EXCEPT ![d] = Tail(@)]
      PROVE  Good
  <2> DEFINE m == Head(c2s[d])
  <2>1. in' = in
    <3>1. SendsOnly({"appPause", "appResume", "getServerInfo"})
      BY <1>6 DEF HandlerEffect
    <3>2. FrameFree(sent'[c])
      BY <3>1 DEF SendsOnly, FrameFree
    <3> QED
      BY <1>3, <3>2
  <2>2. job[IoThread].step = "idle"
    BY <1>5, <1>6 DEF HandlerEffect
  <2>3. work = 0
    BY <1>2, <2>2 DEF Rendering
  <2>4. /\ UNCHANGED job \/ job'[IoThread].conn = d
        /\ m.type = "setScreenFrame" <=> job'[IoThread].step \in {"render", "refuse"}
    BY <1>6 DEF HandlerEffect
  <2> HIDE DEF m
  <2>5. CASE d # c
    <3>1. out' = out
      BY <1>1, <1>6, <2>5
    <3>2. ~Rendering(c)'
      BY <2>2, <2>4, <2>5 DEF Rendering
    <3> QED
      BY <1>2, <1>4, <2>1, <2>3, <3>1, <3>2
  <2>6. CASE d = c
    <3>1. c2s'[c] = Tail(c2s[c]) /\ c2s[c] # <<>> /\ m = Head(c2s[c])
      BY <1>1, <1>6, <2>6 DEF m
    <3>2. out = out' + One(m.type = "setScreenFrame")
      BY <1>1, <3>1, FramesTail
    <3>3. CASE m.type # "setScreenFrame"
      <4>1. ~Rendering(c)'
        BY <2>4, <3>3 DEF Rendering
      <4>2. out = out'
        BY <1>1, <3>2, <3>3 DEF One
      <4> QED
        BY <1>2, <1>4, <2>1, <2>3, <4>1, <4>2
    <3>4. CASE m.type = "setScreenFrame"
      <4>1. out = out' + 1
        BY <3>2, <3>4 DEF One
      <4>2. job'[IoThread].step \in {"render", "refuse"} /\ job'[IoThread].conn = c
        BY <2>2, <2>4, <2>6, <3>4
      <4>3. CASE job'[IoThread].step = "render"
        <5>1. Rendering(c)'
          BY <4>2, <4>3 DEF Rendering
        <5>2. work' = 1
          BY <1>2, <5>1
        <5> QED
          BY <1>1, <2>1, <2>3, <4>1, <5>2
      <4>4. CASE job'[IoThread].step = "refuse"
        <5>1. refused
          BY <2>2, <4>2, <4>4
        <5>2. ~Rendering(c)'
          BY <4>4 DEF Rendering
        <5>3. work' = 0
          BY <1>2, <5>2
        <5> HIDE DEF refused
        <5>4. out' + in' + work' <= out + in + work
          BY <1>1, <2>1, <2>3, <4>1, <5>3
        <5> QED
          BY <1>11, <5>1, <5>4
      <4> QED
        BY <4>2, <4>3, <4>4
    <3> QED
      BY <3>3, <3>4
  <2> QED
    BY <2>5, <2>6
<1>7. CASE JobEffect /\ UNCHANGED c2s
  <2>1. job'[IoThread] = S!NoJob
    BY <1>7 DEF JobEffect
  <2>2. work' = 0 /\ out' = out
    <3>1. ~Rendering(c)'
      BY <1>5, <2>1 DEF Rendering
    <3> QED
      BY <1>2, <1>7, <3>1
  <2>3. CASE job[IoThread].step # "render"
    <3>1. FrameFree(sent'[c])
      BY <1>7, <2>3 DEF JobEffect, FrameFree
    <3>2. ~Rendering(c)
      BY <2>3 DEF Rendering
    <3> QED
      BY <1>2, <1>3, <1>4, <2>2, <3>1, <3>2
  <2>4. CASE job[IoThread].step = "render" /\ job[IoThread].conn # c
    <3>1. sent'[c] = <<>>
      BY <1>7, <2>4 DEF JobEffect
    <3>2. ~Rendering(c)
      BY <2>4 DEF Rendering
    <3> QED
      BY <1>2, <1>3, <1>4, <2>2, <3>1, <3>2, EmptyIsFree
  <2>5. CASE Rendering(c)
    <3>1. sent'[c] = <<Msg("setScreenFrame", 0)>>
      BY <1>7, <2>5 DEF JobEffect, Rendering
    <3>2. IF c \in cut THEN in' = in ELSE in' = in + 1
      BY <1>1, <3>1, DeliverFrames
    <3>3. work = 1
      BY <1>2, <2>5
    <3> HIDE DEF refused
    <3>4. CASE c \in cut
      <4>1. out' + in' + work' <= out + in + work
        BY <1>1, <2>2, <3>2, <3>3, <3>4
      <4> QED
        BY <1>11, <3>4, <4>1
    <3>5. CASE c \notin cut
      BY <1>1, <2>2, <3>2, <3>3, <3>5
    <3> QED
      BY <3>4, <3>5
  <2> QED
    BY <2>3, <2>4, <2>5 DEF Rendering
<1>8. CASE OtherEffect /\ \/ UNCHANGED c2s
                          \/ \E d \in cut : c2s' = [c2s EXCEPT ![d] = <<>>]
  <2>1. in' = in
    <3>1. SendsOnly({"appKill", "appResume", "joystickData"})
      BY <1>8 DEF OtherEffect
    <3>2. FrameFree(sent'[c])
      BY <3>1 DEF SendsOnly, FrameFree
    <3> QED
      BY <1>3, <3>2
  <2>2. work' = work
    BY <1>8 DEF OtherEffect, Rendering
  <2>3. out' = out \/ (c \in cut /\ out' = 0)
    BY <1>1, <1>8, FramesEmpty
  <2> HIDE DEF refused
  <2>4. CASE out' = out
    BY <1>4, <2>1, <2>2, <2>4
  <2>5. CASE c \in cut /\ out' = 0
    <3>1. out' + in' + work' <= out + in + work
      BY <1>1, <1>2, <2>1, <2>2, <2>5
    <3> QED
      BY <1>11, <2>5, <3>1
  <2> QED
    BY <2>3, <2>4, <2>5
<1>9. CASE /\ UNCHANGED <<job, apps, app, registered, c2s>>
           /\ \A d \in Conns : sent'[d] = <<>>
  <2>1. in' = in
    BY <1>3, <1>9, EmptyIsFree
  <2>2. out' = out /\ work' = work
    BY <1>9 DEF Rendering
  <2> QED
    BY <1>4, <2>1, <2>2
<1> QED
  BY <1>6, <1>7, <1>8, <1>9 DEF ServerSide, ServerCases

LEMMA ServerKeepsCredits ==
  ASSUME Base, TypeOK', ServerSide, NRenderers = 1, NEW a \in Clients
  PROVE  Kept(a)
<1>1. TypeOK /\ UNCHANGED <<frameAcked, mainAt, posted, made, cut>>
  BY DEF Base, ServerSide, clientVars
<1>2. Held(a)' = Held(a) /\ conn(a)' = conn(a)
  BY <1>1 DEF Held, conn
<1>3. CASE made[a] = 0
  BY <1>1, <1>2, <1>3, KeptAlone, CreditsAre DEF CreditsSplit
<1>4. CASE made[a] # 0
  <2>1. PICK c \in Conns : c = conn(a)
    BY <1>1, <1>4, ConnFacts
  <2>2. Way(conn(a))' = Way(c)' /\ Way(conn(a)) = Way(c)
    BY <1>2, <2>1 DEF Way, Rendering
  <2>3. /\ Way(c)' <= Way(c)
        /\ Way(c)' < Way(c) => Excused(a)
    BY <2>1, ServerWay DEF Excused
  <2>4. Held(a) \in Nat /\ Way(c) \in Nat /\ Way(c)' \in Nat
    <3>1. CreditsSplit /\ CreditsSplit'
      BY <1>1, CreditsAre, PTL
    <3> QED
      BY <1>1, <1>4, <2>1, <2>2, <3>1 DEF CreditsSplit
  <2>5. /\ Held(a)' + Way(conn(a))' <= Held(a) + Way(conn(a))
        /\ Held(a)' + Way(conn(a))' < Held(a) + Way(conn(a)) => Excused(a)
    BY <1>2, <2>2, <2>3, <2>4
  <2> QED
    BY <1>1, <1>4, <2>5, KeptUsed
<1> QED
  BY <1>3, <1>4

\* A step of process a leaves the other processes and connections alone.
LEMMA OthersAlone ==
  ASSUME TypeOK, NEW a \in Clients, ClientSide(a)
  PROVE  /\ ServerIdle
         /\ \A b \in Clients : b # a =>
              /\ frameAcked'[b] = frameAcked[b] /\ mainAt'[b] = mainAt[b]
              /\ posted'[b] = posted[b] /\ appState'[b] = appState[b]
              /\ appId'[b] = appId[b] /\ made'[b] = made[b]
         /\ \A c \in Conns : c # conn(a) => c2s'[c] = c2s[c] /\ s2c'[c] = s2c[c]
<1> USE DEF Client!threadVars, Client!Goto, Client!SetState, Client!Post,
            Client!NextRound, channelVars
<1>1. /\ Client!TypeOK
      /\ c2s \in [Conns -> Queues] /\ s2c \in [Conns -> Queues]
      /\ made \in [Clients -> 0..MaxConns]
  BY TypesUsed DEF TypeOK
<1>2. /\ appState \in [Clients -> Client!AppStates]
      /\ frameAcked \in [Clients -> BOOLEAN]
      /\ mainAt \in [Clients -> Client!MainSteps]
      /\ appId \in [Clients -> Client!Ids]
      /\ posted \in [Clients -> Queues]
  BY <1>1, TypesUsed DEF Client!TypeOK
<1> USE <1>1, <1>2
<1>3. CASE ClientStarts(a)
  BY <1>3 DEF ClientStarts, Client!Start, Connect
<1>4. CASE ClientReconnects(a)
  BY <1>4 DEF ClientReconnects, Client!Reconnect, Connect
<1>5. CASE ClientReceives(a)
  <2> DEFINE m == Head(s2c[conn(a)])
  <2>1. /\ Client!handleRequest(a, m) /\ ServerIdle /\ UNCHANGED <<made, c2s>>
        /\ s2c' = [s2c EXCEPT ![conn(a)] = Tail(@)]
    BY <1>5 DEF ClientReceives
  <2> HIDE DEF m
  <2>2. \A b \in Clients : b # a =>
              /\ frameAcked'[b] = frameAcked[b] /\ mainAt'[b] = mainAt[b]
              /\ posted'[b] = posted[b] /\ appState'[b] = appState[b]
              /\ appId'[b] = appId[b]
    BY <2>1 DEF Client!handleRequest, Client!Registered, Client!ServerInfo,
      Client!Pause, Client!Resume, Client!Kill, Client!FrameAck, Client!Answer,
      Client!TakeInput
  <2> QED
    BY <2>1, <2>2
<1>6. CASE ClientWrites(a)
  BY <1>6 DEF ClientWrites, Client!Write
<1>7. CASE ClientSeesCut(a)
  BY <1>7 DEF ClientSeesCut, Client!ConnectionFails
<1>8. CASE ClientIo(a)
  BY <1>8 DEF ClientIo, ClientWorks, Client!JoinMainThread, Client!IoRunReturns
<1>9. CASE ClientWorks(a, MainWorks(a))
  BY <1>9 DEF ClientWorks, MainWorks, Client!CreateMainThread, Client!LoopHead,
    Client!TakeAck, Client!Draw, Client!LoopThrows, Client!TestKilled,
    Client!CheckAlive, Client!CheckFails
<1> QED
  BY <1>3, <1>4, <1>5, <1>6, <1>7, <1>8, <1>9 DEF ClientSide

LEMMA OthersKept ==
  ASSUME TypeOK, TypeOK', NEW a \in Clients, NEW b \in Clients, b # a, ClientSide(a)
  PROVE  Kept(b)
<1>1. /\ frameAcked'[b] = frameAcked[b] /\ mainAt'[b] = mainAt[b]
      /\ posted'[b] = posted[b] /\ made'[b] = made[b] /\ ServerIdle
      /\ \A c \in Conns : c # conn(a) => c2s'[c] = c2s[c] /\ s2c'[c] = s2c[c]
  BY OthersAlone
<1>2. Held(b)' = Held(b) /\ conn(b)' = conn(b) /\ Held(b) \in Nat
  BY <1>1, CreditsAre DEF Held, conn, CreditsSplit
<1>3. made[b] # 0 => Way(conn(b))' = Way(conn(b))
  <2> SUFFICES ASSUME made[b] # 0 PROVE Way(conn(b))' = Way(conn(b))
    OBVIOUS
  <2>1. conn(b) \in Conns /\ conn(b) # conn(a)
    BY ConnFacts
  <2>2. c2s'[conn(b)] = c2s[conn(b)] /\ s2c'[conn(b)] = s2c[conn(b)]
    BY <1>1, <2>1
  <2>3. job' = job
    BY <1>1 DEF ServerIdle, serverVars
  <2> QED
    BY <1>2, <2>2, <2>3 DEF Way, Rendering
<1> QED
  BY <1>1, <1>2, <1>3, KeptAlone

\* On a connection just made there is nothing under way.
LEMMA NewWayIsEmpty ==
  ASSUME Base, TypeOK', NEW a \in Clients, Connect(a), ServerIdle, UNCHANGED <<c2s, s2c>>
  PROVE  Way(conn(a))' = 0
<1>1. PICK c \in Conns : c = conn(a)' /\ c \notin Used
  BY ConnectDoes DEF Base
<1>2. c2s[c] = <<>> /\ s2c[c] = <<>> /\ ~Rendering(c)
  BY <1>1 DEF Base, UnusedEmpty, Knows, Rendering
<1>3. ~Rendering(c)'
  BY <1>2 DEF Rendering, ServerIdle, serverVars
<1>4. Way(c)' = 0
  BY <1>2, <1>3, FramesEmpty, OneIsNat DEF Way
<1> QED
  BY <1>1, <1>4 DEF Way, Rendering

\* Posting what is no frame holds no frame more.
LEMMA PostingFree ==
  ASSUME NEW q \in Queues, NEW m1 \in Message, NEW m2 \in Message,
         m1.type # "setScreenFrame", m2.type # "setScreenFrame"
  PROVE  /\ q \o <<m1>> \in Queues /\ Frames(q \o <<m1>>) = Frames(q)
         /\ q \o <<m1, m2>> \in Queues /\ Frames(q \o <<m1, m2>>) = Frames(q)
<1>1. /\ Append(q, m1) \in Queues /\ q \o <<m1>> = Append(q, m1)
      /\ Frames(Append(q, m1)) = Frames(q)
  <2>1. Frames(q) \in Nat
    BY FramesAreNat
  <2> QED
    BY <2>1, FramesAppend DEF One
<1>2. <<m1, m2>> \in Queues /\ FrameFree(<<m1, m2>>)
  BY DEF Queues, FrameFree, Contents
<1> QED
  BY <1>1, <1>2, FramesConcatFree, ContentsConcat

\* What the io thread's handlers do to the acknowledgement and to the queue.
ReceiveEffect(a, m) ==
  /\ UNCHANGED mainAt
  /\ frameAcked'[a] = (frameAcked[a] \/ m.type \in {"setScreenFrame", "requestScreenAccess"})
  /\ Frames(posted'[a]) = Frames(posted[a])

LEMMA ReceiveDoes ==
  ASSUME TypeOK, NEW a \in Clients, NEW m \in Message, Client!handleRequest(a, m)
  PROVE  ReceiveEffect(a, m)
<1> USE DEF Client!threadVars, Client!Post
<1>1. posted \in [Clients -> Queues] /\ posted[a] \in Queues
      /\ frameAcked \in [Clients -> BOOLEAN] /\ appId[a] \in Ids
  <2>1. A!TypeOK
    BY TypesUsed, SameTypes
  <2> QED
    BY <2>1, TypesUsed DEF A!TypeOK, A!Ids, Ids
<1>2. ASSUME NEW type \in ClientTypes, NEW id \in Ids
      PROVE  Client!Msg(type, id) \in Message /\ Client!Msg(type, id).type = type
  BY ProtocolAssumption DEF Client!Msg, Message, Levels, ProtocolAssumption
<1>3. ASSUME NEW type \in ClientTypes, type # "setScreenFrame", NEW id \in Ids,
             Client!Post(a, <<Client!Msg(type, id)>>)
      PROVE  Frames(posted'[a]) = Frames(posted[a])
  <2> DEFINE x == Client!Msg(type, id)
  <2>1. posted'[a] = posted[a] \o <<x>>
    BY <1>1, <1>3
  <2>2. x \in Message /\ x.type # "setScreenFrame"
    BY <1>2, <1>3
  <2> HIDE DEF x
  <2> QED
    BY <1>1, <2>1, <2>2, PostingFree
<1>4. CASE Client!Registered(a, m)
  <2> DEFINE x == Client!Msg("appParamSchema", m.id)
             y == Client!Msg("getServerInfo", m.id)
  <2>1. posted'[a] = posted[a] \o <<x, y>>
    BY <1>1, <1>4 DEF Client!Registered
  <2>2. m.id \in Ids
    BY DEF Message
  <2>3. /\ x \in Message /\ x.type # "setScreenFrame"
        /\ y \in Message /\ y.type # "setScreenFrame"
    BY <1>2, <2>2 DEF ClientTypes
  <2> HIDE DEF x, y
  <2>4. Frames(posted'[a]) = Frames(posted[a])
    <3>1. posted[a] \in Queues
      BY <1>1
    <3>2. Frames(posted[a] \o <<x, y>>) = Frames(posted[a])
      BY <2>3, <3>1, PostingFree, Zenon
    <3> QED
      BY <2>1, <3>2, Zenon
  <2> QED
    BY <1>1, <1>4, <2>4 DEF Client!Registered, ReceiveEffect
<1>5. CASE Client!ServerInfo(a, m) \/ Client!FrameAck(a, m) \/ Client!TakeInput(a, m)
  <2>1. UNCHANGED <<mainAt, posted>>
    BY <1>5 DEF Client!ServerInfo, Client!FrameAck, Client!TakeInput
  <2>2. frameAcked'[a] = (frameAcked[a] \/ m.type \in {"setScreenFrame", "requestScreenAccess"})
    BY <1>1, <1>5 DEF Client!ServerInfo, Client!FrameAck, Client!TakeInput
  <2> QED
    BY <2>1, <2>2 DEF ReceiveEffect
<1>6. CASE \/ Client!Pause(a, m) \/ Client!Resume(a, m) \/ Client!Kill(a, m)
           \/ Client!Answer(a, m)
  <2>1. UNCHANGED <<mainAt, frameAcked>>
        /\ m.type \in {"appPause", "appResume", "appKill", "appAlive", "getAppParams"}
    BY <1>6 DEF Client!Pause, Client!Resume, Client!Kill, Client!Answer
  <2>2. \E type \in {"appPause", "appResume", "appKill", "appAlive", "appParamValues"} :
          Client!Post(a, <<Client!Msg(type, appId[a])>>)
    BY <1>6 DEF Client!Pause, Client!Resume, Client!Kill, Client!Answer
  <2>3. Frames(posted'[a]) = Frames(posted[a])
    BY <1>1, <1>3, <2>2 DEF ClientTypes
  <2> QED
    BY <1>1, <2>1, <2>3 DEF ReceiveEffect
<1> QED
  BY <1>4, <1>5, <1>6 DEF Client!handleRequest

\* Numbers of frames and acknowledgements of a process, before and after.
LEMMA OwnKept ==
  ASSUME WindowInv, TypeOK', NEW a \in Clients, ClientSide(a)
  PROVE  Kept(a)
<1> USE DEF Client!Goto
<1> DEFINE c == conn(a)
           k == One(frameAcked[a])
           d == One(mainAt[a] = "draw")
           p == Frames(posted[a])
           out == Frames(c2s[c])
           in == Frames(s2c[c])
           work == One(Rendering(c))
<1>1. TypeOK /\ Base /\ Unstarted /\ Client!TypeOK
      /\ posted \in [Clients -> Queues] /\ posted' \in [Clients -> Queues]
      /\ mainAt \in [Clients -> Client!MainSteps] /\ frameAcked \in [Clients -> BOOLEAN]
      /\ ServerIdle /\ job' = job
  <2>1. Client!TypeOK
    BY TypesUsed DEF WindowInv, Base
  <2>2. A!TypeOK'
    BY SameTypes, PTL DEF TypeOK
  <2>3. posted' \in [Clients -> Queues]
    BY <2>2, SameMessages DEF A!TypeOK, Queues
  <2>4. ServerIdle
    BY OthersAlone DEF WindowInv, Base
  <2> QED
    BY <2>1, <2>3, <2>4, TypesUsed
    DEF WindowInv, Base, Client!TypeOK, ServerIdle, serverVars
<1>2. /\ p \in Nat /\ p' \in Nat
      /\ k \in Nat /\ k' \in Nat /\ d \in Nat /\ d' \in Nat
      /\ (frameAcked[a] => k = 1) /\ (~frameAcked[a] => k = 0)
      /\ (mainAt[a] = "draw" => d = 1) /\ (mainAt[a] # "draw" => d = 0)
      /\ (frameAcked'[a] => k' = 1) /\ (~frameAcked'[a] => k' = 0)
      /\ (mainAt'[a] = "draw" => d' = 1) /\ (mainAt'[a] # "draw" => d' = 0)
  BY <1>1, FramesAreNat, OneIsNat
<1>3. Held(a) = k + d + p /\ Held(a)' = k' + d' + p'
  BY DEF Held
<1>4. CASE ClientStarts(a)
  <2>1. /\ c = NoConn /\ Connect(a) /\ ServerIdle /\ UNCHANGED <<c2s, s2c>>
        /\ frameAcked' = frameAcked /\ mainAt' = [mainAt EXCEPT ![a] = "started"]
        /\ posted' = [posted EXCEPT ![a] = @ \o <<Client!Msg("registerApp", 0)>>]
    BY <1>4 DEF ClientStarts, Client!Start, Client!Post
  <2>2. made[a] = 0 /\ made'[a] # 0
    BY <1>1, <2>1, ConnFacts, ConnectDoes
  <2>3. Way(c)' = 0
    BY <1>1, <2>1, NewWayIsEmpty
  <2>4. posted[a] = <<>>
    BY <1>1, <2>2 DEF Unstarted
  <2>5. p' = 0
    <3>1. posted'[a] = <<Client!Msg("registerApp", 0)>>
      BY <1>1, <2>1, <2>4
    <3>2. Client!Msg("registerApp", 0).type # "setScreenFrame"
      BY DEF Client!Msg
    <3> QED
      BY <3>1, <3>2, FramesOfFree, ContentsOne DEF FrameFree
  <2>6. k' = k /\ d' = 0
    <3>1. mainAt'[a] = "started"
      BY <1>1, <2>1
    <3> QED
      BY <1>2, <2>1, <3>1
  <2>7. Credits(a) = k /\ Credits(a)' = Held(a)' + Way(c)'
    <3>1. CreditsSplit /\ CreditsSplit'
      BY <1>1, CreditsAre, PTL
    <3> QED
      BY <2>2, <3>1 DEF CreditsSplit
  <2>8. Credits(a)' = Credits(a)
    BY <1>2, <1>3, <2>3, <2>5, <2>6, <2>7
  <2> QED
    BY <1>2, <2>7, <2>8 DEF Kept
<1>5. CASE ClientReconnects(a)
  <2>1. /\ Connect(a) /\ ServerIdle /\ UNCHANGED <<c2s, s2c>> /\ frameAcked' = frameAcked
        /\ connDead[a] /\ mainAt[a] = "conn" /\ mainAt'[a] \in {"head", "over"}
        /\ posted' = [posted EXCEPT ![a] = <<Client!Msg("registerApp", 0)>>]
    BY <1>1, <1>5 DEF ClientReconnects, Client!Reconnect, Client!NextRound
  <2>2. made[a] # 0 /\ made'[a] # 0
    BY <1>1, <2>1, ConnectDoes DEF Unstarted, TypeOK
  <2>3. Way(c)' = 0
    BY <1>1, <2>1, NewWayIsEmpty
  <2>4. p' = 0
    <3>1. posted'[a] = <<Client!Msg("registerApp", 0)>>
      BY <1>1, <2>1
    <3>2. Client!Msg("registerApp", 0).type # "setScreenFrame"
      BY DEF Client!Msg
    <3> QED
      BY <3>1, <3>2, FramesOfFree, ContentsOne DEF FrameFree
  <2>5. k' = k /\ d' = 0
    BY <1>2, <2>1
  <2>6. Credits(a) = Held(a) + Way(c) /\ Credits(a)' = Held(a)' + Way(c)' /\ Way(c) \in Nat
    <3>1. CreditsSplit /\ CreditsSplit'
      BY <1>1, CreditsAre, PTL
    <3> QED
      BY <2>2, <3>1 DEF CreditsSplit
  <2>7. Credits(a)' <= Credits(a)
    BY <1>2, <1>3, <2>3, <2>4, <2>5, <2>6
  <2>8. Excused(a)
    BY <1>1, <2>1 DEF Base, DeadIsCut, Excused
  <2> QED
    BY <2>7, <2>8 DEF Kept
\* From here on the connection stays.
<1>6. ASSUME made'[a] = made[a], made[a] # 0,
             k' + d' + p' + out' + in' <= k + d + p + out + in,
             k' + d' + p' + out' + in' < k + d + p + out + in => Excused(a)
      PROVE  Kept(a)
  <2>1. c' = c /\ c \in Conns
    BY <1>1, <1>6, ConnFacts DEF conn
  <2>2. work' = work /\ work \in Nat
    BY <1>1, <2>1, OneIsNat DEF Rendering
  <2>3. out \in Nat /\ in \in Nat /\ out' \in Nat /\ in' \in Nat
    <3>1. c2s' \in [Conns -> Queues] /\ s2c' \in [Conns -> Queues]
      BY DEF TypeOK, Queues
    <3> QED
      BY <1>1, <2>1, <3>1, TypesUsed, FramesAreNat
  <2>4. Way(c) = out + in + work /\ Way(c)' = out' + in' + work'
    BY DEF Way
  <2>5. /\ Held(a)' + Way(c)' <= Held(a) + Way(c)
        /\ Held(a)' + Way(c)' < Held(a) + Way(c) =>
             k' + d' + p' + out' + in' < k + d + p + out + in
    BY <1>2, <1>3, <1>6, <2>2, <2>3, <2>4
  <2> HIDE DEF c
  <2> QED
    BY <1>1, <1>6, <2>5, KeptUsed DEF c
<1>7. ASSUME made[a] # 0
      PROVE  /\ c \in Conns /\ c2s[c] \in Queues /\ s2c[c] \in Queues
             /\ out \in Nat /\ in \in Nat
  BY <1>1, <1>7, ConnFacts, TypesUsed, FramesAreNat
<1>8. UNCHANGED made => c' = c
  BY DEF conn
<1>9. CASE ClientReceives(a)
  <2> DEFINE m == Head(s2c[c])
  <2>1. /\ c # NoConn /\ s2c[c] # <<>> /\ Client!handleRequest(a, m)
        /\ s2c' = [s2c EXCEPT ![c] = Tail(@)] /\ UNCHANGED <<made, c2s>>
    BY <1>9 DEF ClientReceives
  <2>2. made[a] # 0 /\ c \in Conns /\ c' = c
    BY <1>1, <1>8, <2>1, ConnFacts
  <2>3. m \in Message /\ m \in Contents(s2c[c])
    BY <1>7, <2>1, <2>2, ContentsTail
  <2>4. ReceiveEffect(a, m)
    BY <1>1, <2>1, <2>3, ReceiveDoes
  <2>5. out' = out /\ d' = d /\ p' = p
    BY <2>1, <2>2, <2>4 DEF ReceiveEffect
  <2>6. in = in' + One(m.type = "setScreenFrame")
    <3>1. s2c'[c] = Tail(s2c[c])
      BY <1>1, <2>1, <2>2, TypesUsed
    <3> QED
      BY <1>7, <2>1, <2>2, <3>1, FramesTail
  <2>7. m.type # "requestScreenAccess"
    BY <1>1, <2>2, <2>3 DEF Base, AnswersOnly, ServerTypes
  <2>8. in' \in Nat
    <3>1. s2c'[c] \in Queues
      BY <2>2 DEF TypeOK, Queues
    <3> QED
      BY <2>2, <3>1, FramesAreNat
  <2>9. CASE m.type # "setScreenFrame"
    <3>1. frameAcked'[a] = frameAcked[a]
      BY <1>1, <2>4, <2>7, <2>9 DEF ReceiveEffect
    <3>2. in = in'
      BY <2>6, <2>8, <2>9 DEF One
    <3> QED
      BY <1>2, <1>6, <1>7, <2>1, <2>2, <2>5, <3>1, <3>2
  <2>10. CASE m.type = "setScreenFrame"
    <3>1. frameAcked'[a] /\ k' = 1
      BY <1>2, <2>4, <2>10 DEF ReceiveEffect
    <3>2. in = in' + 1
      BY <2>6, <2>10 DEF One
    <3>3. k = 0
      <4>1. Credits(a) = Held(a) + Way(c) /\ Credits(a) <= 1
        <5>1. CreditsSplit
          BY <1>1, CreditsAre
        <5> QED
          BY <2>2, <5>1 DEF CreditsSplit, WindowInv, WindowOfOne
      <4>2. Way(c) = out + in + work /\ work \in Nat
        BY OneIsNat DEF Way
      <4> QED
        BY <1>2, <1>3, <1>7, <2>2, <2>8, <3>2, <4>1, <4>2
    <3>4. k' + d' + p' + out' + in' = k + d + p + out + in
      <4>1. d \in Nat /\ p \in Nat /\ out \in Nat
        BY <1>2, <1>7, <2>2
      <4>2. k' = 1
        BY <3>1
      <4> HIDE DEF k, d, p, out, in
      <4> QED
        BY <2>5, <2>8, <3>2, <3>3, <4>1, <4>2
    <3> QED
      BY <1>2, <1>6, <1>7, <2>1, <2>2, <3>4
  <2> QED
    BY <2>9, <2>10
<1>10. CASE ClientWrites(a)
  <2> DEFINE m == Head(posted[a])
             f == One(m.type = "setScreenFrame")
  <2>1. /\ posted[a] # <<>> /\ posted' = [posted EXCEPT ![a] = Tail(@)]
        /\ UNCHANGED <<frameAcked, mainAt, made, s2c>>
        /\ c2s' = IF c \in cut THEN c2s ELSE [c2s EXCEPT ![c] = Append(@, m)]
    BY <1>10 DEF ClientWrites, Client!Write, Client!threadVars
  <2>2. made[a] # 0 /\ c' = c /\ c \in Conns
    BY <1>1, <1>7, <1>8, <2>1 DEF Unstarted
  <2>3. p = p' + f /\ m \in Message
    BY <1>1, <2>1, FramesTail, ContentsTail
  <2>4. k' = k /\ d' = d /\ in' = in
    BY <2>1, <2>2
  <2>5. f \in Nat
    BY OneIsNat
  <2>6. CASE c \in cut
    <3>1. out' = out
      BY <2>1, <2>2, <2>6
    <3>2. Excused(a)
      BY <2>6 DEF Excused
    <3> HIDE DEF f
    <3>3. k' + d' + p' + out' + in' <= k + d + p + out + in
      BY <1>2, <1>7, <2>2, <2>3, <2>4, <2>5, <3>1
    <3> QED
      BY <1>6, <2>1, <2>2, <3>2, <3>3
  <2>7. CASE c \notin cut
    <3>1. c2s'[c] = Append(c2s[c], m)
      BY <2>1, <2>2, <2>7, TypesUsed, <1>1
    <3> HIDE DEF m
    <3>2. out' = out + f
      BY <1>7, <2>2, <2>3, <3>1, FramesAppend
    <3> HIDE DEF f
    <3>3. k' + d' + p' + out' + in' = k + d + p + out + in
      BY <1>2, <1>7, <2>2, <2>3, <2>4, <2>5, <3>2
    <3> QED
      BY <1>2, <1>6, <1>7, <2>1, <2>2, <3>3
  <2> QED
    BY <2>6, <2>7
<1>11. CASE ClientSeesCut(a)
  <2>1. /\ c \in cut /\ UNCHANGED <<frameAcked, mainAt, posted, made, c2s>>
        /\ s2c' = [s2c EXCEPT ![c] = <<>>]
    BY <1>11 DEF ClientSeesCut, Client!ConnectionFails, Client!threadVars
  <2>2. made[a] # 0 /\ c' = c /\ c \in Conns
    <3>1. c \in Conns /\ c # NoConn
      BY <1>1, <2>1, SystemAssumption DEF TypeOK
    <3> QED
      BY <1>1, <1>8, <2>1, <3>1, ConnFacts
  <2>3. k' = k /\ d' = d /\ p' = p /\ out' = out /\ in' = 0
    BY <1>1, <2>1, <2>2, TypesUsed, FramesEmpty
  <2>4. Excused(a)
    BY <2>1 DEF Excused
  <2>5. k' + d' + p' + out' + in' <= k + d + p + out + in
    BY <1>2, <1>7, <2>2, <2>3
  <2> QED
    BY <1>6, <2>1, <2>2, <2>4, <2>5
<1>12. CASE ClientIo(a)
  <2>1. UNCHANGED <<frameAcked, mainAt, posted, made, c2s, s2c>>
    BY <1>12 DEF ClientIo, ClientWorks, channelVars, Client!JoinMainThread, Client!IoRunReturns
  <2>2. Held(a)' = Held(a) /\ Way(c)' = Way(c)
    BY <1>1, <1>8, <2>1 DEF Held, Way, Rendering
  <2> HIDE DEF c
  <2>3. Held(a) \in Nat
    BY <1>1, CreditsAre DEF CreditsSplit
  <2> QED
    BY <1>1, <2>1, <2>2, <2>3, KeptAlone DEF c
<1>13. CASE ClientWorks(a, MainWorks(a))
  <2>1. UNCHANGED <<made, c2s, s2c, cut>> /\ c' = c /\ MainWorks(a)
    BY <1>8, <1>13 DEF ClientWorks, channelVars
  <2>2. mainAt[a] # "off"
    BY <2>1 DEF MainWorks, Client!CreateMainThread, Client!LoopHead, Client!TakeAck,
      Client!Draw, Client!LoopThrows, Client!TestKilled, Client!CheckAlive, Client!CheckFails
  <2>3. made[a] # 0 /\ out' = out /\ in' = in
    BY <1>1, <2>1, <2>2 DEF Unstarted
  <2>4. CASE Client!TakeAck(a)
    <3>1. k = 1 /\ k' = 0 /\ d = 0 /\ d' = 1 /\ p' = p
      <4>1. /\ frameAcked[a] /\ ~frameAcked'[a] /\ mainAt[a] = "wait" /\ mainAt'[a] = "draw"
            /\ posted' = posted
        BY <1>1, <2>4 DEF Client!TakeAck
      <4> QED
        BY <1>2, <4>1
    <3> QED
      BY <1>2, <1>6, <1>7, <2>1, <2>3, <3>1
  <2>5. CASE Client!Draw(a)
    <3>1. PICK level \in Levels :
            Client!Post(a, <<[Client!Msg("setScreenFrame", appId[a]) EXCEPT !.level = level]>>)
      BY <2>5 DEF Client!Draw, Client!Levels, Levels
    <3> DEFINE m == [Client!Msg("setScreenFrame", appId[a]) EXCEPT !.level = level]
    <3>2. m \in Message /\ m.type = "setScreenFrame"
      <4>1. appId[a] \in Ids
        BY <1>1, SameTypes DEF A!TypeOK, A!Ids, Ids
      <4> QED
        BY <4>1 DEF Client!Msg, Message, ClientTypes
    <3>3. posted'[a] = posted[a] \o <<m>>
      BY <1>1, <3>1 DEF Client!Post
    <3> HIDE DEF m
    <3>4. p' = p + 1
      <4>1. posted[a] \in Queues
        BY <1>1
      <4>2. Frames(posted[a] \o <<m>>) = Frames(posted[a]) + 1
        BY <3>2, <4>1, FramesAppend DEF One
      <4> QED
        BY <3>3, <4>2
    <3>5. d = 1 /\ d' = 0 /\ k' = k
      <4>1. mainAt[a] = "draw" /\ mainAt'[a] = "check" /\ frameAcked' = frameAcked
        BY <1>1, <2>5 DEF Client!Draw
      <4> QED
        BY <1>2, <4>1
    <3> QED
      BY <1>2, <1>6, <1>7, <2>1, <2>3, <3>4, <3>5
  <2>6. CASE Client!LoopThrows(a)
    <3>1. /\ mainAt[a] = "draw" /\ mainAt'[a] = "head"
          /\ UNCHANGED <<frameAcked, posted>>
      BY <1>1, <2>6 DEF Client!LoopThrows
    <3>2. Excused(a)
      BY <3>1 DEF Excused
    <3>3. d = 1 /\ d' = 0 /\ k' = k /\ p' = p
      BY <1>2, <3>1
    <3>4. k' + d' + p' + out' + in' <= k + d + p + out + in
      BY <1>2, <1>7, <2>3, <3>3
    <3> QED
      BY <1>6, <2>1, <2>3, <3>2, <3>4
  <2>7. CASE \/ Client!CreateMainThread(a) \/ Client!LoopHead(a) \/ Client!TestKilled(a)
             \/ Client!CheckAlive(a) \/ Client!CheckFails(a)
    <3>1. mainAt[a] # "draw" /\ mainAt'[a] # "draw" /\ UNCHANGED <<frameAcked, posted>>
      BY <1>1, <2>7 DEF Client!CreateMainThread, Client!LoopHead, Client!TestKilled,
        Client!CheckAlive, Client!CheckFails, Client!NextRound
    <3>2. d = 0 /\ d' = 0 /\ k' = k /\ p' = p
      BY <1>2, <3>1
    <3> QED
      BY <1>2, <1>6, <1>7, <2>1, <2>3, <3>2
  <2> QED
    BY <2>1, <2>4, <2>5, <2>6, <2>7 DEF MainWorks
<1> QED
  BY <1>4, <1>5, <1>9, <1>10, <1>11, <1>12, <1>13 DEF ClientSide

LEMMA AccidentKeepsCredits ==
  ASSUME TypeOK, TypeOK', Accident, NEW a \in Clients
  PROVE  Kept(a)
<1>1. UNCHANGED <<frameAcked, mainAt, posted, made, c2s, s2c, job>>
  BY DEF Accident, serverVars, clientVars
<1>2. Held(a)' = Held(a) /\ Way(conn(a))' = Way(conn(a)) /\ Held(a) \in Nat
  BY <1>1, CreditsAre DEF Held, Way, conn, Rendering, CreditsSplit
<1> QED
  BY <1>1, <1>2, KeptAlone

LEMMA StepKeepsCredits ==
  ASSUME NRenderers = 1, WindowInv, TypeOK', SystemSteps
  PROVE  Base' /\ \A a \in Clients : Kept(a)
<1>1. TypeOK /\ Base
  BY DEF WindowInv, Base
<1>2. CASE ServerSide
  BY <1>1, <1>2, ServerKeepsBase, ServerKeepsCredits
<1>3. ASSUME NEW a \in Clients, ClientSide(a)
      PROVE  Base' /\ \A b \in Clients : Kept(b)
  BY <1>1, <1>3, ClientKeepsBase, OthersKept, OwnKept
<1>4. CASE Accident
  BY <1>1, <1>4, AccidentKeepsBase, AccidentKeepsCredits
<1> QED
  BY <1>1, <1>2, <1>3, <1>4, Sides

LEMMA StutterKeepsCredits ==
  ASSUME WindowInv, UNCHANGED vars
  PROVE  WindowInv' /\ \A a \in Clients : Kept(a)
<1>1. Accident
  BY DEF Accident, vars, channelVars
<1>2. TypeOK /\ TypeOK'
  BY NextTypes DEF WindowInv, Base
<1>3. Base' /\ \A a \in Clients : Kept(a)
  BY <1>1, <1>2, AccidentKeepsBase, AccidentKeepsCredits DEF WindowInv
<1>4. \A a \in Clients : Credits(a)' = Credits(a)
  BY DEF vars, serverVars, clientVars, channelVars, Credits, conn
<1>5. WindowOfOne'
  BY <1>4 DEF WindowInv, WindowOfOne
<1> QED
  BY <1>3, <1>5 DEF WindowInv

LEMMA WindowInit == Init => WindowInv
<1> SUFFICES ASSUME Init PROVE WindowInv
  OBVIOUS
<1>1. Base
  BY BaseInit
<1>2. ASSUME NEW a \in Clients PROVE Credits(a) <= 1
  <2>1. CreditsSplit
    BY <1>1, CreditsAre DEF Base
  <2>2. made[a] = 0
    BY DEF Init
  <2>3. Credits(a) = One(frameAcked[a])
    BY <2>1, <2>2 DEF CreditsSplit
  <2> QED
    BY <2>3, OneIsNat
<1> QED
  BY <1>1, <1>2 DEF WindowInv, WindowOfOne

LEMMA WindowNext ==
  ASSUME NRenderers = 1, WindowInv, [Next]_vars
  PROVE  WindowInv' /\ \A a \in Clients : Kept(a)
<1>1. CASE UNCHANGED vars
  BY <1>1, StutterKeepsCredits
<1>2. CASE Next
  <2>1. TypeOK' /\ TypeOK
    BY NextTypes DEF WindowInv, Base
  <2>2. Base' /\ \A a \in Clients : Kept(a)
    BY <1>2, <2>1, StepsOfNext, StepKeepsCredits
  <2>3. ASSUME NEW a \in Clients PROVE Credits(a)' <= 1
    <3>1. Credits(a)' <= Credits(a) /\ Credits(a) <= 1
      BY <2>2 DEF Kept, WindowInv, WindowOfOne
    <3>2. Credits(a) \in Int /\ Credits(a)' \in Int
      <4>1. CreditsSplit /\ CreditsSplit'
        BY <2>1, CreditsAre, PTL
      <4> QED
        BY <4>1, OneIsNat DEF CreditsSplit
    <3> QED
      BY <3>1, <3>2
  <2>4. WindowOfOne'
    BY <2>3 DEF WindowOfOne
  <2> QED
    BY <2>2, <2>4 DEF WindowInv
<1> QED
  BY <1>1, <1>2

\* Flow control, for any number of processes, reconnects and messages under
\* way: with one renderer, as the simulator is started, a process never has
\* two frames or acknowledgements between its main thread, its queue, its
\* connection and the server (MatrixApplication.cpp:134-136, 240-247,
\* Server.cpp:221-225).
THEOREM WindowStaysOne ==
  ASSUME NRenderers = 1
  PROVE  Spec => []WindowOfOne
<1>1. WindowInv /\ [Next]_vars => WindowInv'
  BY WindowNext
<1>2. WindowInv => WindowOfOne
  BY DEF WindowInv
<1> QED
  BY WindowInit, <1>1, <1>2, PTL DEF Spec

\* And none is lost but by a refusal, by an exception of loop() or with the
\* connection: an acknowledgement that goes missing otherwise would leave the
\* application waiting forever (MatrixApplication.cpp:134-136).
THEOREM NoCreditIsLost ==
  ASSUME NRenderers = 1
  PROVE  Spec => CreditLostOnlyByRefusal
<1>1. WindowInv /\ [Next]_vars => WindowInv'
  BY WindowNext
<1>2. WindowInv /\ [Next]_vars =>
        [\A a \in Clients : Credits(a)' < Credits(a) =>
           \/ job[IoThread].step # "refuse" /\ job'[IoThread].step = "refuse"
              /\ job'[IoThread].conn = conn(a)
           \/ mainAt[a] = "draw" /\ mainAt'[a] = "head"
           \/ conn(a) \in cut]_vars
  BY WindowNext DEF Kept, Excused
<1> QED
  BY WindowInit, <1>1, <1>2, PTL DEF Spec, CreditLostOnlyByRefusal

-----------------------------------------------------------------------------
(***************************************************************************)
(* Whose frames are whose.  An id belongs to connection c when it was      *)
(* given out and, if its app is still there, to c: later registrations get *)
(* later ids, so this is never undone.  A process that may draw, or has    *)
(* asked for the screens, has an id of its connection.                     *)
(***************************************************************************)
Mine(i, c) == i <= registered /\ (i \in apps => app[i].conn = c)

OwnId == \A r \in apps : r <= registered /\ app[r].id = r

ReplyIsOwn ==
  job[IoThread].step = "reply" => Mine(job[IoThread].id, job[IoThread].conn)

UnderWay(a, c) == Contents(posted[a]) \cup Contents(c2s[c])

Active(a, c) ==
  \/ appState[a] \in {"running", "paused"}
  \/ mainAt[a] \in {"wait", "draw"}
  \/ \E m \in UnderWay(a, c) \cup Contents(s2c[c]) : m.type = "getServerInfo"

OwnOn(a, c) ==
  /\ \A m \in UnderWay(a, c) : m.type = "setScreenFrame" => Mine(m.id, c)
  /\ \A m \in Contents(s2c[c]) : m.type = "registerApp" => Mine(m.id, c)
  /\ Active(a, c) => Mine(appId[a], c)

AllOwn == \A a \in Clients : made[a] # 0 => OwnOn(a, conn(a))

OwnInv == Base /\ OwnId /\ ReplyIsOwn /\ AllOwn

LEMMA OwnInit == Init => OwnInv
<1> SUFFICES ASSUME Init PROVE OwnInv
  OBVIOUS
<1>1. OwnId /\ AllOwn
  BY DEF Init, Server!Init, OwnId, AllOwn
<1>2. ReplyIsOwn
  <2>1. job[IoThread] = Server!NoJob
    BY DEF Init, Server!Init, Server!Threads
  <2> QED
    BY <2>1 DEF Server!NoJob, ReplyIsOwn
<1> QED
  BY <1>1, <1>2, BaseInit DEF OwnInv

LEMMA QueuesHold ==
  ASSUME NEW q \in Queues
  PROVE  Contents(q) \subseteq Message
BY ElementOfSeq DEF Contents, Queues

\* The ids messages carry are numbers.
LEMMA MineStays ==
  ASSUME TypeOK, NEW d, StackKept(d), NEW i \in Nat, NEW c, Mine(i, c)
  PROVE  Mine(i, c)'
<1>1. registered \in Nat /\ registered' \in {registered, registered + 1}
  BY TypesUsed, ProtocolAssumption DEF S!TypeOK, StackKept, ProtocolAssumption
<1>2. i <= registered /\ i <= registered'
  BY <1>1 DEF Mine
<1>3. i # registered + 1
  BY <1>1, <1>2
<1>4. ASSUME i \in apps' PROVE app'[i].conn = c
  BY <1>3, <1>4 DEF StackKept, Mine
<1> QED
  BY <1>2, <1>4 DEF Mine

\* Every step of the server keeps the stack but for one registration.
LEMMA ServerStack ==
  ASSUME TypeOK, ServerSide
  PROVE  \E d : StackKept(d)
<1>1. ASSUME UNCHANGED <<apps, app, registered>> PROVE StackKept(NoConn)
  BY <1>1 DEF StackKept
<1>2. CASE \E d \in Conns : HandlerEffect(d, Head(c2s[d]))
  BY <1>2 DEF HandlerEffect
<1>3. CASE JobEffect
  BY <1>1, <1>3 DEF JobEffect
<1>4. CASE OtherEffect
  BY <1>4, AppsGoKeeps DEF OtherEffect
<1> QED
  BY <1>1, <1>2, <1>3, <1>4 DEF ServerSide, ServerCases

LEMMA ServerKeepsIds ==
  ASSUME TypeOK, ServerSide, OwnId, ReplyIsOwn
  PROVE  OwnId' /\ ReplyIsOwn'
<1>1. PICK d : StackKept(d)
  BY ServerStack
<1>2. registered \in Nat /\ registered' \in {registered, registered + 1}
  BY <1>1, TypesUsed, ProtocolAssumption DEF S!TypeOK, StackKept, ProtocolAssumption
<1>3. OwnId'
  <2> SUFFICES ASSUME NEW r \in apps' PROVE r <= registered' /\ app'[r].id = r
    BY DEF OwnId
  <2>1. CASE r \in apps /\ app'[r].id = app[r].id
    <3>1. r <= registered /\ app[r].id = r /\ r \in Nat
      BY <2>1, TypesUsed, ProtocolAssumption
      DEF OwnId, S!TypeOK, S!Regs, ProtocolAssumption
    <3> QED
      BY <1>2, <2>1, <3>1
  <2>2. CASE r = registered + 1 /\ registered' = r /\ app'[r].id = r
    BY <1>2, <2>2
  <2> QED
    BY <1>1, <2>1, <2>2 DEF StackKept
<1> SUFFICES ReplyIsOwn'
  BY <1>3
<1>4. S!NoJob.step = "idle"
  BY NoJobIsIdle
<1>5. CASE \E b \in Conns : HandlerEffect(b, Head(c2s[b]))
  <2> SUFFICES ASSUME job'[IoThread].step = "reply"
               PROVE  Mine(job[IoThread].id, job[IoThread].conn)'
    BY DEF ReplyIsOwn
  <2>1. PICK b \in Conns : HandlerEffect(b, Head(c2s[b]))
    BY <1>5
  <2>2. job'[IoThread].conn = b
    BY <1>4, <2>1 DEF HandlerEffect
  <2>3. /\ job'[IoThread].id = registered' /\ registered' = registered + 1
        /\ app'[registered'].conn = b
    BY <2>1 DEF HandlerEffect
  <2> QED
    BY <1>2, <2>2, <2>3 DEF Mine
<1>6. CASE JobEffect
  BY <1>4, <1>6 DEF JobEffect, ReplyIsOwn
<1>7. CASE UNCHANGED job
  <2> SUFFICES ASSUME job[IoThread].step = "reply"
               PROVE  Mine(job[IoThread].id, job[IoThread].conn)'
    BY <1>7 DEF ReplyIsOwn
  <2> DEFINE i == job[IoThread].id
             c == job[IoThread].conn
  <2>1. i \in Nat /\ Mine(i, c)
    BY TypesUsed, IoThreadOnly, ProtocolAssumption
    DEF ReplyIsOwn, S!TypeOK, S!Job, S!Ids, ProtocolAssumption
  <2>2. PICK n \in Nat : n = i
    BY <2>1
  <2>3. PICK e : e = c
    OBVIOUS
  <2>4. Mine(n, e)'
    BY <1>1, <2>1, <2>2, <2>3, MineStays
  <2> QED
    BY <1>7, <2>2, <2>3, <2>4 DEF Mine
<1>8. \/ \E b \in Conns : HandlerEffect(b, Head(c2s[b]))
      \/ JobEffect \/ UNCHANGED job
  BY DEF ServerSide, ServerCases, OtherEffect
<1> QED
  BY <1>5, <1>6, <1>7, <1>8

\* What the server sends: the reply to a registration to whom it is due, and
\* the screens to whom asked for them.
LEMMA SentAreOwn ==
  ASSUME TypeOK, ServerSide, NEW c \in Conns, NEW m \in Contents(sent'[c])
  PROVE  /\ m.type = "registerApp" =>
              /\ job[IoThread].step = "reply"
              /\ job[IoThread].conn = c /\ job[IoThread].id = m.id
         /\ m.type = "getServerInfo" =>
              \E x \in Contents(c2s[c]) : x.type = "getServerInfo"
<1>1. ASSUME NEW b \in Conns, c2s[b] # <<>>, HandlerEffect(b, Head(c2s[b]))
      PROVE  /\ m.type # "registerApp"
             /\ m.type = "getServerInfo" =>
                  \E x \in Contents(c2s[c]) : x.type = "getServerInfo"
  <2>1. m.type \in {"appPause", "appResume", "getServerInfo"}
    BY <1>1 DEF HandlerEffect, SendsOnly
  <2>2. Head(c2s[b]) \in Contents(c2s[b])
    BY <1>1, TypesUsed, ContentsTail
  <2> QED
    BY <1>1, <2>1, <2>2 DEF HandlerEffect
<1>2. CASE JobEffect
  <2>1. m.type \in {"registerApp", "setScreenFrame", "appPause"}
    BY <1>2 DEF JobEffect, SendsOnly
  <2>2. CASE job[IoThread].step = "render"
    <3>1. m.type = "setScreenFrame"
      <4>1. m = Msg("setScreenFrame", 0)
        BY <1>2, <2>2, ContentsOne, ContentsEmpty DEF JobEffect
      <4> QED
        BY <4>1 DEF Msg
    <3> QED
      BY <3>1
  <2>3. CASE job[IoThread].step # "render"
    BY <1>2, <2>1, <2>3 DEF JobEffect
  <2> QED
    BY <2>2, <2>3
<1>3. CASE OtherEffect
  BY <1>3 DEF OtherEffect, SendsOnly
<1>4. CASE \A d \in Conns : sent'[d] = <<>>
  BY <1>4, ContentsEmpty
<1> QED
  BY <1>1, <1>2, <1>3, <1>4 DEF ServerSide, ServerCases

LEMMA ServerKeepsOwn ==
  ASSUME TypeOK, TypeOK', ServerSide, ReplyIsOwn, NEW a \in Clients, NEW c \in Conns,
         OwnOn(a, c)
  PROVE  OwnOn(a, c)'
<1>1. PICK d : StackKept(d)
  BY ServerStack
<1>2. UNCHANGED <<posted, appState, appId, mainAt>>
  BY DEF ServerSide, clientVars
<1>3. ASSUME NEW i \in Nat, Mine(i, c) PROVE Mine(i, c)'
  BY <1>1, <1>3, MineStays
<1>4. Contents(c2s'[c]) \subseteq Contents(c2s[c])
  <2>1. ASSUME NEW b \in Conns, c2s[b] # <<>>, c2s' = [c2s EXCEPT ![b] = Tail(@)]
        PROVE  Contents(c2s'[c]) \subseteq Contents(c2s[c])
    BY <2>1, TypesUsed, ContentsTail
  <2>2. ASSUME NEW b \in Conns, c2s' = [c2s EXCEPT ![b] = <<>>]
        PROVE  Contents(c2s'[c]) \subseteq Contents(c2s[c])
    BY <2>2, TypesUsed, ContentsEmpty
  <2>3. cut \subseteq Conns
    BY DEF TypeOK
  <2> QED
    BY <2>1, <2>2, <2>3 DEF ServerSide, ServerCases
<1>5. UnderWay(a, c)' \subseteq UnderWay(a, c)
  BY <1>2, <1>4 DEF UnderWay
<1>6. Contents(s2c'[c]) \subseteq Contents(s2c[c]) \cup Contents(sent'[c])
  <2>1. s2c'[c] = s2c[c] \/ s2c'[c] = s2c[c] \o sent'[c]
    BY DEF ServerSide, Deliver
  <2>2. sent'[c] \in Queues
    <3>1. S!TypeOK'
      BY SameTypes, PTL DEF TypeOK
    <3> QED
      BY <3>1, SameMessages DEF S!TypeOK, Queues
  <2> QED
    BY <2>1, <2>2, TypesUsed, ContentsConcat
<1>7. /\ \A m \in UnderWay(a, c) : m.id \in Nat
      /\ \A m \in Contents(s2c[c]) : m.id \in Nat
      /\ appId[a] \in Nat /\ job[IoThread].id \in Nat
  <2>1. \A m \in Message : m.id \in Nat
    BY ProtocolAssumption DEF Message, Ids, ProtocolAssumption
  <2>2. appId[a] \in Nat
    BY SameTypes, ProtocolAssumption DEF TypeOK, A!TypeOK, A!Ids, ProtocolAssumption
  <2>3. job[IoThread].id \in Nat
    BY TypesUsed, IoThreadOnly, ProtocolAssumption DEF S!TypeOK, S!Job, S!Ids, ProtocolAssumption
  <2> QED
    BY <2>1, <2>2, <2>3, TypesUsed, QueuesHold DEF UnderWay
<1>8. ASSUME NEW m \in UnderWay(a, c)', m.type = "setScreenFrame" PROVE Mine(m.id, c)'
  BY <1>3, <1>5, <1>7, <1>8 DEF OwnOn
<1>9. ASSUME NEW m \in Contents(s2c'[c]), m.type = "registerApp" PROVE Mine(m.id, c)'
  <2>1. CASE m \in Contents(s2c[c])
    BY <1>3, <1>7, <1>9, <2>1 DEF OwnOn
  <2>2. CASE m \in Contents(sent'[c])
    BY <1>3, <1>7, <1>9, <2>2, SentAreOwn DEF ReplyIsOwn
  <2> QED
    BY <1>6, <2>1, <2>2
<1>10. ASSUME Active(a, c)' PROVE Mine(appId[a], c)'
  <2>1. Active(a, c)
    <3>1. ASSUME NEW m \in Contents(s2c'[c]), m.type = "getServerInfo"
          PROVE  Active(a, c)
      <4>1. CASE m \in Contents(s2c[c])
        BY <3>1, <4>1 DEF Active
      <4>2. CASE m \in Contents(sent'[c])
        BY <3>1, <4>2, SentAreOwn DEF Active, UnderWay
      <4> QED
        BY <1>6, <4>1, <4>2
    <3> QED
      BY <1>2, <1>5, <1>10, <3>1 DEF Active
  <2>2. Mine(appId[a], c)
    BY <2>1 DEF OwnOn
  <2>3. PICK i \in Nat : i = appId[a]
    BY <1>7
  <2>4. Mine(i, c)'
    BY <1>3, <2>2, <2>3
  <2> QED
    BY <1>2, <2>3, <2>4 DEF Mine
<1> QED
  BY <1>8, <1>9, <1>10 DEF OwnOn

\* What the processes do leaves the ids as they are.
LEMMA MineAlone ==
  ASSUME ServerIdle, NEW i, NEW c
  PROVE  Mine(i, c)' <=> Mine(i, c)
BY DEF Mine, ServerIdle, serverVars

LEMMA OthersKeepOwn ==
  ASSUME TypeOK, NEW a \in Clients, NEW b \in Clients, b # a, ClientSide(a),
         made[b] # 0, OwnOn(b, conn(b))
  PROVE  OwnOn(b, conn(b))'
<1>1. /\ mainAt'[b] = mainAt[b] /\ posted'[b] = posted[b] /\ appState'[b] = appState[b]
      /\ appId'[b] = appId[b] /\ made'[b] = made[b] /\ ServerIdle
      /\ \A c \in Conns : c # conn(a) => c2s'[c] = c2s[c] /\ s2c'[c] = s2c[c]
  BY OthersAlone
<1>2. PICK c \in Conns : c = conn(b) /\ c # conn(a)
  BY ConnFacts
<1>3. conn(b)' = c
  BY <1>1, <1>2 DEF conn
<1>4. c2s'[c] = c2s[c] /\ s2c'[c] = s2c[c]
  BY <1>1, <1>2
<1>5. UnderWay(b, c)' = UnderWay(b, c) /\ (Active(b, c)' <=> Active(b, c))
  BY <1>1, <1>4 DEF UnderWay, Active
<1>6. \A i : Mine(i, c)' <=> Mine(i, c)
  BY <1>1, MineAlone
<1>7. OwnOn(b, c)
  BY <1>2
<1>8. OwnOn(b, c)'
  <2>1. \A m \in UnderWay(b, c)' : m.type = "setScreenFrame" => Mine(m.id, c)'
    BY <1>5, <1>6, <1>7 DEF OwnOn
  <2>2. \A m \in Contents(s2c'[c]) : m.type = "registerApp" => Mine(m.id, c)'
    BY <1>4, <1>6, <1>7 DEF OwnOn
  <2>3. Active(b, c)' => Mine(appId[b], c)'
    <3>1. Mine(appId[b], c) => Mine(appId[b], c)'
      BY <1>1 DEF Mine, ServerIdle, serverVars
    <3> QED
      BY <1>5, <1>7, <3>1 DEF OwnOn
  <2> QED
    BY <2>1, <2>2, <2>3 DEF OwnOn
<1> QED
  BY <1>3, <1>8 DEF OwnOn, UnderWay, Active, Mine

\* On a connection just made a process owns nothing and claims nothing.
LEMMA NewIsOwn ==
  ASSUME Base, TypeOK', NEW a \in Clients, Connect(a), ServerIdle, UNCHANGED <<c2s, s2c>>,
         NEW m, m.type = "registerApp", posted'[a] = <<m>>,
         appState'[a] \notin {"running", "paused"}, mainAt'[a] \notin {"wait", "draw"}
  PROVE  OwnOn(a, conn(a))'
<1>1. PICK c \in Conns : c = conn(a)' /\ c \notin Used
  BY ConnectDoes DEF Base
<1>2. c2s'[c] = <<>> /\ s2c'[c] = <<>>
  BY <1>1 DEF Base, UnusedEmpty
<1>3. UnderWay(a, c)' = {m} /\ Contents(s2c'[c]) = {}
  BY <1>2, ContentsOne, ContentsEmpty DEF UnderWay
<1>4. ~Active(a, c)'
  BY <1>3 DEF Active
<1>5. OwnOn(a, c)'
  BY <1>3, <1>4 DEF OwnOn
<1> QED
  BY <1>1, <1>5 DEF OwnOn, UnderWay, Active, Mine

\* On the connection a process keeps, it is enough that nothing new comes to
\* be under way, and nothing new is claimed.
LEMMA SameIsOwn ==
  ASSUME TypeOK, NEW a \in Clients, ServerIdle, made'[a] = made[a], made[a] # 0,
         OwnOn(a, conn(a)),
         \A m \in UnderWay(a, conn(a))' :
           m.type = "setScreenFrame" => Mine(m.id, conn(a)),
         \A m \in Contents(s2c[conn(a)])' : m \in Contents(s2c[conn(a)]),
         Active(a, conn(a))' => Mine(appId'[a], conn(a))
  PROVE  OwnOn(a, conn(a))'
<1>1. PICK c \in Conns : c = conn(a)
  BY ConnFacts
<1>2. conn(a)' = c
  BY <1>1 DEF conn
<1>3. \A i : Mine(i, c)' <=> Mine(i, c)
  BY MineAlone
<1>4. \A m \in UnderWay(a, c)' : m.type = "setScreenFrame" => Mine(m.id, c)
  BY <1>1, <1>2 DEF UnderWay
<1>5. \A m \in Contents(s2c'[c]) : m.type = "registerApp" => Mine(m.id, c)
  BY <1>1, <1>2 DEF OwnOn
<1>6. Active(a, c)' => Mine(appId'[a], c)
  BY <1>1, <1>2 DEF Active, UnderWay
<1>7. Mine(appId'[a], c) => Mine(appId[a], c)'
  BY DEF Mine, ServerIdle, serverVars
<1>8. OwnOn(a, c)'
  BY <1>3, <1>4, <1>5, <1>6, <1>7 DEF OwnOn
<1> QED
  BY <1>2, <1>8 DEF OwnOn, UnderWay, Active, Mine

\* What the io thread's handlers post, and which id and state they leave.
LEMMA ReceiveOwns ==
  ASSUME TypeOK, NEW a \in Clients, NEW m \in Message, Client!handleRequest(a, m)
  PROVE  /\ mainAt' = mainAt
         /\ \A x \in Contents(posted'[a]) :
              \/ x \in Contents(posted[a])
              \/ x.type # "setScreenFrame" /\ (x.type = "getServerInfo" => m.type = "registerApp")
         /\ appId'[a] = IF m.type = "registerApp" THEN m.id ELSE appId[a]
         /\ appState'[a] \in {"running", "paused"} =>
              appState[a] \in {"running", "paused"} \/ m.type = "getServerInfo"
<1> USE DEF Client!threadVars, Client!Post, Client!SetState
<1>1. /\ posted \in [Clients -> Queues] /\ posted[a] \in Queues
      /\ appId \in [Clients -> Ids] /\ appState \in [Clients -> Client!AppStates]
  <2>1. A!TypeOK
    BY TypesUsed, SameTypes
  <2> QED
    BY <2>1, TypesUsed DEF A!TypeOK, A!Ids, Ids, TypeOK, Client!TypeOK
<1>2. ASSUME NEW type \in ClientTypes, NEW id \in Ids
      PROVE  Client!Msg(type, id) \in Message /\ Client!Msg(type, id).type = type
  BY ProtocolAssumption DEF Client!Msg, Message, Levels, ProtocolAssumption
<1>3. ASSUME NEW type \in ClientTypes, NEW id \in Ids,
             Client!Post(a, <<Client!Msg(type, id)>>)
      PROVE  \A x \in Contents(posted'[a]) : x \in Contents(posted[a]) \/ x.type = type
  <2> DEFINE y == Client!Msg(type, id)
  <2>1. posted'[a] = posted[a] \o <<y>>
    BY <1>1, <1>3
  <2>2. y \in Message /\ y.type = type
    BY <1>2
  <2> HIDE DEF y
  <2>3. Contents(posted'[a]) = Contents(posted[a]) \cup {y}
    <3>1. posted[a] \in Queues
      BY <1>1
    <3>2. Contents(posted[a] \o <<y>>) = Contents(posted[a]) \cup {y}
      BY <2>2, <3>1, FramesAppend
    <3> QED
      BY <2>1, <3>2
  <2> QED
    BY <2>2, <2>3
<1>4. CASE Client!Registered(a, m)
  <2> DEFINE x == Client!Msg("appParamSchema", m.id)
             y == Client!Msg("getServerInfo", m.id)
  <2>1. posted'[a] = posted[a] \o <<x, y>>
    BY <1>1, <1>4 DEF Client!Registered
  <2>2. m.id \in Ids
    BY DEF Message
  <2>3. x \in Message /\ x.type = "appParamSchema" /\ y \in Message /\ y.type = "getServerInfo"
    BY <1>2, <2>2 DEF ClientTypes
  <2> HIDE DEF x, y
  <2>4. <<x, y>> \in Queues /\ Contents(<<x, y>>) = {x, y}
    BY <2>3 DEF Queues, Contents
  <2>5. Contents(posted'[a]) = Contents(posted[a]) \cup {x, y}
    BY <1>1, <2>1, <2>4, ContentsConcat
  <2>6. m.type = "registerApp" /\ appId'[a] = m.id /\ UNCHANGED <<mainAt, appState>>
    BY <1>1, <1>4 DEF Client!Registered
  <2> QED
    BY <2>3, <2>5, <2>6
<1>5. CASE Client!ServerInfo(a, m)
  BY <1>1, <1>5 DEF Client!ServerInfo
<1>6. CASE Client!FrameAck(a, m) \/ Client!TakeInput(a, m)
  BY <1>1, <1>6 DEF Client!FrameAck, Client!TakeInput
<1>7. CASE \/ Client!Pause(a, m) \/ Client!Resume(a, m) \/ Client!Kill(a, m)
           \/ Client!Answer(a, m)
  <2>1. UNCHANGED <<mainAt, appId>>
        /\ m.type \in {"appPause", "appResume", "appKill", "appAlive", "getAppParams"}
    BY <1>7 DEF Client!Pause, Client!Resume, Client!Kill, Client!Answer
  <2>2. PICK type \in {"appPause", "appResume", "appKill", "appAlive", "appParamValues"} :
          Client!Post(a, <<Client!Msg(type, appId[a])>>)
    BY <1>7 DEF Client!Pause, Client!Resume, Client!Kill, Client!Answer
  <2>3. \A x \in Contents(posted'[a]) : x \in Contents(posted[a]) \/ x.type = type
    BY <1>1, <1>3, <2>2 DEF ClientTypes
  <2>4. appState'[a] \in {"running", "paused"} => appState[a] \in {"running", "paused"}
    BY <1>1, <1>7 DEF Client!Pause, Client!Resume, Client!Kill, Client!Answer
  <2> QED
    BY <2>1, <2>2, <2>3, <2>4
<1> QED
  BY <1>4, <1>5, <1>6, <1>7 DEF Client!handleRequest

LEMMA ClientKeepsOwn ==
  ASSUME Base, TypeOK', NEW a \in Clients, ClientSide(a),
         made[a] # 0 => OwnOn(a, conn(a))
  PROVE  OwnOn(a, conn(a))'
<1> USE DEF Client!Goto
<1>1. TypeOK /\ Unstarted /\ Client!TypeOK /\ ServerIdle
      /\ posted \in [Clients -> Queues] /\ posted[a] \in Queues
      /\ mainAt \in [Clients -> Client!MainSteps]
      /\ appState \in [Clients -> Client!AppStates]
      /\ c2s \in [Conns -> Queues] /\ s2c \in [Conns -> Queues]
  BY TypesUsed, OthersAlone DEF Base, Client!TypeOK
<1>2. Client!Msg("registerApp", 0).type = "registerApp"
  BY DEF Client!Msg
<1>3. CASE ClientStarts(a)
  <2>1. /\ conn(a) = NoConn /\ Connect(a) /\ UNCHANGED <<c2s, s2c, appState>>
        /\ mainAt' = [mainAt EXCEPT ![a] = "started"]
        /\ posted' = [posted EXCEPT ![a] = @ \o <<Client!Msg("registerApp", 0)>>]
    BY <1>3 DEF ClientStarts, Client!Start, Client!Post
  <2>2. posted[a] = <<>> /\ appState[a] = "starting"
    BY <1>1, <2>1, ConnFacts DEF Unstarted
  <2>3. posted'[a] = <<Client!Msg("registerApp", 0)>> /\ appState'[a] = "starting"
        /\ mainAt'[a] = "started"
    BY <1>1, <2>1, <2>2
  <2> QED
    BY <1>1, <1>2, <2>1, <2>3, NewIsOwn
<1>4. CASE ClientReconnects(a)
  <2>1. /\ Connect(a) /\ UNCHANGED <<c2s, s2c>> /\ mainAt'[a] \in {"head", "over"}
        /\ posted'[a] = <<Client!Msg("registerApp", 0)>> /\ appState'[a] = "failure"
    BY <1>1, <1>4 DEF ClientReconnects, Client!Reconnect, Client!NextRound
  <2> QED
    BY <1>1, <1>2, <2>1, NewIsOwn
\* From here on the connection stays.
<1>5. ASSUME UNCHANGED made, made[a] # 0
      PROVE  /\ conn(a)' = conn(a) /\ conn(a) \in Conns /\ OwnOn(a, conn(a))
             /\ c2s[conn(a)] \in Queues /\ s2c[conn(a)] \in Queues
  BY <1>1, <1>5, ConnFacts, TypesUsed DEF conn
<1>6. CASE ClientReceives(a)
  <2>1. PICK c \in Conns : c = conn(a) /\ made[a] # 0
    BY <1>1, <1>6, ConnFacts DEF ClientReceives
  <2> DEFINE m == Head(s2c[c])
  <2>2. /\ s2c[c] # <<>> /\ Client!handleRequest(a, m)
        /\ s2c' = [s2c EXCEPT ![c] = Tail(@)] /\ UNCHANGED <<made, c2s>>
    BY <1>6, <2>1 DEF ClientReceives
  <2>3. OwnOn(a, c) /\ conn(a)' = c
    BY <1>5, <2>1, <2>2
  <2>4. m \in Message /\ m \in Contents(s2c[c]) /\ Contents(s2c'[c]) \subseteq Contents(s2c[c])
    BY <1>1, <2>2, ContentsTail
  <2> HIDE DEF m
  <2>5. /\ mainAt' = mainAt
        /\ \A x \in Contents(posted'[a]) :
             \/ x \in Contents(posted[a])
             \/ x.type # "setScreenFrame" /\ (x.type = "getServerInfo" => m.type = "registerApp")
        /\ appId'[a] = IF m.type = "registerApp" THEN m.id ELSE appId[a]
        /\ appState'[a] \in {"running", "paused"} =>
             appState[a] \in {"running", "paused"} \/ m.type = "getServerInfo"
    BY <1>1, <2>2, <2>4, ReceiveOwns
  <2>6. \A x \in Contents(posted'[a]) \cup Contents(c2s'[c]) :
          x.type = "setScreenFrame" => Mine(x.id, c)
    BY <2>2, <2>3, <2>5 DEF OwnOn, UnderWay
  <2>7. CASE m.type = "registerApp"
    <3>1. Mine(appId'[a], c)
      BY <2>3, <2>4, <2>5, <2>7 DEF OwnOn
    <3> QED
      BY <1>1, <2>1, <2>2, <2>3, <2>4, <2>6, <3>1, SameIsOwn DEF UnderWay
  <2>8. CASE m.type # "registerApp"
    <3>1. Active(a, c)' => Active(a, c)
      BY <2>2, <2>4, <2>5, <2>8 DEF Active, UnderWay
    <3>2. Active(a, c)' => Mine(appId'[a], c)
      BY <2>3, <2>5, <2>8, <3>1 DEF OwnOn
    <3>3. Active(a, conn(a))' => Mine(appId'[a], c)
      BY <2>3, <3>2 DEF Active, UnderWay
    <3> QED
      BY <1>1, <2>1, <2>2, <2>3, <2>4, <2>6, <3>3, SameIsOwn DEF UnderWay
  <2> QED
    BY <2>7, <2>8
<1>7. ASSUME UNCHANGED <<made, appId>>, made[a] # 0,
             UnderWay(a, conn(a))' \subseteq UnderWay(a, conn(a)),
             Contents(s2c[conn(a)])' \subseteq Contents(s2c[conn(a)]),
             appState'[a] \in {"running", "paused"} => appState[a] \in {"running", "paused"},
             mainAt'[a] \in {"wait", "draw"} =>
               mainAt[a] \in {"wait", "draw"} \/ appState[a] \in {"running", "paused"}
      PROVE  OwnOn(a, conn(a))'
  <2>1. OwnOn(a, conn(a))
    BY <1>5, <1>7
  <2>2. Active(a, conn(a))' => Active(a, conn(a))
    BY <1>7 DEF Active
  <2> QED
    BY <1>1, <1>7, <2>1, <2>2, SameIsOwn DEF OwnOn
<1>8. CASE ClientWrites(a)
  <2>1. /\ posted[a] # <<>> /\ posted' = [posted EXCEPT ![a] = Tail(@)]
        /\ UNCHANGED <<appState, appId, mainAt, made, s2c>>
        /\ c2s' = IF conn(a) \in cut THEN c2s
                  ELSE [c2s EXCEPT ![conn(a)] = Append(@, Head(posted[a]))]
    BY <1>8 DEF ClientWrites, Client!Write, Client!threadVars
  <2>2. made[a] # 0
    BY <1>1, <2>1 DEF Unstarted
  <2>3. PICK c \in Conns : c = conn(a) /\ c = conn(a)'
    BY <1>5, <2>1, <2>2
  <2>4. /\ Contents(Tail(posted[a])) \subseteq Contents(posted[a])
        /\ Head(posted[a]) \in Contents(posted[a]) /\ Head(posted[a]) \in Message
    BY <1>1, <2>1, ContentsTail
  <2>5. Contents(Append(c2s[c], Head(posted[a]))) = Contents(c2s[c]) \cup {Head(posted[a])}
    BY <1>1, <2>4, FramesAppend
  <2>6. /\ posted'[a] = Tail(posted[a])
        /\ c2s'[c] = c2s[c] \/ c2s'[c] = Append(c2s[c], Head(posted[a]))
    BY <1>1, <2>1, <2>3
  <2>7. UnderWay(a, conn(a))' \subseteq UnderWay(a, conn(a))
    BY <2>3, <2>4, <2>5, <2>6 DEF UnderWay
  <2>8. Contents(s2c[conn(a)])' \subseteq Contents(s2c[conn(a)])
    BY <2>1, <2>3
  <2> QED
    BY <1>7, <2>1, <2>2, <2>7, <2>8
<1>9. CASE ClientSeesCut(a)
  <2>1. /\ conn(a) \in cut /\ UNCHANGED <<appState, appId, mainAt, posted, made, c2s>>
        /\ s2c' = [s2c EXCEPT ![conn(a)] = <<>>]
    BY <1>9 DEF ClientSeesCut, Client!ConnectionFails, Client!threadVars
  <2>2. made[a] # 0
    BY <1>1, <2>1, ConnFacts, SystemAssumption DEF TypeOK
  <2>3. PICK c \in Conns : c = conn(a) /\ c = conn(a)'
    BY <1>5, <2>1, <2>2
  <2>4. s2c'[c] = <<>>
    BY <1>1, <2>1, <2>3
  <2>5. UnderWay(a, conn(a))' \subseteq UnderWay(a, conn(a))
    BY <2>1, <2>3 DEF UnderWay
  <2>6. Contents(s2c[conn(a)])' \subseteq Contents(s2c[conn(a)])
    BY <2>3, <2>4, ContentsEmpty
  <2> QED
    BY <1>7, <2>1, <2>2, <2>5, <2>6
<1>10. CASE ClientIo(a)
  <2>1. UNCHANGED <<appState, appId, mainAt, posted, made, c2s, s2c>>
    BY <1>10 DEF ClientIo, ClientWorks, channelVars, Client!JoinMainThread, Client!IoRunReturns
  <2>2. mainAt[a] = "over" \/ connDead[a]
    BY <1>10 DEF ClientIo, ClientWorks, Client!JoinMainThread, Client!IoRunReturns
  <2>3. made[a] # 0
    BY <1>1, <2>2, ConnFacts, SystemAssumption DEF Base, DeadIsCut, Unstarted, TypeOK
  <2>4. conn(a)' = conn(a)
    BY <2>1 DEF conn
  <2> QED
    BY <1>7, <2>1, <2>3, <2>4 DEF UnderWay
<1>11. CASE ClientWorks(a, MainWorks(a))
  <2>1. UNCHANGED <<made, c2s, s2c, appId>> /\ MainWorks(a)
    BY <1>11 DEF ClientWorks, channelVars, MainWorks, Client!CreateMainThread,
      Client!LoopHead, Client!TakeAck, Client!Draw, Client!LoopThrows,
      Client!TestKilled, Client!CheckAlive, Client!CheckFails
  <2>2. mainAt[a] # "off"
    BY <2>1 DEF MainWorks, Client!CreateMainThread, Client!LoopHead, Client!TakeAck,
      Client!Draw, Client!LoopThrows, Client!TestKilled, Client!CheckAlive, Client!CheckFails
  <2>3. made[a] # 0
    BY <1>1, <2>2 DEF Unstarted
  <2>4. PICK c \in Conns : c = conn(a) /\ c = conn(a)'
    BY <1>5, <2>1, <2>3
  <2>5. Contents(s2c[conn(a)])' \subseteq Contents(s2c[conn(a)])
    BY <2>1, <2>4
  <2>6. CASE Client!Draw(a)
    <3>1. PICK level \in Levels :
            Client!Post(a, <<[Client!Msg("setScreenFrame", appId[a]) EXCEPT !.level = level]>>)
      BY <2>6 DEF Client!Draw, Client!Levels, Levels
    <3> DEFINE m == [Client!Msg("setScreenFrame", appId[a]) EXCEPT !.level = level]
    <3>2. m \in Message /\ m.type = "setScreenFrame" /\ m.id = appId[a]
      <4>1. appId[a] \in Ids
        BY <1>1, SameTypes DEF A!TypeOK, A!Ids, Ids
      <4> QED
        BY <4>1 DEF Client!Msg, Message, ClientTypes
    <3>3. posted'[a] = posted[a] \o <<m>>
      BY <1>1, <3>1 DEF Client!Post
    <3> HIDE DEF m
    <3>4. Contents(posted'[a]) = Contents(posted[a]) \cup {m}
      <4>1. posted[a] \in Queues
        BY <1>1
      <4>2. Contents(posted[a] \o <<m>>) = Contents(posted[a]) \cup {m}
        BY <3>2, <4>1, FramesAppend
      <4> QED
        BY <3>3, <4>2
    <3>5. mainAt[a] = "draw" /\ appState' = appState /\ mainAt'[a] = "check"
      BY <1>1, <2>6 DEF Client!Draw
    <3>6. OwnOn(a, c) /\ Active(a, c)
      BY <1>5, <2>1, <2>3, <2>4, <3>5 DEF Active
    <3>7. Mine(appId[a], c)
      BY <3>6 DEF OwnOn
    <3>8. \A x \in UnderWay(a, conn(a))' : x.type = "setScreenFrame" => Mine(x.id, c)
      BY <2>1, <2>4, <3>2, <3>4, <3>6, <3>7 DEF UnderWay, OwnOn
    <3> QED
      BY <1>1, <2>1, <2>3, <2>4, <2>5, <3>6, <3>7, <3>8, SameIsOwn
  <2>7. CASE ~Client!Draw(a)
    <3>1. /\ posted' = posted
          /\ appState'[a] \in {"running", "paused"} => appState[a] \in {"running", "paused"}
          /\ mainAt'[a] \in {"wait", "draw"} =>
               mainAt[a] \in {"wait", "draw"} \/ appState[a] \in {"running", "paused"}
      BY <1>1, <2>1, <2>7 DEF MainWorks, Client!CreateMainThread,
        Client!LoopHead, Client!TakeAck, Client!LoopThrows,
        Client!TestKilled, Client!CheckAlive, Client!CheckFails, Client!NextRound
    <3>2. UnderWay(a, conn(a))' \subseteq UnderWay(a, conn(a))
      BY <2>1, <2>4, <3>1 DEF UnderWay
    <3> QED
      BY <1>7, <2>1, <2>3, <2>5, <3>1, <3>2
  <2> QED
    BY <2>6, <2>7
<1> QED
  BY <1>3, <1>4, <1>6, <1>8, <1>9, <1>10, <1>11 DEF ClientSide

LEMMA OwnNext == OwnInv /\ [Next]_vars => OwnInv'
<1> SUFFICES ASSUME OwnInv, [Next]_vars PROVE OwnInv'
  OBVIOUS
<1>1. TypeOK /\ TypeOK' /\ Base
  BY NextTypes DEF OwnInv, Base
<1>2. OwnId /\ ReplyIsOwn /\ AllOwn
  BY DEF OwnInv
<1>3. ASSUME ServerSide PROVE OwnInv'
  <2>1. OwnId' /\ ReplyIsOwn' /\ Base'
    BY <1>1, <1>2, <1>3, ServerKeepsIds, ServerKeepsBase
  <2>2. ASSUME NEW a \in Clients, made'[a] # 0 PROVE OwnOn(a, conn(a))'
    <3>1. made'[a] = made[a] /\ conn(a)' = conn(a)
      BY <1>3 DEF ServerSide, conn
    <3>2. PICK c \in Conns : c = conn(a)
      BY <1>1, <2>2, <3>1, ConnFacts
    <3>3. OwnOn(a, c)
      BY <1>2, <2>2, <3>1, <3>2 DEF AllOwn
    <3>4. OwnOn(a, c)'
      BY <1>1, <1>2, <1>3, <3>3, ServerKeepsOwn
    <3> QED
      BY <3>1, <3>2, <3>4 DEF OwnOn, UnderWay, Active, Mine
  <2> QED
    BY <2>1, <2>2 DEF OwnInv, AllOwn
<1>4. ASSUME NEW a \in Clients, ClientSide(a) PROVE OwnInv'
  <2>1. Base' /\ ServerIdle
    BY <1>1, <1>4, ClientKeepsBase, OthersAlone
  <2>2. OwnId' /\ ReplyIsOwn'
    BY <1>2, <2>1 DEF OwnId, ReplyIsOwn, Mine, ServerIdle, serverVars
  <2>3. ASSUME NEW b \in Clients, made'[b] # 0 PROVE OwnOn(b, conn(b))'
    <3>1. CASE b = a
      BY <1>1, <1>2, <1>4, <3>1, ClientKeepsOwn DEF AllOwn
    <3>2. CASE b # a
      <4>1. made[b] # 0
        BY <1>1, <1>4, <2>3, <3>2, OthersAlone
      <4> QED
        BY <1>1, <1>2, <1>4, <3>2, <4>1, OthersKeepOwn DEF AllOwn
    <3> QED
      BY <3>1, <3>2
  <2> QED
    BY <2>1, <2>2, <2>3 DEF OwnInv, AllOwn
<1>5. ASSUME Accident PROVE OwnInv'
  <2>1. Base'
    BY <1>1, <1>5, AccidentKeepsBase
  <2>2. UNCHANGED <<apps, app, registered, job, posted, appState, appId, mainAt,
                    made, c2s, s2c>>
    BY <1>5 DEF Accident, serverVars, clientVars
  <2>3. OwnId' /\ ReplyIsOwn' /\ AllOwn'
    BY <1>2, <2>2 DEF OwnId, ReplyIsOwn, AllOwn, OwnOn, UnderWay, Active, Mine, conn
  <2> QED
    BY <2>1, <2>3 DEF OwnInv
<1>6. CASE Next
  BY <1>1, <1>3, <1>4, <1>5, <1>6, StepsOfNext, Sides
<1>7. CASE UNCHANGED vars
  <2>1. Accident
    BY <1>7 DEF Accident, vars, channelVars
  <2> QED
    BY <1>5, <2>1
<1> QED
  BY <1>6, <1>7

\* Whatever the processes, connections and messages, also after reconnects,
\* no process draws in another's name: a frame that is posted or under way
\* carries the id its sender got on that very connection, so that the server,
\* which compares nothing but ids (Server.cpp:209-222), shows what the app on
\* top drew.
THEOREM FramesStayOwn == Spec => []FramesAreOwn
<1>1. OwnInv => FramesAreOwn
  <2> SUFFICES ASSUME OwnInv, NEW a \in Clients, NEW r \in apps, conn(a) # NoConn,
                      NEW q \in {posted[a], c2s[conn(a)]}, NEW i \in 1..Len(q),
                      q[i].type = "setScreenFrame", q[i].id = app[r].id
               PROVE  app[r].conn = conn(a)
    BY DEF FramesAreOwn
  <2>1. made[a] # 0
    BY ConnFacts DEF OwnInv, Base
  <2>2. q[i] \in UnderWay(a, conn(a))
    BY DEF UnderWay, Contents
  <2>3. Mine(q[i].id, conn(a))
    BY <2>1, <2>2 DEF OwnInv, AllOwn, OwnOn
  <2>4. app[r].id = r
    BY DEF OwnInv, OwnId
  <2> QED
    BY <2>3, <2>4 DEF Mine
<1> QED
  BY OwnInit, OwnNext, <1>1, PTL DEF Spec

-----------------------------------------------------------------------------
(***************************************************************************)
(* The server under its clients.  What the processes send is what the      *)
(* server alone allows for, so that the server of the system is a server   *)
(* as analysed alone, and what is proved of that holds here.               *)
(***************************************************************************)
Requests == Server!ClientMessages

PostsRequests == posted \in [Clients -> Seq(Requests)]

RequestsInv ==
  /\ TypeOK
  /\ PostsRequests
  /\ c2s \in [Conns -> Seq(Requests)]

LEMMA SameRequests ==
  /\ A!Requests = Requests
  /\ A!OnlyRequests <=> PostsRequests
BY DEF A!Requests, A!OnlyRequests, A!Message, A!ClientTypes, A!ServerTypes, A!Ids,
  A!Levels, Requests, Server!ClientMessages, Server!Message, Server!ClientTypes,
  Server!ServerTypes, Server!Ids, Server!Levels, ClientTypes, PostsRequests

LEMMA ClientPostsRequests ==
  ASSUME RequestsInv, NEW a \in Clients, ClientMoves(a)
  PROVE  PostsRequests'
<1>1. A!TypeOK /\ A!OnlyRequests
  BY SameTypes, SameRequests DEF RequestsInv, TypeOK
<1>2. CASE Client!Start(a) \/ Client!MainStep(a) \/ Client!LoopThrows(a)
  <2>1. A!OnlyRequests'
    BY <1>1, <1>2, SameMain, A!MainRequests, SidesAssumptions
  <2> QED
    BY <2>1, SameRequests, PTL
<1>3. ASSUME NEW m \in Message, Client!handleRequest(a, m)
      PROVE  PostsRequests'
  <2>1. A!OnlyRequests'
    BY <1>1, <1>3, SameReceive, SameMessages, A!HandlerRequests, SidesAssumptions
  <2> QED
    BY <2>1, SameRequests, PTL
<1>4. CASE Client!IoStep(a) \/ Client!ConnectionFails(a)
  <2>1. A!OnlyRequests'
    BY <1>1, <1>4, SameIo, A!IoRequests, SidesAssumptions
  <2> QED
    BY <2>1, SameRequests, PTL
<1> QED
  BY <1>2, <1>3, <1>4 DEF ClientMoves

\* A step of the server, as far as the messages of the clients go.
LEMMA RequestsServed ==
  ASSUME RequestsInv, TypeOK', UNCHANGED clientVars, c2s' \in [Conns -> Seq(Requests)]
  PROVE  RequestsInv'
BY DEF RequestsInv, PostsRequests, clientVars

LEMMA RequestsSent ==
  ASSUME RequestsInv, TypeOK', NEW a \in Clients, ClientMoves(a),
         c2s' \in [Conns -> Seq(Requests)]
  PROVE  RequestsInv'
BY ClientPostsRequests DEF RequestsInv

LEMMA RequestsNext == RequestsInv /\ [Next]_vars => RequestsInv'
<1> SUFFICES ASSUME RequestsInv, [Next]_vars PROVE RequestsInv'
  OBVIOUS
<1>1. TypeOK /\ TypeOK'
  BY NextTypes DEF RequestsInv
<1>2. c2s \in [Conns -> Seq(Requests)] /\ posted \in [Clients -> Seq(Requests)]
  BY DEF RequestsInv, PostsRequests
<1>3. ASSUME NEW c \in Conns, ServerReceives(c) PROVE RequestsInv'
  <2>1. Tail(c2s[c]) \in Seq(Requests)
    BY <1>2, <1>3 DEF ServerReceives
  <2>2. c2s' \in [Conns -> Seq(Requests)] /\ UNCHANGED clientVars
    BY <1>2, <1>3, <2>1 DEF ServerReceives
  <2> QED
    BY <1>1, <2>2, RequestsServed
<1>4. ASSUME NEW c \in Conns, ServerSeesCut(c) PROVE RequestsInv'
  <2>1. c2s' \in [Conns -> Seq(Requests)] /\ UNCHANGED clientVars
    BY <1>2, <1>4 DEF ServerSeesCut
  <2> QED
    BY <1>1, <2>1, RequestsServed
<1>5. CASE \/ \E c \in Conns : ServerAccepts(c) \/ Cut(c)
           \/ ServerWorks(Server!FinishJob(IoThread))
           \/ ServerTicks \/ PressKill \/ ServerWorks(Server!WebInput)
           \/ \E a \in Clients : Crash(a)
           \/ UNCHANGED vars
  <2>1. UNCHANGED <<clientVars, c2s>>
    BY <1>5 DEF ServerAccepts, ServerTicks, PressKill, ServerWorks, Cut, Crash, vars,
      channelVars
  <2> QED
    BY <1>1, <1>2, <2>1, RequestsServed
<1>6. ASSUME NEW a \in Clients, ClientStarts(a) \/ ClientReconnects(a)
      PROVE  RequestsInv'
  <2>1. ClientMoves(a) /\ UNCHANGED c2s
    BY <1>6 DEF ClientStarts, ClientReconnects, ClientMoves, Client!MainStep
  <2> QED
    BY <1>1, <1>2, <2>1, RequestsSent
<1>7. ASSUME NEW a \in Clients, ClientReceives(a) PROVE RequestsInv'
  <2>1. Head(s2c[conn(a)]) \in Message
    BY <1>1, <1>7, ConnFacts, TakenIsTyped DEF ClientReceives
  <2>2. ClientMoves(a) /\ UNCHANGED c2s
    BY <1>7, <2>1 DEF ClientReceives, ClientMoves
  <2> QED
    BY <1>1, <1>2, <2>2, RequestsSent
<1>8. ASSUME NEW a \in Clients, ClientWrites(a) PROVE RequestsInv'
  <2>1. ClientMoves(a) /\ posted[a] # <<>>
    BY <1>8 DEF ClientWrites, ClientMoves, Client!IoStep, Client!Write
  <2>2. Head(posted[a]) \in Requests
    BY <1>2, <2>1
  <2>3. CASE UNCHANGED c2s
    BY <1>1, <1>2, <2>1, <2>3, RequestsSent
  <2>4. CASE c2s' = [c2s EXCEPT ![conn(a)] = Append(@, Head(posted[a]))]
    <3>1. \A c \in Conns : Append(c2s[c], Head(posted[a])) \in Seq(Requests)
      BY <1>2, <2>2
    <3>2. c2s' \in [Conns -> Seq(Requests)]
      BY <1>2, <2>4, <3>1
    <3> QED
      BY <1>1, <2>1, <3>2, RequestsSent
  <2> QED
    BY <1>8, <2>3, <2>4 DEF ClientWrites
<1>9. ASSUME NEW a \in Clients,
             ClientSeesCut(a) \/ ClientIo(a) \/ ClientWorks(a, MainWorks(a))
      PROVE  RequestsInv'
  <2>1. ClientMoves(a) /\ UNCHANGED c2s
    BY <1>9 DEF ClientSeesCut, ClientIo, ClientWorks, ClientMoves, Client!IoStep,
      MainWorks, Client!MainStep, channelVars
  <2> QED
    BY <1>1, <1>2, <2>1, RequestsSent
<1> QED
  BY <1>3, <1>4, <1>5, <1>6, <1>7, <1>8, <1>9, StepsOfNext DEF SystemSteps

\* Every step of the system is one of the server, or leaves the server alone.
LEMMA ServerStepOrNone ==
  RequestsInv /\ [Next]_vars => [Server!Next]_(Server!vars)
<1> SUFFICES ASSUME RequestsInv, [Next]_vars PROVE [Server!Next]_(Server!vars)
  OBVIOUS
<1>1. ASSUME NEW c \in Conns, ServerReceives(c) PROVE Server!Next
  <2>1. Head(c2s[c]) \in Server!ClientMessages
    BY <1>1 DEF ServerReceives, RequestsInv, Requests
  <2>2. Server!Receive(c)
    BY <1>1, <2>1 DEF ServerReceives, Server!Receive
  <2> QED
    BY <2>2 DEF Server!Next
<1>2. ASSUME NEW c \in Conns, ServerAccepts(c) \/ ServerSeesCut(c)
      PROVE  Server!Next
  BY <1>2 DEF ServerAccepts, ServerSeesCut, ServerWorks, Server!Next
<1>3. CASE ServerWorks(Server!FinishJob(IoThread))
  BY <1>3 DEF ServerWorks, Server!Next, Server!Threads
<1>4. CASE ServerTicks \/ PressKill
  <2>1. Server!Tick
    BY <1>4 DEF ServerTicks, PressKill, ServerWorks, Server!Tick
  <2> QED
    BY <2>1 DEF Server!Next
<1>5. CASE ServerWorks(Server!WebInput)
  BY <1>5 DEF ServerWorks, Server!Next, Server!Web
<1>6. CASE \/ \E a \in Clients :
                \/ ClientStarts(a) \/ ClientReconnects(a) \/ ClientReceives(a)
                \/ ClientWrites(a) \/ ClientSeesCut(a) \/ ClientIo(a)
                \/ ClientWorks(a, MainWorks(a)) \/ Crash(a)
           \/ \E c \in Conns : Cut(c)
           \/ UNCHANGED vars
  <2>1. UNCHANGED serverVars
    BY <1>6 DEF ClientStarts, ClientReconnects, ClientReceives, ClientWrites,
      ClientSeesCut, ClientIo, ClientWorks, Crash, Cut, ServerIdle, vars
  <2> QED
    BY <2>1 DEF serverVars, Server!vars, Server!stackVars, Server!connVars,
      Server!rendererVars, Server!defaultAppVars
<1> QED
  BY <1>1, <1>2, <1>3, <1>4, <1>5, <1>6, StepsOfNext DEF SystemSteps

\* Seen from the server, the system is the server as specified alone: the
\* processes, their reconnects and what is lost with a connection make it do
\* nothing that Server does not allow for.
THEOREM ServerIsAsAlone == Spec => Server!Spec
<1>1. Init => RequestsInv /\ Server!Init
  <2> SUFFICES ASSUME Init PROVE RequestsInv
    BY DEF Init
  <2>1. TypeOK
    BY InitTypes
  <2> QED
    BY <2>1 DEF Init, Client!Init, RequestsInv, PostsRequests
<1> QED
  BY <1>1, RequestsNext, ServerStepOrNone, PTL DEF Spec, Server!Spec

LEMMA SameWeb ==
  /\ Server!WebHello <=> S!WebHello
  /\ \A type, id : Server!WebParam(type, id) <=> S!WebParam(type, id)
  /\ Server!Shutdown <=> S!Shutdown
  /\ Server!StopDefaultApp <=> S!StopDefaultApp
  /\ Server!DefaultAppExits <=> S!DefaultAppExits
  /\ Server!Terminated <=> S!Terminated
BY DEF
    Server!Msg, Server!stackVars, Server!connVars, Server!rendererVars,
    Server!defaultAppVars, Server!vars, Server!Quiet, Server!To, Server!IsLast,
    Server!IsTop, Server!IsFirstWith, Server!WebHello, Server!WebParam,
    Server!Shutdown, Server!StopDefaultApp, Server!DefaultAppExits,
    Server!Terminated, S!Msg, S!stackVars, S!connVars, S!rendererVars,
    S!defaultAppVars, S!vars, S!Quiet, S!To, S!IsLast, S!IsTop, S!IsFirstWith,
    S!WebHello, S!WebParam, S!Shutdown, S!StopDefaultApp, S!DefaultAppExits,
    S!Terminated

LEMMA SameClientMessages == Server!ClientMessages = S!ClientMessages
BY DEF Server!ClientMessages, Server!Message, Server!ClientTypes, Server!ServerTypes,
  Server!Ids, Server!Levels, S!ClientMessages, S!Message, S!ClientTypes,
  S!ServerTypes, S!Ids, S!Levels

LEMMA SameNext == [Server!Next]_(Server!vars) <=> [S!Next]_(S!vars)
<1>1. \A c : Server!Receive(c) <=> S!Receive(c)
  BY SameClientMessages, SameHandler DEF Server!Receive, S!Receive
<1>2. Server!Web <=> S!Web
  BY SameRest, SameWeb DEF Server!Web, S!Web, Server!Ids, S!Ids
<1>3. Server!Tick <=> S!Tick
  BY SameTick DEF Server!Tick, S!Tick
<1>4. Server!Threads = S!Threads
  BY DEF Server!Threads, S!Threads
<1>5. Server!Next <=> S!Next
  BY <1>1, <1>2, <1>3, <1>4, SameJob, SameRest, SameWeb DEF Server!Next, S!Next
<1>6. UNCHANGED Server!vars <=> UNCHANGED S!vars
  BY DEF Server!vars, S!vars
<1> QED
  BY <1>5, <1>6

LEMMA SameInit == Server!Init <=> S!Init
BY DEF Server!Init, Server!Regs, Server!NoApp, Server!Threads, Server!NoJob,
  Server!Renderers, S!Init, S!Regs, S!NoApp, S!Threads, S!NoJob, S!Renderers

LEMMA AloneBySockets == Spec => S!Spec
BY ServerIsAsAlone, SameInit, SameNext, PTL DEF Server!Spec, S!Spec

\* Hence what is proved of the server with applications on sockets holds in
\* the system, with messages that wait, get lost and arrive after their sender
\* has gone: a covered app has been told to pause, an approved frame is of the
\* app then on top, which the io thread has not covered since, the renderers
\* agree between frames, and no child is lost
\* (Server.cpp:164-172, 199-235, 341-407).
THEOREM ServerKeepsItsWord ==
  Spec => /\ []Server!CoveredToldToPause
          /\ []Server!OnlyOthersCoverApproved
          /\ []Server!RenderersAgree
          /\ []Server!DefaultAppTracked
<1>1. S!Sockets
  BY DEF S!Sockets
<1>2. S!Spec => []S!CoveredToldToPause
  BY <1>1, S!CoveredIsTold, SidesAssumptions
<1>3. S!Spec => []S!OnlyOthersCoverApproved
  BY S!OnlyOthersCover, SidesAssumptions
<1>4. S!Spec => []S!RenderersAgree
  BY <1>1, S!AgreeBetweenFrames, SidesAssumptions
<1>5. S!Spec => []S!DefaultAppTracked
  BY S!NoChildLost, SidesAssumptions
<1>6. /\ S!CoveredToldToPause => Server!CoveredToldToPause
      /\ S!OnlyOthersCoverApproved => Server!OnlyOthersCoverApproved
      /\ S!RenderersAgree => Server!RenderersAgree
      /\ S!DefaultAppTracked => Server!DefaultAppTracked
  BY DEF S!CoveredToldToPause, S!OnlyOthersCoverApproved, S!RenderersAgree,
    S!DefaultAppTracked, S!Covered, S!IsTop, S!IsLast, S!Threads, S!Renderers,
    Server!CoveredToldToPause, Server!OnlyOthersCoverApproved,
    Server!RenderersAgree, Server!DefaultAppTracked, Server!Covered,
    Server!IsTop, Server!IsLast, Server!Threads, Server!Renderers,
    S!HandlerOf, Server!HandlerOf
<1> QED
  BY <1>2, <1>3, <1>4, <1>5, <1>6, AloneBySockets, PTL

\* And whoever comes up in the system is resumed by the very step that removes
\* the app above it (Server.cpp:94-113).
THEOREM WhoComesUpIsResumed == Spec => Server!UncoveredTopIsResumed
<1>1. S!Spec => S!UncoveredTopIsResumed
  BY S!WhoComesUpIsResumed, SidesAssumptions
<1>2. [\A r \in apps : (S!Covered(r) /\ S!IsTop(r)') =>
          sent' = S!To(app[r].conn, S!Msg("appResume", app[r].id))]_(S!vars)
      => [\A r \in apps : (Server!Covered(r) /\ Server!IsTop(r)') =>
            sent' = Server!To(app[r].conn, Server!Msg("appResume", app[r].id))]_(Server!vars)
  BY DEF S!Covered, S!IsTop, S!IsLast, S!To, S!Quiet, S!Msg, S!vars,
    Server!Covered, Server!IsTop, Server!IsLast, Server!To, Server!Quiet, Server!Msg,
    Server!vars
<1> QED
  BY <1>1, <1>2, AloneBySockets, PTL
  DEF S!UncoveredTopIsResumed, Server!UncoveredTopIsResumed

\* So the system, too, implements the abstract screen: only the app on top is
\* granted it, and with a single thread no app opens while a grant is out.
THEOREM SystemImplementsArbiter == Spec => Server!Arbiter!Spec
<1>1. S!Spec => S!Arbiter!Spec
  BY S!ServerImplementsArbiter, SidesAssumptions DEF S!ImplementsArbiter
<1>2. S!Arbiter!Init => Server!Arbiter!Init
  BY DEF S!Arbiter!Init, Server!Arbiter!Init, S!Renderers, Server!Renderers,
    S!Regs, Server!Regs, S!Threads, Server!Threads, S!HandlerOf, Server!HandlerOf
<1>3. [S!Arbiter!Next]_(S!Arbiter!vars) => [Server!Arbiter!Next]_(Server!Arbiter!vars)
  BY DEF S!Arbiter!Next, S!Arbiter!vars, S!Arbiter!Open, S!Arbiter!Close,
    S!Arbiter!Grant, S!Arbiter!Show, S!Arbiter!OnTop,
    Server!Arbiter!Next, Server!Arbiter!vars, Server!Arbiter!Open,
    Server!Arbiter!Close, Server!Arbiter!Grant, Server!Arbiter!Show,
    Server!Arbiter!OnTop, S!Regs, Server!Regs, S!Renderers, Server!Renderers,
    S!Threads, Server!Threads, S!HandlerOf, Server!HandlerOf, S!Ids, Server!Ids
<1> QED
  BY <1>1, <1>2, <1>3, AloneBySockets, PTL DEF S!Arbiter!Spec, Server!Arbiter!Spec

=============================================================================
