---------------------------- MODULE MatrixSystem ----------------------------
(***************************************************************************)
(* The server and the application processes, connected by sockets: what    *)
(* one side writes the other reads in order, until the connection is cut.  *)
(* Every step is a step of Server, of MatrixApplication or of the          *)
(* environment; this module adds the two channels of each connection.      *)
(* The default application is one of the processes here; its supervision   *)
(* and the shutdown of the server are checked in Server alone.             *)
(***************************************************************************)
EXTENDS Protocol, Sequences, FiniteSets

CONSTANTS
  NoConn, IoThread, NRenderers,
  Clients, MaxPosted,
  MaxConns,     \* bound: connections a process makes, one after the other
  MaxUnread,    \* bound: unread messages beyond which nobody makes input
  Events        \* bound: what may happen in this instance

AllEvents ==
  {"tick", "button", "early", "crash", "cut", "quit", "throw", "input"}

\* <<a, n>> is the n-th connection of process a.
Conns == {<<a, n>> : a \in Clients, n \in 1..MaxConns}

ASSUME SystemAssumption ==
  /\ NoConn \notin Conns
  /\ IoThread \notin Conns
  /\ NRenderers \in Nat \ {0}
  /\ MaxPosted \in Nat
  /\ MaxConns \in Nat
  /\ MaxUnread \in Nat
  /\ Events \subseteq AllEvents

VARIABLES
  apps, app, registered, connections, dead, job, sent, shown, brightness,
  panel, tickAt, defaultAppStarted, defaultAppPid, proc, told,
  appState, appId, frameAcked, screens, mainAt, looping, ioAt, posted, connDead,
  made,         \* how many connections each process has made
  c2s, s2c,     \* written by the client, by the server, and not yet read
  cut,          \* connections that are broken
  gone          \* processes that have ended

Server == INSTANCE Server WITH
  IpcConns <- {}, DistinctIds <- TRUE, Alphabet <- ClientTypes
Client == INSTANCE MatrixApplication

serverVars == <<apps, app, registered, connections, dead, job, sent, shown,
                brightness, panel, tickAt, defaultAppStarted, defaultAppPid,
                proc, told>>
clientVars == <<appState, appId, frameAcked, screens, mainAt, looping, ioAt,
                posted, connDead>>
channelVars == <<made, c2s, s2c, cut, gone>>
vars == <<serverVars, clientVars, channelVars>>

TypeOK ==
  /\ Server!TypeOK
  /\ Client!TypeOK
  /\ made \in [Clients -> 0..MaxConns]
  /\ c2s \in [Conns -> Seq(Message)]
  /\ s2c \in [Conns -> Seq(Message)]
  /\ cut \subseteq Conns
  /\ gone \subseteq Clients

Init ==
  /\ Server!Init
  /\ Client!Init
  /\ made = [a \in Clients |-> 0]
  /\ c2s = [c \in Conns |-> <<>>]
  /\ s2c = [c \in Conns |-> <<>>]
  /\ cut = {}
  /\ gone = {}

\* The connection process a uses: the last one it has made.
conn(a) == IF made[a] = 0 THEN NoConn ELSE <<a, made[a]>>

\* Those made so far.
Used == {c \in Conns : c[2] <= made[c[1]]}

-----------------------------------------------------------------------------
(***************************************************************************)
(* The server's side.                                                      *)
(***************************************************************************)

\* What the step passed to sendMessage is written, unless nobody can read it.
Deliver ==
  s2c' = [c \in Conns |-> IF c \in cut THEN s2c[c] ELSE s2c[c] \o sent'[c]]

ServerReceives(c) ==
  /\ c2s[c] # <<>>
  /\ Server!handleRequest(c, Head(c2s[c]))
  /\ c2s' = [c2s EXCEPT ![c] = Tail(@)]
  /\ Deliver
  /\ UNCHANGED <<clientVars, made, cut, gone>>

ServerWorks(Step) ==
  /\ Step
  /\ Deliver
  /\ UNCHANGED <<clientVars, made, c2s, cut, gone>>

\* A connection is accepted once: what has died never comes back.
ServerAccepts(c) ==
  /\ c \in Used \ dead
  /\ ServerWorks(Server!newConnectionCallback(c))

\* The io thread reads to the end of what arrived or gives up before.
ServerSeesCut(c) ==
  /\ c \in cut
  /\ Server!ConnectionDies(c)
  /\ c2s' = [c2s EXCEPT ![c] = <<>>]
  /\ Deliver
  /\ UNCHANGED <<clientVars, made, cut, gone>>

ServerTicks == ServerWorks(\/ Server!TickButton(FALSE)
                           \/ Server!TickManage
                           \/ Server!TickSweep)

PressKill == ServerWorks(Server!TickButton(TRUE))

-----------------------------------------------------------------------------
(***************************************************************************)
(* The processes' side.                                                    *)
(***************************************************************************)
ServerIdle == UNCHANGED serverVars

Connect(a) ==
  /\ made[a] < MaxConns
  /\ made' = [made EXCEPT ![a] = @ + 1]

\* The constructor connects (and retries until it can); then start().
ClientStarts(a) ==
  /\ a \notin gone
  /\ conn(a) = NoConn
  /\ Connect(a)
  /\ Client!Start(a)
  /\ ServerIdle
  /\ UNCHANGED <<c2s, s2c, cut, gone>>

ClientWorks(a, Step) ==
  /\ a \notin gone
  /\ Step
  /\ ServerIdle
  /\ UNCHANGED channelVars

\* The main thread, when nothing goes wrong in loop().
ClientLoops(a) ==
  \/ ClientWorks(a, \/ Client!CreateMainThread(a)
                    \/ Client!LoopHead(a)
                    \/ Client!TakeAck(a)
                    \/ Client!TestKilled(a)
                    \/ Client!CheckAlive(a))
  \/ ClientWorks(a, Client!Draw(a) /\ looping'[a])

ClientReconnects(a) ==
  /\ a \notin gone
  /\ Client!Reconnect(a)
  /\ Connect(a)
  /\ ServerIdle
  /\ UNCHANGED <<c2s, s2c, cut, gone>>

ClientCannotReconnect(a) ==
  /\ made[a] = MaxConns
  /\ ClientWorks(a, Client!CheckFails(a))

ClientReceives(a) ==
  /\ a \notin gone
  /\ conn(a) # NoConn
  /\ s2c[conn(a)] # <<>>
  /\ Client!handleRequest(a, Head(s2c[conn(a)]))
  /\ s2c' = [s2c EXCEPT ![conn(a)] = Tail(@)]
  /\ ServerIdle
  /\ UNCHANGED <<made, c2s, cut, gone>>

ClientWrites(a) ==
  /\ a \notin gone
  /\ Client!Write(a)
  /\ c2s' = IF conn(a) \in cut THEN c2s
            ELSE [c2s EXCEPT ![conn(a)] = Append(@, Head(posted[a]))]
  /\ ServerIdle
  /\ UNCHANGED <<made, s2c, cut, gone>>

\* What was not read before the failure is lost.
ClientSeesCut(a) ==
  /\ a \notin gone
  /\ conn(a) \in cut
  /\ Client!ConnectionFails(a)
  /\ s2c' = [s2c EXCEPT ![conn(a)] = <<>>]
  /\ ServerIdle
  /\ UNCHANGED <<made, c2s, cut, gone>>

ClientIo(a) == ClientWorks(a, Client!JoinMainThread(a) \/ Client!IoRunReturns(a))

-----------------------------------------------------------------------------
(***************************************************************************)
(* What may go wrong, or just happen.                                      *)
(***************************************************************************)
Cut(c) ==
  /\ c \in Used \ cut
  /\ cut' = cut \cup {c}
  /\ UNCHANGED <<serverVars, clientVars, made, c2s, s2c, gone>>

\* A process ends; the kernel closes its connection.
Crash(a) ==
  /\ a \notin gone
  /\ conn(a) # NoConn
  /\ gone' = gone \cup {a}
  /\ cut' = cut \cup {conn(a)}
  /\ UNCHANGED <<serverVars, clientVars, made, c2s, s2c>>

RoomForInput ==
  /\ \A c \in Conns : Len(s2c[c]) + Len(c2s[c]) < MaxUnread
  /\ \A a \in Clients : Len(posted[a]) < MaxUnread

\* The last application has no id yet, and nobody anything to read.
ReplyIsDue ==
  /\ job[IoThread].step = "reply"
  /\ \A c \in Conns : s2c[c] = <<>>

\* Bound: the kill button is pressed when every process has an application on
\* the server, while little is unread or, in "early", before the last reply.
MayPress ==
  /\ RoomForInput \/ ("early" \in Events /\ ReplyIsDue)
  /\ \A a \in Clients : \E r \in apps : app[r].conn = conn(a)

Event ==
  \/ "tick" \in Events /\ ServerTicks
  \/ "button" \in Events /\ MayPress /\ PressKill
  \/ "cut" \in Events /\ \E c \in Conns : Cut(c)
  \/ "crash" \in Events /\ \E a \in Clients : Crash(a)
  \/ "throw" \in Events /\ \E a \in Clients :
       ClientWorks(a, Client!LoopThrows(a))
  \/ "quit" \in Events /\ \E a \in Clients :
       ClientWorks(a, Client!Draw(a) /\ ~looping'[a])
  \/ "input" \in Events /\ RoomForInput /\ ServerWorks(Server!WebInput)

ServerStep ==
  \/ \E t \in Server!Threads : ServerWorks(Server!FinishJob(t))
  \/ \E c \in Conns : \/ ServerReceives(c)
                      \/ ServerAccepts(c)
                      \/ ServerSeesCut(c)

ClientStep(a) ==
  \/ ClientLoops(a)
  \/ ClientReconnects(a)
  \/ ClientCannotReconnect(a)
  \/ ClientReceives(a)
  \/ ClientWrites(a)
  \/ ClientSeesCut(a)
  \/ ClientIo(a)

Next ==
  \/ ServerStep
  \/ \E a \in Clients : ClientStarts(a) \/ ClientStep(a)
  \/ Event

Spec == Init /\ [][Next]_vars

(***************************************************************************)
(* Fairness: every thread of the server and of the processes is scheduled  *)
(* and the network delivers.  Receiving is strongly fair: the connections  *)
(* share the io thread, and io_context runs what is ready in turn.         *)
(* Nothing is assumed of crashes, of the kill button or of exceptions.     *)
(***************************************************************************)
FairSpec ==
  /\ Spec
  /\ WF_vars("tick" \in Events /\ ServerTicks)
  /\ WF_vars(\E t \in Server!Threads : ServerWorks(Server!FinishJob(t)))
  /\ \A c \in Conns : /\ SF_vars(ServerReceives(c))
                      /\ WF_vars(ServerAccepts(c))
                      /\ WF_vars(ServerSeesCut(c))
  /\ \A a \in Clients : /\ WF_vars(ClientStarts(a))
                        /\ WF_vars(ClientLoops(a))
                        /\ WF_vars(ClientReceives(a))
                        /\ WF_vars(ClientWrites(a))
                        /\ WF_vars(ClientSeesCut(a))
                        /\ WF_vars(ClientIo(a))

-----------------------------------------------------------------------------
(***************************************************************************)
(* Properties.                                                             *)
(***************************************************************************)
Frames(q) == Cardinality({i \in 1..Len(q) : q[i].type = "setScreenFrame"})

One(p) == IF p THEN 1 ELSE 0

\* The frames of process a that are under way and the acknowledgements that
\* are under way or not yet used.
Credits(a) ==
  LET c == conn(a) IN
  IF c = NoConn THEN One(frameAcked[a])
  ELSE One(frameAcked[a]) + One(mainAt[a] = "draw") + Frames(posted[a])
       + Frames(c2s[c]) + Frames(s2c[c])
       + One(job[IoThread].step = "render" /\ job[IoThread].conn = c)

\* With one renderer a process has at most one frame under way: it is flow
\* controlled by the acknowledgement (MatrixApplication.cpp:134-136, 240-247,
\* Server.cpp:221-225), also after it has reconnected.
WindowOfOne == \A a \in Clients : Credits(a) <= 1

\* An acknowledgement is lost only when the server refuses a frame, when
\* loop() throws, or with the connection or the process.
CreditLostOnlyByRefusal ==
  [][\A a \in Clients : Credits(a)' < Credits(a) =>
       \/ job[IoThread].step # "refuse" /\ job'[IoThread].step = "refuse"
          /\ job'[IoThread].conn = conn(a)
       \/ mainAt[a] = "draw" /\ mainAt'[a] = "head"
       \/ conn(a) \in cut]_vars

\* Nobody draws in another's name: a frame carries the id its process was
\* given on the connection the frame travels on, also after a reconnect.
FramesAreOwn ==
  \A a \in Clients, r \in apps :
    conn(a) # NoConn =>
      \A q \in {posted[a], c2s[conn(a)]} : \A i \in 1..Len(q) :
        (q[i].type = "setScreenFrame" /\ q[i].id = app[r].id) =>
          app[r].conn = conn(a)

\* README.md:259: the client application sends the pixel data to be shown.
\* The app on top, once it runs, can: it has an acknowledgement or will get one.
TopAppCanDraw ==
  \A a \in Clients, r \in apps :
    (/\ app[r].conn = conn(a) /\ Server!IsTop(r)
     /\ appState[a] = "running" /\ mainAt[a] # "over"
     /\ a \notin gone /\ conn(a) \notin cut) => Credits(a) # 0

\* The application of process a, which registers once on a connection, is
\* on top, or is not.
OnTop(a) == \E r \in apps : app[r].conn = conn(a) /\ Server!IsTop(r)
Covered(a) == \E r \in apps : app[r].conn = conn(a) /\ ~Server!IsTop(r)

\* The application that stays on top draws frame after frame: each of its
\* frames is acknowledged (Server.cpp:221-225) and no pause meant for an
\* earlier moment stops it.  Claimed while no application has left the server,
\* this one is not told to end and loop() does not end it.
TopAppDrawsAgain ==
  \A a \in Clients :
    <>[](/\ OnTop(a) /\ apps = 1..registered
         /\ appState[a] # "killed" /\ mainAt[a] # "over") =>
      []<>(mainAt[a] = "draw")

\* An application that is covered stops: what it still sends is refused, and
\* the refusal pauses it, even when the pause of registerApp came too early,
\* unless its loop() has ended it before.
CoveredAppPauses ==
  \A a \in Clients :
    Covered(a) ~>
      (~Covered(a) \/ appState[a] \in {"paused", "killed"} \/ mainAt[a] = "over")

\* An app that answers appKill leaves the stack, with two exceptions.  The
\* answer names another app than the one on the server: id 0, when the appKill
\* of tick overtook the reply to registerApp, which is sent after appsMutex is
\* given up (Server.cpp:175-180, 327-334), or the id of before a reconnect.  The
\* server then erases nothing, and as main() of MainMenu sleeps on, so does the
\* connection.  Or the thread that would write the answer joins a main thread
\* that waits for an acknowledgement only that thread could take
\* (MatrixApplication.cpp:231-239).
KilledAppLeaves ==
  \A a \in Clients, r \in Regs :
    (/\ r \in apps /\ app[r].conn = conn(a)
     /\ \E i \in 1..Len(posted[a]) : posted[a][i].type = "appKill") ~>
      \/ r \notin apps
      \/ \E i \in 1..Len(posted[a]) :
           posted[a][i].type = "appKill" /\ posted[a][i].id # r
      \/ ioAt[a] = "join" /\ mainAt[a] = "wait" /\ ~frameAcked[a]

=============================================================================
