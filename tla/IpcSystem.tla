------------------------------ MODULE IpcSystem ------------------------------
(***************************************************************************)
(* The server and application processes that are connected by message      *)
(* queues (common/IpcConnection.cpp, common/IpcServer.cpp).  A queue has   *)
(* QueueSize places.  Whoever sends waits for a free one, and a thread of  *)
(* the server may do so while it holds appsMutex: then every handler that  *)
(* needs the mutex waits with it.  The server has a thread for each        *)
(* connection, one for the main loop, one for the web client and the io    *)
(* thread for applications on sockets, the Others, of which only the       *)
(* registering, drawing and leaving is modelled here.                      *)
(*                                                                         *)
(* A process has one connection, named after it.  A queue outlives the     *)
(* process at its other end: neither side notices that the other is gone.  *)
(* The steps are those of Server and MatrixApplication; this module adds   *)
(* the queues, what a thread has in its hand and cannot put yet, and who   *)
(* holds the mutex meanwhile.                                              *)
(***************************************************************************)
EXTENDS Protocol, Sequences, FiniteSets

CONSTANTS
  Clients, NoConn, IoThread, NRenderers, MaxPosted,
  Others,       \* connections of applications on sockets
  QueueSize,    \* places of a message queue (10 in the code)
  MaxAsked,     \* bound: unread questions beyond which the web client waits
  Events        \* bound: what may happen in this instance

ASSUME IpcAssumption ==
  /\ Clients \cap Others = {}
  /\ {NoConn, IoThread} \cap (Clients \cup Others) = {}
  /\ NRenderers \in Nat \ {0} /\ MaxPosted \in Nat
  /\ QueueSize \in Nat \ {0} /\ MaxAsked \in Nat
  /\ Events \subseteq {"tick", "crash", "input"}

VARIABLES
  apps, app, registered, connections, dead, job, sent, shown, brightness,
  panel, tickAt, defaultAppStarted, defaultAppPid, proc, told,
  appState, appId, frameAcked, screens, mainAt, looping, ioAt, posted, connDead,
  c2s, s2c,     \* the two queues of each connection
  hand,         \* the messages a server thread waits to put into a queue
  holder,       \* the server thread that waits with appsMutex, if any
  gone          \* processes that have ended

Server == INSTANCE Server WITH
  Conns <- Clients \cup Others, IpcConns <- Clients, DistinctIds <- TRUE,
  Alphabet <- ClientTypes
Client == INSTANCE MatrixApplication

serverVars == <<apps, app, registered, connections, dead, job, sent, shown,
                brightness, panel, tickAt, defaultAppStarted, defaultAppPid,
                proc, told>>
clientVars == <<appState, appId, frameAcked, screens, mainAt, looping, ioAt,
                posted, connDead>>
vars == <<serverVars, clientVars, c2s, s2c, hand, holder, gone>>

NoThread == "none"
Threads == Clients \cup {IoThread, "main", "web"}

Pending == [to : Clients, msg : Message]

TypeOK ==
  /\ Server!TypeOK
  /\ Client!TypeOK
  /\ c2s \in [Clients -> Seq(Message)]
  /\ s2c \in [Clients -> Seq(Message)]
  /\ \A c \in Clients : Len(c2s[c]) <= QueueSize /\ Len(s2c[c]) <= QueueSize
  /\ hand \in [Threads -> Seq(Pending)]
  /\ holder \in Threads \cup {NoThread}
  /\ holder # NoThread => hand[holder] # <<>>
  /\ gone \subseteq Clients

Init ==
  /\ Server!Init
  /\ Client!Init
  /\ c2s = [c \in Clients |-> <<>>]
  /\ s2c = [c \in Clients |-> <<>>]
  /\ hand = [t \in Threads |-> <<>>]
  /\ holder = NoThread
  /\ gone = {}

HasRoom(queue) == Len(queue) < QueueSize

-----------------------------------------------------------------------------
(***************************************************************************)
(* The server's threads.                                                   *)
(***************************************************************************)

\* Thread t sends what the step has passed to sendMessage: at most one
\* message.  To a socket it never waits.  If the queue is full the thread
\* waits, with the mutex if the step is in a section under it.
Send(t, locked) ==
  \/ /\ \A c \in Clients : sent'[c] = <<>>
     /\ UNCHANGED <<s2c, hand, holder>>
  \/ \E c \in Clients :
       /\ sent'[c] # <<>>
       /\ \/ /\ HasRoom(s2c[c])
             /\ s2c' = [s2c EXCEPT ![c] = @ \o sent'[c]]
             /\ UNCHANGED <<hand, holder>>
          \/ /\ ~HasRoom(s2c[c])
             /\ hand' = [hand EXCEPT ![t] = <<[to |-> c, msg |-> Head(sent'[c])]>>]
             /\ holder' = IF locked THEN t ELSE holder
             /\ UNCHANGED s2c

\* A thread that waits does nothing else; the mutex keeps the others out.
MayRun(t, locked) == hand[t] = <<>> /\ (locked => holder = NoThread)

ServerWorks(t, locked, Step) ==
  /\ MayRun(t, locked)
  /\ Step
  /\ Send(t, locked)
  /\ UNCHANGED <<clientVars, c2s, gone>>

\* There is room at last: put the message and, if held, give up the mutex.
Put(t) ==
  /\ hand[t] # <<>>
  /\ LET p == Head(hand[t]) IN
       /\ HasRoom(s2c[p.to])
       /\ s2c' = [s2c EXCEPT ![p.to] = Append(@, p.msg)]
  /\ hand' = [hand EXCEPT ![t] = <<>>]
  /\ holder' = IF holder = t THEN NoThread ELSE holder
  /\ UNCHANGED <<serverVars, clientVars, c2s, gone>>

UnlockedTypes == {"getServerInfo", "appAlive", "requestScreenAccess", "appParamValues"}

\* readLoop of the connection takes the oldest message and handles it.
ServerReceives(c) ==
  /\ c2s[c] # <<>>
  /\ LET m == Head(c2s[c])
         locked == m.type \notin UnlockedTypes
     IN  /\ MayRun(c, locked)
         /\ Server!handleRequest(c, m)
         /\ Send(c, locked)
  /\ c2s' = [c2s EXCEPT ![c] = Tail(@)]
  /\ UNCHANGED <<clientVars, gone>>

ServerFinishes(c) == ServerWorks(c, FALSE, Server!FinishJob(c))

\* acceptLoop, on a thread of its own: the two ends exchange the names of
\* their queues.
ServerAccepts(c) ==
  /\ mainAt[c] # "off"
  /\ Server!newConnectionCallback(c)
  /\ UNCHANGED <<clientVars, c2s, s2c, hand, holder, gone>>

\* Bound: the kill button, the web client and crashes wait until all have
\* registered.
AllRegistered == registered = MaxRegs

\* Bound: the kill button is pressed when an app on a queue is on top and runs.
MayPress ==
  /\ AllRegistered
  /\ \E r \in apps : /\ Server!IsTop(r)
                      /\ app[r].conn \in Clients \ gone
                      /\ appState[app[r].conn] = "running"

\* A tick with the kill button pressed.  Any other changes nothing here, where
\* no connection dies.
TickKills == MayPress /\ ServerWorks("main", TRUE, Server!TickButton(TRUE))

\* The rest of that tick.
ServerTicks ==
  \/ ServerWorks("main", TRUE, Server!TickManage)
  \/ ServerWorks("main", FALSE, Server!TickSweep)

\* The applications on sockets, as far as the server's stack goes.
OtherConnects(o) ==
  ServerWorks(IoThread, FALSE, Server!newConnectionCallback(o))

\* What the io thread does with a message of one of them.
OtherRequests(o, m) == ServerWorks(IoThread, TRUE, Server!handleRequest(o, m))

OtherSends(o) ==
  \/ /\ \A q \in apps : app[q].conn # o
     /\ OtherRequests(o, Msg("registerApp", 0))
  \/ \E r \in apps, type \in {"setScreenFrame", "appKill"} :
       /\ app[r].conn = o
       /\ OtherRequests(o, Msg(type, app[r].id))

Asks(queue) == Cardinality({i \in 1..Len(queue) : queue[i].type = "getAppParams"})

\* The web client asks for the parameters of the app on top.
WebAsks ==
  /\ \A c \in Clients : Asks(s2c[c]) < MaxAsked
  /\ ServerWorks("web", TRUE, Server!WebParam("getAppParams", 0))

-----------------------------------------------------------------------------
(***************************************************************************)
(* The processes.  Here sendMessage is the sending thread's own call:      *)
(* posted[a] holds what the read thread and the main thread of a wait to   *)
(* put.                                                                    *)
(***************************************************************************)
OfMainThread == {"setScreenFrame"}
OfStarter == {"registerApp"}

Waits(a, types) == \E i \in 1..Len(posted[a]) : posted[a][i].type \in types

Replies == ClientTypes \ (OfMainThread \cup OfStarter)

\* A fault: the read thread waits for the other threads' messages, too.
ReaderWaitsForAll(a) == posted[a] # <<>>

\* The read thread is still sending the reply to what it received.
ReaderWaits(a) == Waits(a, Replies)

ClientWorks(a, Step) ==
  /\ a \notin gone
  /\ Step
  /\ UNCHANGED <<serverVars, c2s, s2c, hand, holder, gone>>

ClientStarts(a) == ClientWorks(a, Client!Start(a))

ClientLoops(a) ==
  /\ ~Waits(a, OfMainThread \cup OfStarter)
  /\ \/ ClientWorks(a, \/ Client!CreateMainThread(a)
                       \/ Client!LoopHead(a)
                       \/ Client!TakeAck(a)
                       \/ Client!TestKilled(a)
                       \/ Client!CheckAlive(a))
     \/ ClientWorks(a, Client!Draw(a) /\ looping'[a])

\* Each thread puts its own messages in their order.
ClientPuts(a) ==
  /\ a \notin gone
  /\ HasRoom(c2s[a])
  /\ \E i \in 1..Len(posted[a]) :
       /\ \A j \in 1..(i - 1) : (posted[a][i].type \in Replies) # (posted[a][j].type \in Replies)
       /\ c2s' = [c2s EXCEPT ![a] = Append(@, posted[a][i])]
       /\ posted' = [posted EXCEPT ![a] = SubSeq(@, 1, i - 1) \o SubSeq(@, i + 1, Len(@))]
  /\ UNCHANGED <<serverVars, appState, appId, frameAcked, screens, mainAt,
                 looping, ioAt, connDead, s2c, hand, holder, gone>>

ClientReceives(a) ==
  /\ a \notin gone
  /\ ~ReaderWaits(a)
  /\ s2c[a] # <<>>
  /\ Client!handleRequest(a, Head(s2c[a]))
  /\ s2c' = [s2c EXCEPT ![a] = Tail(@)]
  /\ UNCHANGED <<serverVars, c2s, hand, holder, gone>>

ClientJoins(a) == ~ReaderWaits(a) /\ ClientWorks(a, Client!JoinMainThread(a))

Crash(a) ==
  /\ a \notin gone
  /\ mainAt[a] # "off"
  /\ gone' = gone \cup {a}
  /\ UNCHANGED <<serverVars, clientVars, c2s, s2c, hand, holder>>

-----------------------------------------------------------------------------
Event ==
  \/ "tick" \in Events /\ (TickKills \/ ServerTicks)
  \/ "input" \in Events /\ AllRegistered /\ WebAsks
  \/ "crash" \in Events /\ AllRegistered /\ \E a \in Clients : Crash(a)

Next ==
  \/ \E t \in Threads : Put(t)
  \/ \E c \in Clients : ServerReceives(c) \/ ServerAccepts(c)
  \/ \E t \in Server!Threads : ServerFinishes(t)
  \/ \E o \in Others : OtherConnects(o) \/ OtherSends(o)
  \/ \E a \in Clients : \/ ClientStarts(a) \/ ClientLoops(a) \/ ClientPuts(a)
                        \/ ClientReceives(a) \/ ClientJoins(a)
  \/ Event

Spec == Init /\ [][Next]_vars

(***************************************************************************)
(* Fairness: every thread is scheduled.  What needs the mutex or a place   *)
(* in a queue that others want too is strongly fair: neither the mutex nor *)
(* the queues let one of those who wait starve.                            *)
(***************************************************************************)
FairSpec ==
  /\ Spec
  /\ \A t \in Threads : SF_vars(Put(t))
  /\ SF_vars(ServerTicks)
  /\ \A c \in Clients : SF_vars(ServerReceives(c)) /\ WF_vars(ServerAccepts(c))
  /\ \A t \in Server!Threads : WF_vars(ServerFinishes(t))
  /\ \A a \in Clients : /\ WF_vars(ClientStarts(a))
                        /\ WF_vars(ClientLoops(a))
                        /\ SF_vars(ClientPuts(a))
                        /\ WF_vars(ClientReceives(a))
                        /\ WF_vars(ClientJoins(a))

-----------------------------------------------------------------------------
(***************************************************************************)
(* Properties.                                                             *)
(***************************************************************************)

\* Whatever the threads do, resume is never the last word to a covered app:
\* resumeTopApp and the pause of registerApp share the lock.
CoveredNeverResumed == Server!CoveredNeverResumed

\* A frame that passed the check, which is stale once the mutex is released
\* (Server.cpp:199-205), is that of the app that was on top then.  Apps may have
\* come above it since, but only by other threads.
OnlyOthersCoverApproved == Server!OnlyOthersCoverApproved

\* The server implements ScreenArbiter with its threads, which register, render
\* and wait for places in queues independently.
ImplementsArbiter == Server!ImplementsArbiter

\* Nobody will read the queue to a: it has crashed, its read thread joins the
\* main thread, or that thread waits for a place in the full queue to the
\* server, whose thread for a waits for the mutex or for a place in turn.
Unread(a) ==
  \/ a \in gone
  \/ ioAt[a] = "join"
  \/ /\ ~HasRoom(c2s[a]) /\ Waits(a, Replies)
     /\ holder # NoThread \/ hand[a] # <<>>

\* A thread that waits with appsMutex for a place in an app's queue
\* (IpcConnection.cpp:101, Server.cpp:94-113, 164-172) gets it, and the server
\* goes on, unless nobody will read that queue.
MutexIsReleased ==
  \A a \in Clients : (holder # NoThread) ~> (holder = NoThread \/ Unread(a))

\* The application of process a, which registers once, is not on top.
Covered(a) == \E r \in apps : app[r].conn = a /\ ~Server!IsTop(r)

\* An application that is covered stops, although its registration and its
\* pause come from different threads and may overtake one another
\* (Server.cpp:176-181): what it still sends is refused.
CoveredAppPauses ==
  \A a \in Clients :
    Covered(a) ~> \/ ~Covered(a) \/ Unread(a)
                  \/ appState[a] = "paused" \/ mainAt[a] = "over"

=============================================================================
