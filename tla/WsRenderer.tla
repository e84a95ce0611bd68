----------------------------- MODULE WsRenderer -----------------------------
(***************************************************************************)
(* The renderer for browsers (WebSocketSimulatorRenderer.cpp, WsSession.h):*)
(* it accepts one session after the other, remembers the active one, and   *)
(* writes to it the frames render() makes, which may be dropped, and the   *)
(* messages of the server, which may not.                                  *)
(*                                                                         *)
(* The handlers of all sessions run on the renderer's ioThread.  Callers   *)
(* are the threads of the server; render() and sendMessage() copy          *)
(* activeSession under sessionMutex and post to it after unlocking.        *)
(***************************************************************************)
EXTENDS Integers, Sequences, FiniteSets

CONSTANTS
  Callers,      \* the server's threads that render and send
  NoSession,    \* a null pointer
  MaxSessions,  \* bound: sessions in a behaviour
  MaxFrames,    \* 2: frames are dropped when more is queued
  MaxCalls      \* bound: frames and messages handed to sessions

ASSUME WsAssumption ==
  /\ MaxSessions \in Nat /\ MaxFrames \in Nat /\ MaxCalls \in Nat
  /\ NoSession \notin Nat

Sessions == 1..MaxSessions
Kinds == {"frame", "message"}

VARIABLES
  running,         \* the ioThread runs ioContext
  clientMessageCb, \* whether setClientMessageCallback was called
  activeSession,
  accepted,        \* sessions accepted so far
  phase,           \* of each session: its reading side
  up,              \* the browser of each session is there
  cb_,             \* the callback each session was made with is set
  posted,          \* what send_msg posted to each session's executor
  write_queue_, is_writing_,
  writes,          \* async_writes of each session that are not completed
  caller,          \* the session and the kind a caller is about to post
  calls,           \* bound: calls so far
  given, arrived   \* history: messages posted to and read by each browser

sessionVars == <<phase, up, cb_, posted, write_queue_, is_writing_, writes>>
boundVars == <<calls, given, arrived>>
vars == <<running, clientMessageCb, activeSession, accepted, sessionVars,
          caller, boundVars>>

NoCall == [session |-> NoSession, kind |-> "frame"]

TypeOK ==
  /\ running \in BOOLEAN
  /\ clientMessageCb \in BOOLEAN
  /\ activeSession \in Sessions \cup {NoSession}
  /\ accepted \in 0..MaxSessions
  /\ phase \in [Sessions -> {"none", "handshake", "open", "ended"}]
  /\ up \in [Sessions -> BOOLEAN]
  /\ cb_ \in [Sessions -> BOOLEAN]
  /\ posted \in [Sessions -> Seq(Kinds)]
  /\ write_queue_ \in [Sessions -> Seq(Kinds)]
  /\ is_writing_ \in [Sessions -> BOOLEAN]
  /\ writes \in [Sessions -> Nat]
  /\ caller \in [Callers -> [session : Sessions \cup {NoSession}, kind : Kinds]]
  /\ calls \in 0..MaxCalls
  /\ given \in [Sessions -> 0..MaxCalls]
  /\ arrived \in [Sessions -> 0..MaxCalls]

\* Constructed: listening, and the ioThread started.
Init ==
  /\ running = TRUE
  /\ clientMessageCb = FALSE
  /\ activeSession = NoSession
  /\ accepted = 0
  /\ phase = [s \in Sessions |-> "none"]
  /\ up = [s \in Sessions |-> FALSE]
  /\ cb_ = [s \in Sessions |-> FALSE]
  /\ posted = [s \in Sessions |-> <<>>]
  /\ write_queue_ = [s \in Sessions |-> <<>>]
  /\ is_writing_ = [s \in Sessions |-> FALSE]
  /\ writes = [s \in Sessions |-> 0]
  /\ caller = [t \in Callers |-> NoCall]
  /\ calls = 0
  /\ given = [s \in Sessions |-> 0]
  /\ arrived = [s \in Sessions |-> 0]

-----------------------------------------------------------------------------
(***************************************************************************)
(* The renderer.                                                           *)
(***************************************************************************)
setClientMessageCallback ==
  /\ clientMessageCb' = TRUE
  /\ UNCHANGED <<running, activeSession, accepted, sessionVars, caller,
                 boundVars>>

\* A browser connects: its session is the active one at once, before the
\* handshake, and has the callback as it is now.
Accept(s) ==
  /\ running
  /\ s = accepted + 1
  /\ accepted' = s
  /\ activeSession' = s
  /\ phase' = [phase EXCEPT ![s] = "handshake"]
  /\ up' = [up EXCEPT ![s] = TRUE]
  /\ cb_' = [cb_ EXCEPT ![s] = clientMessageCb]
  /\ UNCHANGED <<running, clientMessageCb, posted, write_queue_, is_writing_,
                 writes, caller, boundVars>>

\* on_close_: forgets the active session, whichever it is.
onClose == activeSession' = NoSession

SendMsg(s, kind) ==
  /\ calls < MaxCalls
  /\ calls' = calls + 1
  /\ posted' = [posted EXCEPT ![s] = Append(@, kind)]
  /\ given' = [given EXCEPT ![s] = @ + IF kind = "message" THEN 1 ELSE 0]

\* render() and sendMessage() of another thread, first half.
TakeSession(t, kind) ==
  /\ running
  /\ caller[t] = NoCall
  /\ activeSession # NoSession
  /\ caller' = [caller EXCEPT ![t] = [session |-> activeSession, kind |-> kind]]
  /\ UNCHANGED <<running, clientMessageCb, activeSession, accepted, sessionVars,
                 boundVars>>

\* ... and second half, unlocked.
PostToSession(t) ==
  /\ running
  /\ caller[t].session \in Sessions
  /\ SendMsg(caller[t].session, caller[t].kind)
  /\ caller' = [caller EXCEPT ![t] = NoCall]
  /\ UNCHANGED <<running, clientMessageCb, activeSession, accepted, phase, up,
                 cb_, write_queue_, is_writing_, writes, arrived>>

\* The destructor stops the ioContext.
Stop ==
  /\ running
  /\ running' = FALSE
  /\ UNCHANGED <<clientMessageCb, activeSession, accepted, sessionVars, caller,
                 boundVars>>

-----------------------------------------------------------------------------
(***************************************************************************)
(* A session.                                                              *)
(***************************************************************************)
on_accept(s) ==
  /\ running
  /\ phase[s] = "handshake"
  /\ \/ /\ up[s]
        /\ phase' = [phase EXCEPT ![s] = "open"]
        /\ UNCHANGED activeSession
     \/ /\ ~up[s]
        /\ phase' = [phase EXCEPT ![s] = "ended"]
        /\ onClose
  /\ UNCHANGED <<running, clientMessageCb, accepted, up, cb_, posted,
                 write_queue_, is_writing_, writes, caller, boundVars>>

\* A message of the browser the server answers: to the active session.
on_read(s) ==
  /\ running
  /\ phase[s] = "open" /\ up[s] /\ cb_[s]
  /\ activeSession # NoSession
  /\ SendMsg(activeSession, "message")
  /\ UNCHANGED <<running, clientMessageCb, activeSession, accepted, phase, up,
                 cb_, write_queue_, is_writing_, writes, caller, arrived>>

ReadError(s) ==
  /\ running
  /\ phase[s] = "open" /\ ~up[s]
  /\ phase' = [phase EXCEPT ![s] = "ended"]
  /\ onClose
  /\ UNCHANGED <<running, clientMessageCb, accepted, up, cb_, posted,
                 write_queue_, is_writing_, writes, caller, boundVars>>

\* Fault variants of Drop: messages are dropped, too; nothing is.
DropAll(s, kind) == Len(write_queue_[s]) > MaxFrames
DropNone(s, kind) == FALSE

Drop(s, kind) == kind = "frame" /\ Len(write_queue_[s]) > MaxFrames

\* Fault variant of MayStart: whether a write is under way is not asked.
MayStartAlways(s) == TRUE

MayStart(s) == write_queue_[s] = <<>> /\ ~is_writing_[s]

\* The handler send_msg posted.
Enqueue(s) ==
  LET kind == Head(posted[s]) IN
  /\ running
  /\ posted[s] # <<>>
  /\ posted' = [posted EXCEPT ![s] = Tail(@)]
  /\ IF Drop(s, kind)
     THEN UNCHANGED <<write_queue_, is_writing_, writes>>
     ELSE /\ write_queue_' = [write_queue_ EXCEPT ![s] = Append(@, kind)]
          /\ IF MayStart(s)
             THEN /\ is_writing_' = [is_writing_ EXCEPT ![s] = TRUE]
                  /\ writes' = [writes EXCEPT ![s] = @ + 1]
             ELSE UNCHANGED <<is_writing_, writes>>
  /\ UNCHANGED <<running, clientMessageCb, activeSession, accepted, phase, up,
                 cb_, caller, boundVars>>

\* Fault variant of NextWrite: what was queued meanwhile is not written.
NextWriteForgotten(s) ==
  /\ write_queue_' = [write_queue_ EXCEPT ![s] = Tail(@)]
  /\ is_writing_' = [is_writing_ EXCEPT ![s] = FALSE]
  /\ writes' = [writes EXCEPT ![s] = @ - 1]

NextWrite(s) ==
  LET more == Tail(write_queue_[s]) # <<>> IN
  /\ write_queue_' = [write_queue_ EXCEPT ![s] = Tail(@)]
  /\ is_writing_' = [is_writing_ EXCEPT ![s] = more]
  /\ writes' = [writes EXCEPT ![s] = @ - 1 + IF more THEN 1 ELSE 0]

on_write(s) ==
  /\ running
  /\ writes[s] > 0
  /\ up[s]
  /\ arrived' = [arrived EXCEPT
       ![s] = @ + IF Head(write_queue_[s]) = "message" THEN 1 ELSE 0]
  /\ NextWrite(s)
  /\ UNCHANGED <<running, clientMessageCb, activeSession, accepted, phase, up,
                 cb_, posted, caller, calls, given>>

\* A failed write closes, but leaves the queue and is_writing_ as they are.
WriteError(s) ==
  /\ running
  /\ writes[s] > 0
  /\ ~up[s]
  /\ writes' = [writes EXCEPT ![s] = @ - 1]
  /\ onClose
  /\ UNCHANGED <<running, clientMessageCb, accepted, phase, up, cb_, posted,
                 write_queue_, is_writing_, caller, boundVars>>

\* The browser closes, reloads or disappears.
BrowserLeaves(s) ==
  /\ up[s]
  /\ up' = [up EXCEPT ![s] = FALSE]
  /\ UNCHANGED <<running, clientMessageCb, activeSession, accepted, phase, cb_,
                 posted, write_queue_, is_writing_, writes, caller, boundVars>>

-----------------------------------------------------------------------------
WriteStep(s) == on_write(s) \/ WriteError(s)

Next ==
  \/ setClientMessageCallback
  \/ \E t \in Callers : \/ \E kind \in Kinds : TakeSession(t, kind)
                        \/ PostToSession(t)
  \/ \E s \in Sessions : \/ Accept(s)
                         \/ on_accept(s)
                         \/ on_read(s)
                         \/ ReadError(s)
                         \/ Enqueue(s)
                         \/ on_write(s)
                         \/ WriteError(s)
                         \/ BrowserLeaves(s)
  \/ Stop

Spec == Init /\ [][Next]_vars

\* Fairness: the ioThread runs what is ready, and reads fail in the end when
\* the browser is gone.
FairSpec ==
  /\ Spec
  /\ \A s \in Sessions : /\ WF_vars(Enqueue(s))
                         /\ WF_vars(WriteStep(s))
                         /\ WF_vars(on_accept(s))
                         /\ WF_vars(ReadError(s))

-----------------------------------------------------------------------------
(***************************************************************************)
(* Properties.                                                             *)
(***************************************************************************)
FramesIn(q) == Cardinality({i \in 1..Len(q) : q[i] = "frame"})
MessagesIn(q) == Cardinality({i \in 1..Len(q) : q[i] = "message"})

\* Two writes to one session are never under way, nor is one missing while
\* its browser is there (WsSession.h:77-81, 97-102).
OneWriteAtATime ==
  \A s \in Sessions :
    /\ writes[s] <= 1
    /\ up[s] => (writes[s] = 1 <=> write_queue_[s] # <<>>)

\* A slow browser is at most so many frames behind (WsSession.h:74), however
\* frames and messages are mixed.
FramesBounded ==
  \A s \in Sessions : FramesIn(write_queue_[s]) <= MaxFrames + 1

\* Frames are dropped for the browser's sake; messages never are: each is
\* read by the browser or still on its way.
NoMessageDropped ==
  \A s \in Sessions :
    given[s] = arrived[s] + MessagesIn(posted[s]) + MessagesIn(write_queue_[s])

\* The messages handed to a session arrive, all of them once the callers pause
\* (and they make no more than MaxCalls calls), unless the browser leaves.
MessageArrives ==
  \A s \in Sessions : []<>(arrived[s] = given[s] \/ ~up[s] \/ ~running)

=============================================================================
