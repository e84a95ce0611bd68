-------------------------- MODULE SocketConnection --------------------------
(***************************************************************************)
(* One direction of a socket (common/SocketConnection.cpp): threads that   *)
(* call sendMessage, the io_context of the sending side with its write     *)
(* queue, the byte stream, and the reads of the receiving side, which cut  *)
(* the stream where they like and put the messages together again (Cobs).  *)
(*                                                                         *)
(* Everything but sendMessage runs on the io thread of its side, one       *)
(* completion handler at a time.  encode is a function of the message and  *)
(* is applied here when the message enters the write queue.                *)
(***************************************************************************)
EXTENDS Cobs

CONSTANTS
  Messages,     \* serialized messages
  QueueLimit,   \* 100: what is not yet written beyond it is dropped
  RecvBuffer,   \* RECEIVE_BUFFER_SIZE
  MaxSent       \* bound: messages sent in a behaviour

ASSUME ConnectionAssumption ==
  /\ Messages \subseteq Seq(Bytes) \ {<<>>}
  /\ QueueLimit \in Nat
  /\ RecvBuffer \in Nat \ {0}
  /\ MaxSent \in Nat

VARIABLES
  posted,        \* messages posted to the io_context
  write_queue,   \* encoded messages to be written, the first being written
  is_writing,
  writes,        \* async_writes that are not completed
  senderDead,    \* dead, of the sending side
  stream,        \* bytes written and not yet read
  broken,        \* the connection does not carry any more
  buffer,        \* the decoder's internalStreamBuffer
  reading,       \* an async_read_some is pending
  receiverDead,  \* dead, of the receiving side
  sends,         \* bound: calls of sendMessage so far
  accepted,      \* history: the messages that entered the write queue
  handled        \* history: the messages receiveCallback was called with

senderVars == <<posted, write_queue, is_writing, writes, senderDead>>
receiverVars == <<buffer, reading, receiverDead>>
vars == <<senderVars, stream, broken, receiverVars, sends, accepted, handled>>

TypeOK ==
  /\ posted \in Seq(Messages)
  /\ write_queue \in Seq(Seq(Bytes))
  /\ is_writing \in BOOLEAN
  /\ writes \in Nat
  /\ senderDead \in BOOLEAN
  /\ stream \in Seq(Bytes)
  /\ broken \in BOOLEAN
  /\ buffer \in Seq(Bytes)
  /\ reading \in BOOLEAN
  /\ receiverDead \in BOOLEAN
  /\ sends \in 0..MaxSent
  /\ accepted \in Seq(Messages)
  /\ handled \in Seq(Messages)

\* Connected, and startReceiving called on the receiving side.
Init ==
  /\ posted = <<>>
  /\ write_queue = <<>>
  /\ is_writing = FALSE
  /\ writes = 0
  /\ senderDead = FALSE
  /\ stream = <<>>
  /\ broken = FALSE
  /\ buffer = <<>>
  /\ reading = TRUE
  /\ receiverDead = FALSE
  /\ sends = 0
  /\ accepted = <<>>
  /\ handled = <<>>

-----------------------------------------------------------------------------
\* Any thread: the rest is left to the io thread.
sendMessage(m) ==
  /\ sends < MaxSent
  /\ sends' = sends + 1
  /\ posted' = Append(posted, m)
  /\ UNCHANGED <<write_queue, is_writing, writes, senderDead, stream, broken,
                 receiverVars, accepted, handled>>

doWrite == is_writing' = TRUE /\ writes' = writes + 1

\* Fault variant of MayStart: whether a write is under way is not asked.
MayStartAlways == TRUE

MayStart == write_queue = <<>> /\ ~is_writing

\* The posted handler: drop the message or queue it, and see that it goes.
Enqueue ==
  /\ posted # <<>>
  /\ posted' = Tail(posted)
  /\ IF Len(write_queue) > QueueLimit
     THEN UNCHANGED <<write_queue, is_writing, writes, accepted>>
     ELSE /\ write_queue' = Append(write_queue, encode(Head(posted)))
          /\ accepted' = Append(accepted, Head(posted))
          /\ IF MayStart THEN doWrite ELSE UNCHANGED <<is_writing, writes>>
  /\ UNCHANGED <<senderDead, stream, broken, receiverVars, sends, handled>>

\* Fault variant of NextWrite: what was queued meanwhile is not written.
NextWriteForgotten ==
  /\ write_queue' = Tail(write_queue)
  /\ is_writing' = FALSE
  /\ writes' = writes - 1

\* The end of handleWrite: pop, and write the next one or rest.
NextWrite ==
  /\ write_queue' = Tail(write_queue)
  /\ is_writing' = (Tail(write_queue) # <<>>)
  /\ writes' = writes - 1 + IF is_writing' THEN 1 ELSE 0

\* async_write has written the whole message.
Written ==
  /\ writes > 0
  /\ ~broken
  /\ stream' = stream \o Head(write_queue)
  /\ NextWrite
  /\ UNCHANGED <<posted, senderDead, broken, receiverVars, sends, accepted,
                 handled>>

\* ... or failed: the connection is dead, and the queue is worked off.
WriteFails ==
  /\ writes > 0
  /\ broken
  /\ senderDead' = TRUE
  /\ NextWrite
  /\ UNCHANGED <<posted, stream, broken, receiverVars, sends, accepted, handled>>

-----------------------------------------------------------------------------
\* One packet of handleRead's loop: what does not parse is left out.
ParsePacket(messages, packet) ==
  IF packet \in Messages THEN Append(messages, packet) ELSE messages

\* async_read_some returns what has arrived, or the first n bytes of it.
handleRead(n) ==
  LET result == insertBytes(buffer, SubSeq(stream, 1, n)) IN
  /\ reading
  /\ n \in 1..RecvBuffer
  /\ n <= Len(stream)
  /\ stream' = SubSeq(stream, n + 1, Len(stream))
  /\ buffer' = result.buffer
  /\ handled' = Run(ParsePacket, handled, result.packets)
  /\ UNCHANGED <<senderVars, broken, reading, receiverDead, sends, accepted>>

\* The read fails, however much of the stream is still unread.
ReadFails ==
  /\ reading
  /\ broken
  /\ reading' = FALSE
  /\ receiverDead' = TRUE
  /\ UNCHANGED <<senderVars, stream, broken, buffer, sends, accepted, handled>>

Break ==
  /\ ~broken
  /\ broken' = TRUE
  /\ UNCHANGED <<senderVars, stream, receiverVars, sends, accepted, handled>>

-----------------------------------------------------------------------------
Write == Written \/ WriteFails
Read == ReadFails \/ \E n \in 1..RecvBuffer : handleRead(n)

Next ==
  \/ \E m \in Messages : sendMessage(m)
  \/ Enqueue
  \/ Written
  \/ WriteFails
  \/ \E n \in 1..RecvBuffer : handleRead(n)
  \/ ReadFails
  \/ Break

Spec == Init /\ [][Next]_vars

\* Fairness: both io threads run what is ready.  Nothing is assumed of those
\* who send and of when the connection breaks.
FairSpec == Spec /\ WF_vars(Enqueue) /\ WF_vars(Write) /\ WF_vars(Read)

-----------------------------------------------------------------------------
(***************************************************************************)
(* Properties.                                                             *)
(***************************************************************************)

\* Never are two async_writes under way, whose bytes would mix in the stream,
\* and never is one missing while something is queued: the handlers of
\* sendMessage and handleWrite (SocketConnection.cpp:63-73, 94-99) both start
\* writes and decide it by is_writing and write_queue.
OneWriteAtATime ==
  /\ writes = IF is_writing THEN 1 ELSE 0
  /\ is_writing <=> write_queue # <<>>

\* However the reads cut the stream, the receiver handles the messages that
\* entered the queue, unchanged, in order, each once, up to some point: the
\* decoder (Cobs.cpp:74-102) loses and invents nothing.
HandledInOrder == IsPrefix(handled, accepted)

\* The decoder holds at most the beginning of one message, so that its limit
\* (Cobs.cpp:78-82), which would tear a message, is not met by messages that
\* are shorter than it by a read.
BufferHoldsOneMessage ==
  buffer # <<>> => \E m \in Messages : IsStrictPrefix(buffer, encode(m))

\* What entered the queue is handled in the end, unless the connection fails.
AcceptedIsHandled ==
  \A k \in 1..MaxSent :
    Len(accepted) >= k ~> (Len(handled) >= k \/ receiverDead)

\* What the decoder's limit asks: it leaves room for a full read beside what
\* there can be of a message that is not complete (Cobs.cpp:78).
MessagesFit ==
  /\ RecvBuffer <= MaxStream
  /\ \A m \in Messages : Len(encode(m)) - 1 + RecvBuffer <= MaxStream

\* For all strings over Bytes of up to so many bytes: decoding undoes encoding,
\* and the encoded string has its only zero at its end (Cobs.cpp:104-151).
RoundTrip(n) ==
  \A s \in BoundedSeq(Bytes, n) :
    /\ decode(encode(s)) = s
    /\ \A i \in 1..Len(encode(s)) : encode(s)[i] = 0 <=> i = Len(encode(s))

\* Decoding undoes encoding (Cobs.cpp:104-151) for all strings that are long
\* enough for two full blocks and a byte.  It is a fact about no state in
\* particular and looked at in the first one.
CodecRoundTrip == sends = 0 /\ stream = <<>> => RoundTrip(2 * MaxCode - 1)

=============================================================================
