--------------------------- MODULE RendererProofs ----------------------------
(* The browser renderer for any number of sessions, callers, frames and     *)
(* messages: see WsRenderer.                                                 *)
EXTENDS WsRenderer, FiniteSetTheorems, FunctionTheorems, SequenceTheorems,
        TLAPS

Queues == Seq(Kinds)

Places(q, kind) == {i \in 1..Len(q) : q[i] = kind}

Amount(q, kind) == Cardinality(Places(q, kind))

One(kind, k) == IF k = kind THEN 1 ELSE 0

-----------------------------------------------------------------------------
\* How many of a kind a queue holds: at most what it holds in all, ...
LEMMA AmountType ==
  ASSUME NEW q \in Queues, NEW kind
  PROVE  /\ IsFiniteSet(Places(q, kind))
         /\ Amount(q, kind) \in Nat /\ Amount(q, kind) <= Len(q)
<1>1. Len(q) \in Nat /\ Places(q, kind) \subseteq 1..Len(q)
  BY DEF Queues, Places
<1>2. IsFiniteSet(1..Len(q)) /\ Cardinality(1..Len(q)) = Len(q)
  <2>1. \A m \in Nat : IsFiniteSet(1..m) /\ Cardinality(1..m) = m
    BY FS_Interval
  <2> QED
    BY <1>1, <2>1
<1>3. IsFiniteSet(Places(q, kind)) /\ Cardinality(Places(q, kind)) <= Len(q)
  BY <1>1, <1>2, FS_Subset
<1> QED
  BY <1>3, FS_CardinalityType DEF Amount

\* ... none if it is empty, ...
LEMMA AmountEmpty ==
  ASSUME NEW kind
  PROVE  Amount(<<>>, kind) = 0
<1>1. Places(<<>>, kind) = {}
  BY DEF Places
<1> QED
  BY <1>1, FS_EmptySet DEF Amount

\* ... one more when one of the kind is appended, ...
LEMMA AmountAppend ==
  ASSUME NEW q \in Queues, NEW k \in Kinds, NEW kind
  PROVE  Amount(Append(q, k), kind) = Amount(q, kind) + One(kind, k)
<1> DEFINE n == Len(q) + 1
<1>1. /\ Len(q) \in Nat /\ Len(Append(q, k)) = n /\ Append(q, k)[n] = k
      /\ \A i \in 1..Len(q) : Append(q, k)[i] = q[i]
  BY AppendProperties DEF Queues
<1>2. IsFiniteSet(Places(q, kind)) /\ Amount(q, kind) \in Nat
  BY AmountType
<1>3. n \notin Places(q, kind)
  BY <1>1 DEF Places
<1>4. CASE k = kind
  <2>1. Places(Append(q, k), kind) = Places(q, kind) \cup {n}
    BY <1>1, <1>4 DEF Places
  <2>2. Cardinality(Places(q, kind) \cup {n}) = Cardinality(Places(q, kind)) + 1
    BY <1>2, <1>3, FS_AddElement
  <2> QED
    BY <1>4, <2>1, <2>2 DEF Amount, One
<1>5. CASE k # kind
  <2>1. Places(Append(q, k), kind) = Places(q, kind)
    BY <1>1, <1>5 DEF Places
  <2> QED
    BY <1>2, <1>5, <2>1 DEF Amount, One
<1> QED
  BY <1>4, <1>5

\* ... and one less when one is taken off.
LEMMA AmountTail ==
  ASSUME NEW q \in Queues, q # <<>>, NEW kind
  PROVE  Amount(q, kind) = Amount(Tail(q), kind) + One(kind, Head(q))
<1> DEFINE rest == Places(q, kind) \ {1}
           shift == [i \in Places(Tail(q), kind) |-> i + 1]
<1>1. /\ Len(q) \in Nat \ {0} /\ Head(q) = q[1] /\ Tail(q) \in Queues
      /\ Len(Tail(q)) = Len(q) - 1
      /\ \A i \in 1..(Len(q) - 1) : Tail(q)[i] = q[i + 1]
  BY HeadTailProperties DEF Queues
<1>2. /\ IsFiniteSet(Places(q, kind)) /\ Amount(q, kind) \in Nat
      /\ IsFiniteSet(Places(Tail(q), kind)) /\ Amount(Tail(q), kind) \in Nat
  BY <1>1, AmountType
<1>3. Cardinality(rest) = Amount(Tail(q), kind)
  <2>1. shift \in Bijection(Places(Tail(q), kind), rest)
    <3>1. \A i \in Places(Tail(q), kind) : i \in Nat /\ shift[i] = i + 1 /\ shift[i] \in rest
      BY <1>1 DEF Places
    <3>2. \A j \in rest : j - 1 \in Places(Tail(q), kind) /\ shift[j - 1] = j
      BY <1>1 DEF Places
    <3>3. shift \in [Places(Tail(q), kind) -> rest]
      BY <3>1
    <3>4. \A i, j \in Places(Tail(q), kind) : shift[i] = shift[j] => i = j
      BY <3>1
    <3> HIDE DEF shift, rest
    <3> QED
      BY <3>2, <3>3, <3>4, Fun_IsBij
  <2>2. ExistsBijection(Places(Tail(q), kind), rest)
    BY <2>1 DEF ExistsBijection
  <2> QED
    BY <1>2, <2>2, FS_Bijection DEF Amount
<1>4. Cardinality(rest) = IF 1 \in Places(q, kind) THEN Amount(q, kind) - 1 ELSE Amount(q, kind)
  BY <1>2, FS_RemoveElement DEF Amount
<1>5. 1 \in Places(q, kind) <=> Head(q) = kind
  BY <1>1 DEF Places
<1> QED
  BY <1>2, <1>3, <1>4, <1>5 DEF One

-----------------------------------------------------------------------------
\* The invariant.
Types ==
  /\ activeSession \in Sessions \cup {NoSession}
  /\ accepted \in Nat
  /\ up \in [Sessions -> BOOLEAN]
  /\ posted \in [Sessions -> Queues]
  /\ write_queue_ \in [Sessions -> Queues]
  /\ is_writing_ \in [Sessions -> BOOLEAN]
  /\ writes \in [Sessions -> Nat]
  /\ caller \in [Callers -> [session : Sessions \cup {NoSession}, kind : Kinds]]
  /\ given \in [Sessions -> Nat]
  /\ arrived \in [Sessions -> Nat]

\* A session that was not accepted yet is known to nobody.
Known(s) == s \in Nat => s <= accepted

Fresh ==
  /\ Known(activeSession)
  /\ \A t \in Callers : Known(caller[t].session)
  /\ \A s \in Sessions : s > accepted => posted[s] = <<>> /\ write_queue_[s] = <<>>

\* is_writing_ stays set when a write has failed: nothing is written any more.
Writing ==
  \A s \in Sessions :
    /\ is_writing_[s] <=> write_queue_[s] # <<>>
    /\ writes[s] = 0 \/ (writes[s] = 1 /\ write_queue_[s] # <<>>)
    /\ up[s] /\ write_queue_[s] # <<>> => writes[s] = 1

Inv == Types /\ Fresh /\ Writing /\ FramesBounded /\ NoMessageDropped

\* The two properties in these terms, now ...
LEMMA InAmounts ==
  /\ FramesBounded <=> \A s \in Sessions : Amount(write_queue_[s], "frame") <= MaxFrames + 1
  /\ NoMessageDropped <=>
       \A s \in Sessions :
         given[s] = arrived[s] + Amount(posted[s], "message") + Amount(write_queue_[s], "message")
  BY DEF FramesBounded, NoMessageDropped, FramesIn, MessagesIn, Amount, Places

\* ... and after a step.
LEMMA InAmountsNext ==
  /\ FramesBounded' <=> \A s \in Sessions : Amount(write_queue_'[s], "frame") <= MaxFrames + 1
  /\ NoMessageDropped' <=>
       \A s \in Sessions :
         given'[s] = arrived'[s] + Amount(posted'[s], "message") + Amount(write_queue_'[s], "message")
  BY DEF FramesBounded, NoMessageDropped, FramesIn, MessagesIn, Amount, Places

\* Before any session there is nothing to count.
LEMMA InvInit == Init => Inv
<1> SUFFICES ASSUME Init
             PROVE  Inv
  OBVIOUS
<1>1. <<>> \in Queues
  BY DEF Queues
<1>2. Types
  BY <1>1, WsAssumption DEF Init, Types, NoCall, Kinds
<1>3. Fresh
  BY WsAssumption DEF Init, Fresh, Known, NoCall
<1>4. Writing
  <2>1. \A s \in Sessions : ~is_writing_[s] /\ write_queue_[s] = <<>>
    BY Zenon DEF Init
  <2>2. \A s \in Sessions : writes[s] = 0
    BY DEF Init
  <2> QED
    BY <2>1, <2>2, Zenon DEF Writing
<1>5. FramesBounded /\ NoMessageDropped
  BY AmountEmpty, InAmounts, WsAssumption DEF Init
<1> QED
  BY <1>2, <1>3, <1>4, <1>5 DEF Inv

\* What is posted to an accepted session is counted as given.
LEMMA SendKeeps ==
  ASSUME Inv, NEW s \in Sessions, s <= accepted, NEW k \in Kinds, SendMsg(s, k),
         UNCHANGED <<accepted, activeSession, up, write_queue_, is_writing_, writes, arrived>>,
         \A t \in Callers : caller'[t] \in {caller[t], NoCall},
         caller' \in [Callers -> [session : Sessions \cup {NoSession}, kind : Kinds]]
  PROVE  Inv'
<1>1. /\ posted' = [posted EXCEPT ![s] = Append(posted[s], k)]
      /\ given' = [given EXCEPT ![s] = given[s] + One("message", k)]
  BY DEF SendMsg, One
<1>2. Append(posted[s], k) \in Queues /\ posted[s] \in Queues
  BY AppendProperties DEF Queues, Inv, Types
<1>3. Types'
  BY <1>1, <1>2 DEF Inv, Types, One
<1>4. Fresh'
  <2>1. \A t \in Callers : Known(caller'[t].session)
    BY WsAssumption DEF Inv, Fresh, Known, NoCall
  <2> QED
    <3>1. \A r \in Sessions : r > accepted => posted'[r] = <<>> /\ write_queue_'[r] = <<>>
      BY <1>1 DEF Inv, Types, Fresh, Sessions
    <3>2. Known(activeSession)'
      BY DEF Inv, Fresh, Known
    <3> QED
      BY <2>1, <3>1, <3>2 DEF Fresh, Known
<1>5. Writing'
  BY DEF Inv, Writing
<1>6. FramesBounded'
  BY InAmounts, InAmountsNext DEF Inv
<1>7. NoMessageDropped'
  <2> SUFFICES ASSUME NEW r \in Sessions
               PROVE  given'[r] = arrived[r] + Amount(posted'[r], "message")
                                  + Amount(write_queue_[r], "message")
    BY InAmountsNext
  <2>1. given[r] = arrived[r] + Amount(posted[r], "message") + Amount(write_queue_[r], "message")
    BY InAmounts DEF Inv
  <2>2. CASE r # s
    <3>1. given'[r] = given[r] /\ posted'[r] = posted[r]
      BY <1>1, <2>2 DEF Inv, Types
    <3> QED
      BY <2>1, <3>1
  <2>3. CASE r = s
    <3>1. posted'[s] = Append(posted[s], k) /\ given'[s] = given[s] + One("message", k)
      BY <1>1 DEF Inv, Types
    <3>2. Amount(posted'[s], "message") = Amount(posted[s], "message") + One("message", k)
      BY <1>2, <3>1, AmountAppend
    <3>3. /\ Amount(posted[s], "message") \in Nat /\ arrived[s] \in Nat
          /\ Amount(write_queue_[s], "message") \in Nat /\ One("message", k) \in Nat
      BY AmountType DEF Inv, Types, One
    <3> QED
      BY <2>1, <2>3, <3>1, <3>2, <3>3
  <2> QED
    BY <2>2, <2>3
<1> QED
  BY <1>3, <1>4, <1>5, <1>6, <1>7 DEF Inv

\* The posted handler appends and starts a write exactly if none is under way.
LEMMA EnqueueKeeps ==
  ASSUME Inv, NEW s \in Sessions, Enqueue(s)
  PROVE  Inv'
<1> DEFINE k == Head(posted[s])
<1>1. /\ posted[s] \in Queues /\ posted[s] # <<>> /\ write_queue_[s] \in Queues
      /\ posted' = [posted EXCEPT ![s] = Tail(posted[s])]
      /\ UNCHANGED <<accepted, activeSession, up, caller, given, arrived>>
  BY DEF Enqueue, Inv, Types, boundVars
<1>2. k \in Kinds /\ Tail(posted[s]) \in Queues
  BY <1>1, HeadTailProperties DEF Queues
<1>3. /\ Amount(posted[s], "message") = Amount(Tail(posted[s]), "message") + One("message", k)
      /\ s <= accepted
  BY <1>1, AmountTail DEF Inv, Types, Fresh, Sessions
<1>4. \A r \in Sessions : /\ Amount(posted[r], "message") \in Nat
                          /\ Amount(write_queue_[r], "message") \in Nat
                          /\ Amount(write_queue_[r], "frame") \in Nat
                          /\ Amount(write_queue_[r], "frame") <= Len(write_queue_[r])
  BY AmountType DEF Inv, Types
<1>5. Amount(Tail(posted[s]), "message") \in Nat
  BY <1>2, AmountType
<1>6. CASE Drop(s, k)
  <2>1. UNCHANGED <<write_queue_, is_writing_, writes>> /\ One("message", k) = 0
    BY <1>6 DEF Enqueue, Drop, One
  <2>2. Types' /\ Fresh' /\ Writing'
    BY <1>1, <1>2, <1>3, <2>1 DEF Inv, Types, Fresh, Known, Writing
  <2>3. FramesBounded'
    BY <2>1, InAmounts, InAmountsNext DEF Inv
  <2>4. NoMessageDropped'
    <3> SUFFICES ASSUME NEW r \in Sessions
                 PROVE  given[r] = arrived[r] + Amount(posted'[r], "message")
                                   + Amount(write_queue_[r], "message")
      BY <1>1, <2>1, InAmountsNext
    <3>1. given[r] = arrived[r] + Amount(posted[r], "message") + Amount(write_queue_[r], "message")
      BY InAmounts DEF Inv
    <3>2. CASE r # s
      <4>1. posted'[r] = posted[r]
        BY <1>1, <3>2 DEF Inv, Types
      <4> QED
        BY <3>1, <4>1
    <3>3. CASE r = s
      <4>1. posted'[s] = Tail(posted[s])
        BY <1>1 DEF Inv, Types
      <4>2. Amount(posted'[s], "message") = Amount(posted[s], "message")
        BY <1>3, <1>4, <1>5, <2>1, <4>1
      <4> QED
        BY <3>1, <3>3, <4>2
    <3> QED
      BY <3>2, <3>3
  <2> QED
    BY <2>2, <2>3, <2>4 DEF Inv
<1>7. CASE ~Drop(s, k)
  <2> DEFINE q == Append(write_queue_[s], k)
  <2>1. write_queue_' = [write_queue_ EXCEPT ![s] = q]
    BY <1>7 DEF Enqueue
  <2>2. q \in Queues /\ q # <<>>
    BY <1>1, <1>2, AppendProperties DEF Queues
  <2>3. /\ Amount(q, "message") = Amount(write_queue_[s], "message") + One("message", k)
        /\ Amount(q, "frame") = Amount(write_queue_[s], "frame") + One("frame", k)
    BY <1>1, <1>2, AmountAppend
  <2>4. /\ is_writing_' \in [Sessions -> BOOLEAN] /\ writes' \in [Sessions -> Nat]
        /\ is_writing_'[s] /\ writes'[s] \in {0, 1} /\ (up[s] => writes'[s] = 1)
        /\ \A r \in Sessions \ {s} : is_writing_'[r] = is_writing_[r] /\ writes'[r] = writes[r]
    <3>1. CASE MayStart(s)
      <4>1. /\ is_writing_' = [is_writing_ EXCEPT ![s] = TRUE]
            /\ writes' = [writes EXCEPT ![s] = writes[s] + 1]
        BY <1>7, <3>1 DEF Enqueue
      <4>2. writes[s] = 0
        BY <3>1 DEF MayStart, Inv, Writing
      <4> QED
        BY <4>1, <4>2 DEF Inv, Types
    <3>2. CASE ~MayStart(s)
      <4>1. UNCHANGED <<is_writing_, writes>>
        BY <1>7, <3>2 DEF Enqueue
      <4>2. is_writing_[s] /\ write_queue_[s] # <<>>
        BY <3>2 DEF MayStart, Inv, Writing
      <4>3. writes[s] \in {0, 1} /\ (up[s] => writes[s] = 1)
        BY <4>2 DEF Inv, Writing
      <4> QED
        BY <4>1, <4>2, <4>3 DEF Inv, Types
    <3> QED
      BY <3>1, <3>2
  <2> HIDE DEF q, k
  <2>5. Types' /\ Fresh'
    BY <1>1, <1>2, <1>3, <2>1, <2>2, <2>4 DEF Inv, Types, Fresh, Known
  <2>6. Writing'
    BY <1>1, <2>1, <2>2, <2>4 DEF Inv, Types, Writing
  <2>7. Amount(q, "frame") <= MaxFrames + 1
    <3>1. CASE k = "frame"
      <4>1. Len(write_queue_[s]) <= MaxFrames
        <5>1. Len(write_queue_[s]) \in Nat
          BY <1>1 DEF Queues
        <5> QED
          BY <1>7, <3>1, <5>1, WsAssumption DEF Drop
      <4> QED
        BY <1>1, <1>4, <2>3, <3>1, <4>1, WsAssumption DEF One, Queues
    <3>2. CASE k # "frame"
      BY <1>4, <2>3, <3>2, InAmounts DEF One, Inv
    <3> QED
      BY <3>1, <3>2
  <2>8. FramesBounded'
    BY <2>1, <2>7, InAmounts, InAmountsNext DEF Inv, Types
  <2>9. NoMessageDropped'
    <3>1. One("message", k) \in Nat
      BY DEF One
    <3>2. \A r \in Sessions \ {s} :
            UNCHANGED <<given[r], arrived[r], posted[r], write_queue_[r]>>
      BY <1>1, <2>1 DEF Inv, Types
    <3>3. /\ UNCHANGED <<given[s], arrived[s]>> /\ arrived[s] \in Nat
          /\ posted'[s] = Tail(posted[s]) /\ write_queue_'[s] = q
      BY <1>1, <2>1 DEF Inv, Types
    <3>4. \A r \in Sessions :
            given[r] = arrived[r] + Amount(posted[r], "message") + Amount(write_queue_[r], "message")
      BY InAmounts DEF Inv
    <3>5. given'[s] = arrived'[s] + Amount(posted'[s], "message") + Amount(write_queue_'[s], "message")
      BY <1>3, <1>4, <1>5, <2>3, <3>1, <3>3, <3>4
    <3>6. \A r \in Sessions :
            given'[r] = arrived'[r] + Amount(posted'[r], "message") + Amount(write_queue_'[r], "message")
      BY <3>2, <3>4, <3>5
    <3> QED
      BY <3>6, InAmountsNext
  <2> QED
    BY <2>5, <2>6, <2>8, <2>9 DEF Inv
<1> QED
  BY <1>6, <1>7

\* A completed write takes what was written off the queue, and starts the next.
LEMMA WriteKeeps ==
  ASSUME Inv, NEW s \in Sessions, on_write(s)
  PROVE  Inv'
<1> DEFINE q == write_queue_[s]
<1>1. /\ q \in Queues /\ q # <<>> /\ writes[s] = 1 /\ up[s]
      /\ write_queue_' = [write_queue_ EXCEPT ![s] = Tail(q)]
      /\ arrived' = [arrived EXCEPT ![s] = arrived[s] + One("message", Head(q))]
      /\ UNCHANGED <<accepted, activeSession, up, posted, caller, given>>
  BY DEF on_write, NextWrite, Inv, Types, Writing, One
<1>2. Tail(q) \in Queues
  BY <1>1, HeadTailProperties DEF Queues
<1>3. /\ is_writing_' = [is_writing_ EXCEPT ![s] = Tail(q) # <<>>]
      /\ writes' = [writes EXCEPT ![s] = IF Tail(q) # <<>> THEN 1 ELSE 0]
  BY <1>1 DEF on_write, NextWrite
<1>4. /\ Amount(q, "message") = Amount(Tail(q), "message") + One("message", Head(q))
      /\ Amount(q, "frame") = Amount(Tail(q), "frame") + One("frame", Head(q))
  BY <1>1, AmountTail
<1>5. /\ Amount(Tail(q), "message") \in Nat /\ Amount(Tail(q), "frame") \in Nat
      /\ \A r \in Sessions : /\ Amount(posted[r], "message") \in Nat
                             /\ Amount(write_queue_[r], "message") \in Nat
                             /\ Amount(write_queue_[r], "frame") \in Nat
  BY <1>2, AmountType DEF Inv, Types
<1>6. One("message", Head(q)) \in Nat /\ One("frame", Head(q)) \in Nat
  BY DEF One
<1> HIDE DEF q
<1>7. Types' /\ Fresh'
  <2>1. /\ write_queue_' \in [Sessions -> Queues] /\ arrived' \in [Sessions -> Nat]
        /\ is_writing_' \in [Sessions -> BOOLEAN] /\ writes' \in [Sessions -> Nat]
    <3>1. /\ write_queue_ \in [Sessions -> Queues] /\ arrived \in [Sessions -> Nat]
          /\ is_writing_ \in [Sessions -> BOOLEAN] /\ writes \in [Sessions -> Nat]
      BY DEF Inv, Types
    <3>2. write_queue_' \in [Sessions -> Queues]
      BY <1>1, <1>2, <3>1
    <3>3. arrived' \in [Sessions -> Nat]
      BY <1>1, <1>6, <3>1
    <3>4. is_writing_' \in [Sessions -> BOOLEAN]
      BY <1>3, <3>1
    <3>5. writes' \in [Sessions -> Nat]
      BY <1>3, <3>1
    <3> QED
      BY <3>2, <3>3, <3>4, <3>5
  <2>2. s <= accepted
    BY <1>1 DEF q, Inv, Types, Fresh, Sessions
  <2> QED
    <3>1. Types'
      BY <1>1, <2>1 DEF Inv, Types
    <3>2. \A r \in Sessions : r > accepted => posted'[r] = <<>> /\ write_queue_'[r] = <<>>
      BY <1>1, <2>2 DEF Inv, Types, Fresh, Sessions
    <3> QED
      BY <1>1, <3>1, <3>2 DEF Inv, Fresh, Known
<1>8. Writing'
  <2>1. \A r \in Sessions \ {s} : UNCHANGED <<is_writing_[r], write_queue_[r], writes[r], up[r]>>
    BY <1>1, <1>3 DEF Inv, Types
  <2>2. /\ write_queue_'[s] = Tail(q) /\ (is_writing_'[s] <=> Tail(q) # <<>>)
        /\ writes'[s] = IF Tail(q) # <<>> THEN 1 ELSE 0
    BY <1>1, <1>3 DEF Inv, Types
  <2> QED
    <3>1. /\ is_writing_'[s] <=> write_queue_'[s] # <<>>
          /\ writes'[s] = 0 \/ (writes'[s] = 1 /\ write_queue_'[s] # <<>>)
          /\ write_queue_'[s] # <<>> => writes'[s] = 1
      BY <2>2
    <3>2. \A r \in Sessions \ {s} :
            /\ is_writing_'[r] <=> write_queue_'[r] # <<>>
            /\ writes'[r] = 0 \/ (writes'[r] = 1 /\ write_queue_'[r] # <<>>)
            /\ up'[r] /\ write_queue_'[r] # <<>> => writes'[r] = 1
      BY <2>1 DEF Inv, Writing
    <3> QED
      BY <3>1, <3>2 DEF Writing
<1>9. FramesBounded'
  <2>1. Amount(Tail(q), "frame") <= MaxFrames + 1
    <3>1. Amount(q, "frame") <= MaxFrames + 1 /\ Amount(q, "frame") \in Nat
      BY <1>5, InAmounts DEF Inv, q
    <3> QED
      BY <1>4, <1>5, <1>6, <3>1, WsAssumption
  <2>2. \A r \in Sessions : write_queue_'[r] = IF r = s THEN Tail(q) ELSE write_queue_[r]
    BY <1>1 DEF Inv, Types
  <2> QED
    BY <2>1, <2>2, InAmounts, InAmountsNext DEF Inv
<1>10. NoMessageDropped'
  <2>1. \A r \in Sessions \ {s} :
          UNCHANGED <<given[r], arrived[r], posted[r], write_queue_[r]>>
    BY <1>1 DEF Inv, Types
  <2>2. /\ UNCHANGED <<given[s], posted[s]>> /\ arrived[s] \in Nat
        /\ arrived'[s] = arrived[s] + One("message", Head(q)) /\ write_queue_'[s] = Tail(q)
    BY <1>1 DEF Inv, Types
  <2>3. \A r \in Sessions :
          given[r] = arrived[r] + Amount(posted[r], "message") + Amount(write_queue_[r], "message")
    BY InAmounts DEF Inv
  <2>4. given'[s] = arrived'[s] + Amount(posted'[s], "message") + Amount(write_queue_'[s], "message")
    <3>1. given[s] = arrived[s] + Amount(posted[s], "message") + Amount(q, "message")
      BY <2>3 DEF q
    <3>2. Amount(posted[s], "message") \in Nat
      BY <1>5
    <3> QED
      BY <1>4, <1>5, <1>6, <2>2, <3>1, <3>2
  <2>5. \A r \in Sessions :
          given'[r] = arrived'[r] + Amount(posted'[r], "message") + Amount(write_queue_'[r], "message")
    BY <2>1, <2>3, <2>4
  <2> QED
    BY <2>5, InAmountsNext
<1> QED
  BY <1>7, <1>8, <1>9, <1>10 DEF Inv

\* Steps that leave the queues, and what was given and arrived, alone keep the
\* counts.
LEMMA QueuesUntouched ==
  ASSUME Inv, UNCHANGED <<posted, write_queue_, given, arrived>>, Types', Fresh', Writing'
  PROVE  Inv'
<1>1. FramesBounded' /\ NoMessageDropped'
  BY InAmounts, InAmountsNext DEF Inv
<1> QED
  BY <1>1 DEF Inv

\* Accepting, closing and handing over leave the queues alone; the rest is above.
LEMMA InvStep == Inv /\ [Next]_vars => Inv'
<1> SUFFICES ASSUME Inv, [Next]_vars
             PROVE  Inv'
  OBVIOUS
<1> USE DEF sessionVars, boundVars
<1>1. CASE UNCHANGED <<accepted, up, posted, write_queue_, is_writing_, caller, given, arrived>>
           /\ activeSession' \in {activeSession, NoSession}
           /\ writes' = writes
  <2>1. Types' /\ Fresh' /\ Writing'
    BY <1>1, WsAssumption DEF Inv, Types, Fresh, Known, Writing
  <2> QED
    BY <1>1, <2>1, QueuesUntouched
<1>2. ASSUME NEW t \in Callers, NEW kind \in Kinds, TakeSession(t, kind)
      PROVE  Inv'
  <2>1. Types' /\ Fresh' /\ Writing'
    BY <1>2 DEF TakeSession, Inv, Types, Fresh, Known, Writing
  <2> QED
    BY <1>2, <2>1, QueuesUntouched DEF TakeSession
<1>3. ASSUME NEW t \in Callers, PostToSession(t)
      PROVE  Inv'
  <2>1. /\ caller[t].session \in Sessions /\ caller[t].session <= accepted
        /\ caller[t].kind \in Kinds
    BY <1>3 DEF PostToSession, Inv, Types, Fresh, Known, Sessions
  <2>2. /\ \A u \in Callers : caller'[u] \in {caller[u], NoCall}
        /\ caller' \in [Callers -> [session : Sessions \cup {NoSession}, kind : Kinds]]
    BY <1>3 DEF PostToSession, Inv, Types, NoCall, Kinds
  <2> QED
    BY <1>3, <2>1, <2>2, SendKeeps DEF PostToSession
<1>4. ASSUME NEW s \in Sessions, on_read(s)
      PROVE  Inv'
  <2>1. activeSession \in Sessions /\ activeSession <= accepted /\ "message" \in Kinds
    BY <1>4 DEF on_read, Inv, Types, Fresh, Known, Sessions, Kinds
  <2>2. /\ \A u \in Callers : caller'[u] \in {caller[u], NoCall}
        /\ caller' \in [Callers -> [session : Sessions \cup {NoSession}, kind : Kinds]]
    BY <1>4 DEF on_read, Inv, Types
  <2> QED
    BY <1>4, <2>1, <2>2, SendKeeps DEF on_read
<1>5. ASSUME NEW s \in Sessions, Accept(s)
      PROVE  Inv'
  <2>1. Types' /\ Fresh' /\ Writing'
    BY <1>5 DEF Accept, Inv, Types, Fresh, Known, Writing, Sessions
  <2> QED
    BY <1>5, <2>1, QueuesUntouched DEF Accept
<1>6. ASSUME NEW s \in Sessions, WriteError(s)
      PROVE  Inv'
  <2>1. Types' /\ Fresh' /\ Writing'
    BY <1>6, WsAssumption DEF WriteError, onClose, Inv, Types, Fresh, Known, Writing
  <2> QED
    BY <1>6, <2>1, QueuesUntouched DEF WriteError
<1>7. ASSUME NEW s \in Sessions, BrowserLeaves(s)
      PROVE  Inv'
  <2>1. Types' /\ Fresh' /\ Writing'
    BY <1>7 DEF BrowserLeaves, Inv, Types, Fresh, Known, Writing
  <2> QED
    BY <1>7, <2>1, QueuesUntouched DEF BrowserLeaves
<1>8. CASE setClientMessageCallback \/ Stop \/ UNCHANGED vars
  BY <1>1, <1>8 DEF setClientMessageCallback, Stop, vars
<1>9. ASSUME NEW s \in Sessions, on_accept(s) \/ ReadError(s)
      PROVE  Inv'
  BY <1>1, <1>9 DEF on_accept, ReadError, onClose
<1> QED
  BY <1>2, <1>3, <1>4, <1>5, <1>6, <1>7, <1>8, <1>9, EnqueueKeeps, WriteKeeps DEF Next

\* The invariant holds at any time.
LEMMA Invariant == Spec => []Inv
<1>1. Init => Inv
  BY InvInit
<1>2. Inv /\ [Next]_vars => Inv'
  BY InvStep
<1> QED
  BY <1>1, <1>2, PTL DEF Spec

-----------------------------------------------------------------------------
\* Two writes to a browser are never under way at once and none is missing
\* while it is there, however sessions come, fail and go (WsSession.h:77-102).
THEOREM OneWriteToEach == Spec => []OneWriteAtATime
<1>1. Inv => OneWriteAtATime
  BY DEF Inv, Types, Writing, OneWriteAtATime
<1> QED
  BY <1>1, Invariant, PTL

\* A browser is never more than MaxFrames + 1 frames behind, however many
\* messages are queued in between (WsSession.h:74).
THEOREM FewFramesQueued == Spec => []FramesBounded
<1>1. Inv => FramesBounded
  BY DEF Inv
<1> QED
  BY <1>1, Invariant, PTL

\* Of the messages, which share the queue with the frames that are dropped,
\* none is lost before the browser has gone (WsSession.h:72-105).
THEOREM MessagesAreKept == Spec => []NoMessageDropped
<1>1. Inv => NoMessageDropped
  BY DEF Inv
<1> QED
  BY <1>1, Invariant, PTL

=============================================================================
