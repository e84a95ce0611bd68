-------------------------- MODULE ConnectionProofs --------------------------
(***************************************************************************)
(* Proofs about SocketConnection and Cobs, for all messages, limits and    *)
(* buffers: one write at a time, decoding undoes encoding for strings of   *)
(* any length, and the messages arrive in order however the reads cut the  *)
(* stream.                                                                 *)
(***************************************************************************)
EXTENDS SocketConnection, SequenceTheorems, WellFoundedInduction, TLAPS

\* Whatever encode yields, the write queue is a sequence, and it is empty
\* exactly when no write is under way.
WriteInv ==
  /\ \E S : write_queue \in Seq(S)
  /\ is_writing \in BOOLEAN
  /\ OneWriteAtATime

\* A sequence stays one whatever is appended to it, and is then not empty.
LEMMA AppendAny ==
  ASSUME NEW q, NEW e, \E S : q \in Seq(S)
  PROVE  /\ \E S : Append(q, e) \in Seq(S)
         /\ Append(q, e) # <<>>
<1>1. PICK S : q \in Seq(S)
  OBVIOUS
<1>2. q \in Seq(S \cup {e}) /\ e \in S \cup {e}
  BY <1>1
<1>3. Append(q, e) \in Seq(S \cup {e}) /\ Append(q, e) # <<>>
  BY <1>2
<1> QED
  BY <1>3

\* The end of handleWrite keeps the invariant while a write is under way.
LEMMA NextWriteKeeps ==
  ASSUME WriteInv, writes > 0, NextWrite
  PROVE  WriteInv'
<1>1. PICK S : write_queue \in Seq(S)
  BY DEF WriteInv
<1>2. is_writing /\ writes = 1 /\ write_queue # <<>>
  BY DEF WriteInv, OneWriteAtATime
<1>3. Tail(write_queue) \in Seq(S)
  BY <1>1, <1>2
<1>4. write_queue' \in Seq(S)
  BY <1>3 DEF NextWrite
<1>5. writes' = IF is_writing' THEN 1 ELSE 0
  BY <1>2 DEF NextWrite
<1>6. is_writing' \in BOOLEAN /\ (is_writing' <=> write_queue' # <<>>)
  BY DEF NextWrite
<1> QED
  BY <1>4, <1>5, <1>6 DEF WriteInv, OneWriteAtATime

\* The posted handler keeps it: it starts a write exactly when none is under
\* way, which is when the queue was empty.
LEMMA EnqueueKeeps ==
  ASSUME WriteInv, Enqueue
  PROVE  WriteInv'
<1>1. CASE Len(write_queue) > QueueLimit
  BY <1>1 DEF WriteInv, OneWriteAtATime, Enqueue
<1>2. CASE ~(Len(write_queue) > QueueLimit)
  <2> DEFINE e == encode(Head(posted))
  <2>1. write_queue' = Append(write_queue, e)
    BY <1>2 DEF Enqueue
  <2>2. (\E S : write_queue' \in Seq(S)) /\ write_queue' # <<>>
    <3> HIDE DEF e
    <3> QED
      BY <2>1, AppendAny DEF WriteInv
  <2>3. CASE MayStart
    <3>1. is_writing' = TRUE /\ writes' = writes + 1 /\ writes = 0
      BY <1>2, <2>3 DEF Enqueue, doWrite, MayStart, WriteInv, OneWriteAtATime
    <3> QED
      BY <2>2, <3>1 DEF WriteInv, OneWriteAtATime
  <2>4. CASE ~MayStart
    <3>1. UNCHANGED <<is_writing, writes>>
      BY <1>2, <2>4 DEF Enqueue
    <3>2. is_writing /\ writes = 1
      BY <2>4 DEF MayStart, WriteInv, OneWriteAtATime
    <3> QED
      BY <2>2, <3>1, <3>2 DEF WriteInv, OneWriteAtATime
  <2> QED
    BY <2>3, <2>4
<1> QED
  BY <1>1, <1>2

LEMMA WriteInit == Init => WriteInv
<1> SUFFICES ASSUME Init PROVE WriteInv
  OBVIOUS
<1>1. write_queue \in Seq({})
  BY DEF Init
<1> QED
  BY <1>1 DEF Init, WriteInv, OneWriteAtATime

LEMMA WriteStep == WriteInv /\ [Next]_vars => WriteInv'
<1> SUFFICES ASSUME WriteInv, [Next]_vars PROVE WriteInv'
  OBVIOUS
<1>1. CASE UNCHANGED <<write_queue, is_writing, writes>>
  BY <1>1 DEF WriteInv, OneWriteAtATime
<1>2. CASE Enqueue
  BY <1>2, EnqueueKeeps
<1>3. CASE Written
  BY <1>3, NextWriteKeeps DEF Written
<1>4. CASE WriteFails
  BY <1>4, NextWriteKeeps DEF WriteFails
<1>5. ASSUME NEW m \in Messages, sendMessage(m) PROVE WriteInv'
  BY <1>5, <1>1 DEF sendMessage
<1>6. ASSUME NEW n \in 1..RecvBuffer, handleRead(n) PROVE WriteInv'
  <2>1. UNCHANGED senderVars
    BY <1>6 DEF handleRead
  <2> QED
    BY <2>1, <1>1 DEF senderVars
<1>7. CASE ReadFails
  BY <1>7, <1>1 DEF ReadFails, senderVars
<1>8. CASE Break
  BY <1>8, <1>1 DEF Break, senderVars
<1>9. CASE UNCHANGED vars
  BY <1>9, <1>1 DEF vars, senderVars
<1> QED
  BY <1>2, <1>3, <1>4, <1>5, <1>6, <1>7, <1>8, <1>9 DEF Next

\* Two async_writes are never under way at once, and none is missing: the two
\* handlers that start writes (SocketConnection.cpp:63-73, 94-99) agree.
THEOREM OneWrite == Spec => []OneWriteAtATime
<1>1. WriteInv => OneWriteAtATime
  BY DEF WriteInv
<1> QED
  BY <1>1, WriteInit, WriteStep, PTL DEF Spec

-----------------------------------------------------------------------------
(***************************************************************************)
(* Loops over a sequence.  Run is a recursive function: a proof about it   *)
(* goes by induction over the input, which is the least-number principle   *)
(* here, with the set of the inputs that a fact holds for.                 *)
(***************************************************************************)

LEMMA NatLess == IsWellFoundedOn({p \in Nat \X Nat : p[1] < p[2]}, Nat)
BY NatLessThanWellFounded DEF OpToRel

LEMMA LeastExists ==
  ASSUME NEW S \in SUBSET Nat, S # {}
  PROVE  \E k \in S : \A j \in S : k <= j
<1> DEFINE Less == {p \in Nat \X Nat : p[1] < p[2]}
<1>1. IsWellFoundedOn(Less, Nat)
  BY NatLess
<1>2. \E k \in S : \A j \in S : <<j, k>> \notin Less
  <2> HIDE DEF Less
  <2> QED
    BY <1>1, WFMin, Zenon
<1>3. \A j, k \in S : j < k => <<j, k>> \in Less
  OBVIOUS
<1>4. \A j, k \in S : ~(j < k) => k <= j
  OBVIOUS
<1> QED
  BY <1>2, <1>3, <1>4

\* Two functions that make the same steps from the same start agree.
StepAlike(N, g, h) ==
  /\ g[0] = h[0]
  /\ \A n \in 1..N : g[n - 1] = h[n - 1] => g[n] = h[n]

LEMMA Agree ==
  ASSUME NEW N \in Nat, NEW g, NEW h, StepAlike(N, g, h)
  PROVE  \A n \in 0..N : g[n] = h[n]
<1> DEFINE Bad == {n \in 0..N : g[n] # h[n]}
<1>1. SUFFICES ASSUME Bad # {} PROVE FALSE
  OBVIOUS
<1>2. PICK k \in Bad : \A j \in Bad : k <= j
  <2>1. Bad \in SUBSET Nat
    OBVIOUS
  <2> HIDE DEF Bad
  <2> QED
    BY <1>1, <2>1, LeastExists
<1>3. k \in 1..N /\ k - 1 \in 0..N /\ k - 1 \notin Bad
  BY <1>2 DEF StepAlike
<1> QED
  BY <1>2, <1>3 DEF StepAlike

\* What holds of the empty sequence, and of each one with one more element if
\* it holds of that, holds of all of them.
LEMMA SeqInduct ==
  ASSUME NEW B, NEW P, <<>> \in P,
         \A t \in Seq(B), b \in B : t \in P => Append(t, b) \in P
  PROVE  \A s \in Seq(B) : s \in P
<1> DEFINE Bad == {n \in Nat : \E t \in Seq(B) : Len(t) = n /\ t \notin P}
<1>1. SUFFICES ASSUME NEW s \in Seq(B), s \notin P PROVE FALSE
  OBVIOUS
<1>2. PICK k \in Bad : \A j \in Bad : k <= j
  <2>1. Bad \in SUBSET Nat /\ Len(s) \in Bad
    BY <1>1
  <2> HIDE DEF Bad
  <2> QED
    BY <2>1, LeastExists
<1>3. PICK t \in Seq(B) : Len(t) = k /\ t \notin P
  BY <1>2
<1>4. PICK u \in Seq(B), b \in B : t = Append(u, b)
  BY <1>3, SequenceEmptyOrAppend
<1>5. Len(u) < k /\ Len(u) \in Nat
  BY <1>3, <1>4
<1>6. u \notin P
  BY <1>3, <1>4
<1> QED
  BY <1>2, <1>5, <1>6

\* h passes the states of a loop over s whose body is F, from st on.
Passes(S, F, st, s, h) ==
  /\ h \in [0..Len(s) -> S]
  /\ h[0] = st
  /\ \A n \in 1..Len(s) : h[n] = F[<<h[n - 1], s[n]>>]

LEMMA PassesExists ==
  ASSUME NEW S, NEW B, NEW F \in [S \X B -> S], NEW st \in S
  PROVE  \A s \in Seq(B) : \E h : Passes(S, F, st, s, h)
<1> DEFINE P == {s \in Seq(B) : \E h : Passes(S, F, st, s, h)}
<1>1. <<>> \in P
  <2>1. Passes(S, F, st, <<>>, [n \in 0..0 |-> st])
    BY DEF Passes
  <2> QED
    BY <2>1
<1>2. ASSUME NEW t \in Seq(B), NEW b \in B, t \in P PROVE Append(t, b) \in P
  <2>1. PICK h : Passes(S, F, st, t, h)
    BY <1>2
  <2> DEFINE u == Append(t, b)
             g == [n \in 0..Len(u) |->
                     IF n <= Len(t) THEN h[n] ELSE F[<<h[Len(t)], b>>]]
  <2>2. u \in Seq(B) /\ Len(u) = Len(t) + 1 /\ Len(t) \in Nat
        /\ u[Len(u)] = b /\ \A n \in 1..Len(t) : u[n] = t[n]
    OBVIOUS
  <2>3. h \in [0..Len(t) -> S] /\ h[0] = st
        /\ \A n \in 1..Len(t) : h[n] = F[<<h[n - 1], t[n]>>]
    BY <2>1 DEF Passes
  <2>4. h[Len(t)] \in S
    BY <2>2, <2>3
  <2>5. F[<<h[Len(t)], b>>] \in S
    BY <2>4
  <2> HIDE DEF u
  <2>6. g \in [0..Len(u) -> S] /\ g[0] = st
    BY <2>2, <2>3, <2>5
  <2>7. ASSUME NEW n \in 1..Len(u) PROVE g[n] = F[<<g[n - 1], u[n]>>]
    <3>1. CASE n <= Len(t)
      <4>1. n \in 1..Len(t) /\ n - 1 <= Len(t) /\ n - 1 \in 0..Len(u)
            /\ n \in 0..Len(u) /\ u[n] = t[n]
        BY <3>1, <2>2
      <4>2. g[n] = h[n] /\ g[n - 1] = h[n - 1]
        BY <3>1, <4>1
      <4>3. h[n] = F[<<h[n - 1], t[n]>>]
        BY <4>1, <2>3
      <4> HIDE DEF g
      <4> QED
        BY <4>1, <4>2, <4>3
    <3>2. CASE n = Len(t) + 1
      BY <3>2, <2>2
    <3> QED
      BY <3>1, <3>2, <2>2
  <2>8. Passes(S, F, st, u, g)
    <3> HIDE DEF g
    <3> QED
      BY <2>6, <2>7 DEF Passes
  <2> QED
    BY <2>8, <2>2 DEF u
<1>3. \A s \in Seq(B) : s \in P
  <2> HIDE DEF P
  <2> QED
    BY <1>1, <1>2, SeqInduct
<1> QED
  BY <1>3

\* The state a loop reaches is a function of its input, one step per element.
Loops(S, B, F, st, G) ==
  /\ G \in [Seq(B) -> S]
  /\ G[<<>>] = st
  /\ \A s \in Seq(B), b \in B : G[Append(s, b)] = F[<<G[s], b>>]
  /\ \A s \in Seq(B) : \E h : Passes(S, F, st, s, h) /\ h[Len(s)] = G[s]

LEMMA LoopExists ==
  ASSUME NEW S, NEW B, NEW F \in [S \X B -> S], NEW st \in S
  PROVE  \E G : Loops(S, B, F, st, G)
<1> DEFINE H(s) == CHOOSE h : Passes(S, F, st, s, h)
           G == [s \in Seq(B) |-> H(s)[Len(s)]]
<1>1. ASSUME NEW s \in Seq(B) PROVE Passes(S, F, st, s, H(s))
  BY <1>1, PassesExists
<1> HIDE DEF H
<1>2. G \in [Seq(B) -> S]
  <2> SUFFICES ASSUME NEW s \in Seq(B) PROVE H(s)[Len(s)] \in S
    OBVIOUS
  <2>1. H(s) \in [0..Len(s) -> S] /\ Len(s) \in 0..Len(s)
    BY <1>1 DEF Passes
  <2> QED
    BY <2>1
<1>3. G[<<>>] = st
  <2>1. <<>> \in Seq(B) /\ Len(<<>>) = 0
    OBVIOUS
  <2>2. H(<<>>)[0] = st
    BY <2>1, <1>1 DEF Passes
  <2> QED
    BY <2>1, <2>2
<1>4. ASSUME NEW s \in Seq(B), NEW b \in B
      PROVE  G[Append(s, b)] = F[<<G[s], b>>]
  <2> DEFINE u == Append(s, b)
  <2>1. u \in Seq(B) /\ Len(u) = Len(s) + 1 /\ Len(s) \in Nat
        /\ u[Len(u)] = b /\ \A n \in 1..Len(s) : u[n] = s[n]
    OBVIOUS
  <2> HIDE DEF u
  <2>2. /\ H(s)[0] = st
        /\ \A n \in 1..Len(s) : H(s)[n] = F[<<H(s)[n - 1], s[n]>>]
    BY <1>1 DEF Passes
  <2>3. /\ H(u)[0] = st
        /\ \A n \in 1..Len(u) : H(u)[n] = F[<<H(u)[n - 1], u[n]>>]
    BY <1>1, <2>1 DEF Passes
  <2>4. ASSUME NEW n \in 1..Len(s), H(u)[n - 1] = H(s)[n - 1]
        PROVE  H(u)[n] = H(s)[n]
    <3>1. n \in 1..Len(u) /\ u[n] = s[n]
      BY <2>1
    <3>2. H(u)[n] = F[<<H(u)[n - 1], u[n]>>]
      BY <3>1, <2>3
    <3>3. H(s)[n] = F[<<H(s)[n - 1], s[n]>>]
      BY <2>2
    <3> QED
      BY <3>1, <3>2, <3>3, <2>4
  <2>5. \A n \in 0..Len(s) : H(u)[n] = H(s)[n]
    <3>1. H(u)[0] = H(s)[0] /\ Len(s) \in Nat
      BY <2>1, <2>2, <2>3
    <3>2. PICK g : g = H(u)
      OBVIOUS
    <3>3. PICK h : h = H(s)
      OBVIOUS
    <3>4. g[0] = h[0]
      BY <3>1, <3>2, <3>3
    <3>5. \A n \in 1..Len(s) : g[n - 1] = h[n - 1] => g[n] = h[n]
      BY <2>4, <3>2, <3>3, Zenon
    <3>6. StepAlike(Len(s), g, h)
      BY <3>4, <3>5 DEF StepAlike
    <3>7. \A n \in 0..Len(s) : g[n] = h[n]
      BY <3>1, <3>6, Agree
    <3> QED
      BY <3>2, <3>3, <3>7, Zenon
  <2>6. H(u)[Len(u)] = F[<<H(s)[Len(s)], b>>]
    BY <2>1, <2>3, <2>5
  <2>7. G[u] = F[<<G[s], b>>]
    BY <2>1, <2>6
  <2> QED
    BY <2>7 DEF u
<1>5. ASSUME NEW s \in Seq(B)
      PROVE  \E h : Passes(S, F, st, s, h) /\ h[Len(s)] = G[s]
  BY <1>1
<1> HIDE DEF G
<1> QED
  BY <1>2, <1>3, <1>4, <1>5 DEF Loops
-----------------------------------------------------------------------------
(***************************************************************************)
(* encode: the blocks that are finished hold no zero byte, and the one     *)
(* that is being filled is not full.                                       *)
(***************************************************************************)

EncodeStates ==
  {st \in [out : Seq(Bytes \ {0}), block : Seq(Bytes \ {0})] :
     Len(st.block) + 1 < MaxCode}

LEMMA EndBlockKeeps ==
  ASSUME NEW st \in [out : Seq(Bytes \ {0}), block : Seq(Bytes \ {0})],
         Len(st.block) + 1 <= MaxCode
  PROVE  EndBlock(st) \in EncodeStates
<1>1. Len(st.block) + 1 \in Bytes \ {0} /\ MaxCode \in Nat /\ MaxCode > 1
  BY CobsAssumption DEF Bytes
<1>2. <<Len(st.block) + 1>> \in Seq(Bytes \ {0})
  BY <1>1
<1>3. st.out \o <<Len(st.block) + 1>> \o st.block \in Seq(Bytes \ {0})
  BY <1>2
<1>4. <<>> \in Seq(Bytes \ {0}) /\ Len(<<>>) + 1 < MaxCode
  BY <1>1
<1> QED
  BY <1>3, <1>4 DEF EndBlock, EncodeStates

LEMMA EncodeByteKeeps ==
  ASSUME NEW st \in EncodeStates, NEW b \in Bytes
  PROVE  EncodeByte(st, b) \in EncodeStates
<1> DEFINE S == [out : Seq(Bytes \ {0}), block : Seq(Bytes \ {0})]
           more == [st EXCEPT !.block = Append(@, b)]
<1>1. st \in S /\ Len(st.block) + 1 < MaxCode /\ MaxCode \in Nat
  BY CobsAssumption DEF EncodeStates
<1>2. CASE b = 0
  <2>1. Len(st.block) + 1 <= MaxCode
    BY <1>1
  <2>2. EndBlock(st) \in EncodeStates
    BY <1>1, <2>1, EndBlockKeeps
  <2> QED
    BY <1>2, <2>2 DEF EncodeByte
<1>3. CASE b # 0
  <2>1. b \in Bytes \ {0}
    BY <1>3
  <2>2. Append(st.block, b) \in Seq(Bytes \ {0})
        /\ Len(Append(st.block, b)) = Len(st.block) + 1 /\ Len(st.block) \in Nat
    BY <1>1, <2>1
  <2>3. more \in S /\ more.block = Append(st.block, b)
    BY <1>1, <2>2
  <2> HIDE DEF more
  <2>4. EncodeByte(st, b) = IF IsFull(more.block) THEN EndBlock(more) ELSE more
    BY <1>3 DEF EncodeByte, more
  <2>5. CASE IsFull(more.block)
    BY <1>1, <2>2, <2>3, <2>4, <2>5, EndBlockKeeps DEF IsFull
  <2>6. CASE ~IsFull(more.block)
    BY <1>1, <2>2, <2>3, <2>4, <2>6 DEF IsFull, EncodeStates
  <2> QED
    BY <2>5, <2>6
<1> QED
  BY <1>2, <1>3

LEMMA EncodeLoop ==
  ASSUME NEW st \in EncodeStates
  PROVE  /\ Run(EncodeByte, st, <<>>) = st
         /\ \A s \in Seq(Bytes) : Run(EncodeByte, st, s) \in EncodeStates
         /\ \A s \in Seq(Bytes), b \in Bytes :
              Run(EncodeByte, st, Append(s, b)) =
                EncodeByte(Run(EncodeByte, st, s), b)
<1> DEFINE F == [p \in EncodeStates \X Bytes |-> EncodeByte(p[1], p[2])]
<1>1. F \in [EncodeStates \X Bytes -> EncodeStates]
  BY EncodeByteKeeps
<1>2. \A x \in EncodeStates, b \in Bytes : F[<<x, b>>] = EncodeByte(x, b)
  OBVIOUS
<1> HIDE DEF F
<1>0. PICK G : Loops(EncodeStates, Bytes, F, st, G)
  BY <1>1, LoopExists
<1>3. /\ G \in [Seq(Bytes) -> EncodeStates]
      /\ G[<<>>] = st
      /\ \A s \in Seq(Bytes), b \in Bytes : G[Append(s, b)] = F[<<G[s], b>>]
  BY <1>0 DEF Loops
<1>4. ASSUME NEW s \in Seq(Bytes) PROVE Run(EncodeByte, st, s) = G[s]
  <2> DEFINE Is(g) == g = [n \in 0..Len(s) |->
                             IF n = 0 THEN st ELSE EncodeByte(g[n - 1], s[n])]
             g == CHOOSE x : Is(x)
  <2>1. PICK h : Passes(EncodeStates, F, st, s, h) /\ h[Len(s)] = G[s]
    BY <1>0 DEF Loops
  <2>0. /\ h \in [0..Len(s) -> EncodeStates] /\ h[0] = st /\ Len(s) \in Nat
        /\ \A n \in 1..Len(s) : h[n] = F[<<h[n - 1], s[n]>>]
    BY <2>1 DEF Passes
  <2>2. ASSUME NEW n \in 1..Len(s) PROVE h[n] = EncodeByte(h[n - 1], s[n])
    <3>1. n - 1 \in 0..Len(s) /\ h[n - 1] \in EncodeStates /\ s[n] \in Bytes
      BY <2>0
    <3> QED
      BY <3>1, <2>0, <1>2
  <2>3. Is(h)
    BY <2>0, <2>2
  <2>4. Is(g)
    <3> HIDE DEF Is
    <3> QED
      BY <2>3
  <2>5. Run(EncodeByte, st, s) = g[Len(s)]
    BY DEF Run
  <2> HIDE DEF g
  <2>6. g[0] = st /\ \A n \in 1..Len(s) : g[n] = EncodeByte(g[n - 1], s[n])
    BY <2>0, <2>4
  <2>7. \A n \in 1..Len(s) : g[n - 1] = h[n - 1] => g[n] = h[n]
    BY <2>2, <2>6
  <2>8. g[0] = h[0] /\ Len(s) \in Nat
    BY <2>0, <2>6
  <2> HIDE DEF Is
  <2>9. StepAlike(Len(s), g, h)
    BY <2>7, <2>8 DEF StepAlike
  <2>10. \A n \in 0..Len(s) : g[n] = h[n]
    BY <2>8, <2>9, Agree
  <2> QED
    BY <2>1, <2>0, <2>5, <2>10
<1>5. Run(EncodeByte, st, <<>>) = st
  <2>1. <<>> \in Seq(Bytes)
    OBVIOUS
  <2> QED
    BY <2>1, <1>3, <1>4, Zenon
<1>6. \A s \in Seq(Bytes) : Run(EncodeByte, st, s) \in EncodeStates
  BY <1>3, <1>4
<1>7. ASSUME NEW s \in Seq(Bytes), NEW b \in Bytes
      PROVE  Run(EncodeByte, st, Append(s, b)) =
               EncodeByte(Run(EncodeByte, st, s), b)
  <2>1. Append(s, b) \in Seq(Bytes)
    OBVIOUS
  <2>2. G[s] \in EncodeStates /\ G[Append(s, b)] = F[<<G[s], b>>]
    BY <1>3
  <2> QED
    BY <2>1, <2>2, <1>2, <1>4
<1> QED
  BY <1>5, <1>6, <1>7

-----------------------------------------------------------------------------
(***************************************************************************)
(* decode: what the decoder has in hand after each byte.                   *)
(***************************************************************************)

DecodeStates == [code : Int, left : Nat, text : Seq(Bytes)]

LEMMA EndOfBlockType ==
  ASSUME NEW st \in DecodeStates
  PROVE  EndOfBlock(st) \in Seq(Bytes)
<1>1. 0 \in Bytes
  BY CobsAssumption DEF Bytes
<1> QED
  BY <1>1 DEF EndOfBlock, DecodeStates

LEMMA DecodeByteKeeps ==
  ASSUME NEW st \in DecodeStates, NEW b \in Bytes
  PROVE  DecodeByte(st, b) \in DecodeStates
<1>1. b \in Nat
  BY CobsAssumption DEF Bytes
<1>2. CASE st.left > 0
  <2>1. Append(st.text, b) \in Seq(Bytes) /\ st.left - 1 \in Nat
    BY <1>2 DEF DecodeStates
  <2>2. [st EXCEPT !.text = Append(@, b), !.left = @ - 1] \in DecodeStates
    BY <2>1 DEF DecodeStates
  <2> QED
    BY <1>2, <2>2 DEF DecodeByte
<1>3. CASE ~(st.left > 0)
  <2>1. (IF b = 0 THEN 0 ELSE b - 1) \in Nat
    BY <1>1
  <2> QED
    BY <1>1, <1>3, <2>1, EndOfBlockType DEF DecodeByte, DecodeStates
<1> QED
  BY <1>2, <1>3

LEMMA DecodeLoop ==
  ASSUME NEW st \in DecodeStates
  PROVE  /\ Run(DecodeByte, st, <<>>) = st
         /\ \A s \in Seq(Bytes) : Run(DecodeByte, st, s) \in DecodeStates
         /\ \A s \in Seq(Bytes), b \in Bytes :
              Run(DecodeByte, st, Append(s, b)) =
                DecodeByte(Run(DecodeByte, st, s), b)
<1> DEFINE F == [p \in DecodeStates \X Bytes |-> DecodeByte(p[1], p[2])]
<1>1. F \in [DecodeStates \X Bytes -> DecodeStates]
  BY DecodeByteKeeps
<1>2. \A x \in DecodeStates, b \in Bytes : F[<<x, b>>] = DecodeByte(x, b)
  OBVIOUS
<1> HIDE DEF F
<1>0. PICK G : Loops(DecodeStates, Bytes, F, st, G)
  BY <1>1, LoopExists
<1>3. /\ G \in [Seq(Bytes) -> DecodeStates]
      /\ G[<<>>] = st
      /\ \A s \in Seq(Bytes), b \in Bytes : G[Append(s, b)] = F[<<G[s], b>>]
  BY <1>0 DEF Loops
<1>4. ASSUME NEW s \in Seq(Bytes) PROVE Run(DecodeByte, st, s) = G[s]
  <2> DEFINE Is(g) == g = [n \in 0..Len(s) |->
                             IF n = 0 THEN st ELSE DecodeByte(g[n - 1], s[n])]
             g == CHOOSE x : Is(x)
  <2>1. PICK h : Passes(DecodeStates, F, st, s, h) /\ h[Len(s)] = G[s]
    BY <1>0 DEF Loops
  <2>0. /\ h \in [0..Len(s) -> DecodeStates] /\ h[0] = st /\ Len(s) \in Nat
        /\ \A n \in 1..Len(s) : h[n] = F[<<h[n - 1], s[n]>>]
    BY <2>1 DEF Passes
  <2>2. ASSUME NEW n \in 1..Len(s) PROVE h[n] = DecodeByte(h[n - 1], s[n])
    <3>1. n - 1 \in 0..Len(s) /\ h[n - 1] \in DecodeStates /\ s[n] \in Bytes
      BY <2>0
    <3> QED
      BY <3>1, <2>0, <1>2
  <2>3. Is(h)
    BY <2>0, <2>2
  <2>4. Is(g)
    <3> HIDE DEF Is
    <3> QED
      BY <2>3
  <2>5. Run(DecodeByte, st, s) = g[Len(s)]
    BY DEF Run
  <2> HIDE DEF g
  <2>6. g[0] = st /\ \A n \in 1..Len(s) : g[n] = DecodeByte(g[n - 1], s[n])
    BY <2>0, <2>4
  <2>7. \A n \in 1..Len(s) : g[n - 1] = h[n - 1] => g[n] = h[n]
    BY <2>2, <2>6
  <2>8. g[0] = h[0] /\ Len(s) \in Nat
    BY <2>0, <2>6
  <2> HIDE DEF Is
  <2>9. StepAlike(Len(s), g, h)
    BY <2>7, <2>8 DEF StepAlike
  <2>10. \A n \in 0..Len(s) : g[n] = h[n]
    BY <2>8, <2>9, Agree
  <2> QED
    BY <2>1, <2>0, <2>5, <2>10
<1>5. Run(DecodeByte, st, <<>>) = st
  <2>1. <<>> \in Seq(Bytes)
    OBVIOUS
  <2> QED
    BY <2>1, <1>3, <1>4, Zenon
<1>6. \A s \in Seq(Bytes) : Run(DecodeByte, st, s) \in DecodeStates
  BY <1>3, <1>4
<1>7. ASSUME NEW s \in Seq(Bytes), NEW b \in Bytes
      PROVE  Run(DecodeByte, st, Append(s, b)) =
               DecodeByte(Run(DecodeByte, st, s), b)
  <2>1. Append(s, b) \in Seq(Bytes)
    OBVIOUS
  <2>2. G[s] \in DecodeStates /\ G[Append(s, b)] = F[<<G[s], b>>]
    BY <1>3
  <2> QED
    BY <2>1, <2>2, <1>2, <1>4
<1> QED
  BY <1>5, <1>6, <1>7
LEMMA DecodeConcat ==
  ASSUME NEW st \in DecodeStates, NEW s \in Seq(Bytes)
  PROVE  \A t \in Seq(Bytes) :
           Run(DecodeByte, st, s \o t) =
             Run(DecodeByte, Run(DecodeByte, st, s), t)
<1> DEFINE mid == Run(DecodeByte, st, s)
           P == {t \in Seq(Bytes) :
                   Run(DecodeByte, st, s \o t) = Run(DecodeByte, mid, t)}
<1>1. mid \in DecodeStates
  BY DecodeLoop
<1> HIDE DEF mid
<1>2. <<>> \in P
  <2>1. s \o <<>> = s /\ <<>> \in Seq(Bytes)
    OBVIOUS
  <2>3. Run(DecodeByte, mid, <<>>) = mid
    BY <1>1, DecodeLoop
  <2>2. Run(DecodeByte, st, s \o <<>>) = Run(DecodeByte, mid, <<>>)
    BY <2>1, <2>3 DEF mid
  <2> QED
    BY <2>1, <2>2
<1>3. ASSUME NEW t \in Seq(Bytes), NEW b \in Bytes, t \in P
      PROVE  Append(t, b) \in P
  <2>1. s \o Append(t, b) = Append(s \o t, b) /\ s \o t \in Seq(Bytes)
        /\ Append(t, b) \in Seq(Bytes)
    OBVIOUS
  <2>2. Run(DecodeByte, st, Append(s \o t, b)) =
          DecodeByte(Run(DecodeByte, st, s \o t), b)
    BY <2>1, DecodeLoop
  <2>3. Run(DecodeByte, mid, Append(t, b)) =
          DecodeByte(Run(DecodeByte, mid, t), b)
    BY <1>1, DecodeLoop
  <2>4. Run(DecodeByte, st, s \o t) = Run(DecodeByte, mid, t)
    BY <1>3
  <2>5. Run(DecodeByte, st, s \o Append(t, b)) = Run(DecodeByte, mid, Append(t, b))
    BY <2>1, <2>2, <2>3, <2>4
  <2> QED
    BY <2>1, <2>5
<1>4. \A t \in Seq(Bytes) : t \in P
  <2> HIDE DEF P
  <2> QED
    BY <1>2, <1>3, SeqInduct
<1> QED
  BY <1>4 DEF mid

\* While bytes of a block are left, they are text as they come.
LEMMA DecodeText ==
  ASSUME NEW st \in DecodeStates
  PROVE  \A t \in Seq(Bytes) :
           Len(t) <= st.left =>
             Run(DecodeByte, st, t) = [code |-> st.code, left |-> st.left - Len(t),
                                       text |-> st.text \o t]
<1> DEFINE After(t) == [code |-> st.code, left |-> st.left - Len(t),
                        text |-> st.text \o t]
           P == {t \in Seq(Bytes) :
                   Len(t) <= st.left => Run(DecodeByte, st, t) = After(t)}
<1>1. <<>> \in P
  <2>1. After(<<>>) = st /\ <<>> \in Seq(Bytes)
    BY DEF DecodeStates
  <2>2. Run(DecodeByte, st, <<>>) = st
    BY DecodeLoop
  <2> HIDE DEF After
  <2> QED
    BY <2>1, <2>2
<1>2. ASSUME NEW t \in Seq(Bytes), NEW b \in Bytes, t \in P,
             Len(Append(t, b)) <= st.left
      PROVE  Run(DecodeByte, st, Append(t, b)) = After(Append(t, b))
  <2>1. Len(Append(t, b)) = Len(t) + 1 /\ Len(t) \in Nat /\ st.left \in Nat
        /\ st.text \in Seq(Bytes)
    BY DEF DecodeStates
  <2>2. Run(DecodeByte, st, t) = After(t) /\ st.left - Len(t) > 0
    BY <1>2, <2>1
  <2>3. Run(DecodeByte, st, Append(t, b)) = DecodeByte(After(t), b)
    <3>1. Run(DecodeByte, st, Append(t, b)) = DecodeByte(Run(DecodeByte, st, t), b)
      BY DecodeLoop
    <3> QED
      BY <3>1, <2>2, Zenon
  <2>4. DecodeByte(After(t), b) =
          [code |-> st.code, left |-> (st.left - Len(t)) - 1,
           text |-> Append(st.text \o t, b)]
    BY <2>2 DEF DecodeByte
  <2>5. Append(st.text \o t, b) = st.text \o Append(t, b)
    <3>1. \A x \in Seq(Bytes) : Append(x \o t, b) = x \o Append(t, b)
      OBVIOUS
    <3> QED
      BY <2>1, <3>1
  <2>6. (st.left - Len(t)) - 1 = st.left - Len(Append(t, b))
    BY <2>1
  <2> QED
    BY <2>3, <2>4, <2>5, <2>6
<1>3. ASSUME NEW t \in Seq(Bytes), NEW b \in Bytes, t \in P
      PROVE  Append(t, b) \in P
  <2>1. Append(t, b) \in Seq(Bytes)
    OBVIOUS
  <2> QED
    BY <1>2, <1>3, <2>1
<1>4. \A t \in Seq(Bytes) : t \in P
  <2> HIDE DEF P
  <2> QED
    BY <1>1, <1>3, SeqInduct
<1> QED
  BY <1>4

\* A whole block: its code, and the bytes it announces.
LEMMA DecodeBlock ==
  ASSUME NEW st \in DecodeStates, st.left = 0,
         NEW block \in Seq(Bytes), Len(block) + 1 \in Bytes
  PROVE  Run(DecodeByte, DecodeByte(st, Len(block) + 1), block) =
           [code |-> Len(block) + 1, left |-> 0,
            text |-> EndOfBlock(st) \o block]
<1> DEFINE c == Len(block) + 1
           d == DecodeByte(st, c)
<1>1. Len(block) \in Nat
  OBVIOUS
<1>2. d = [code |-> c, left |-> Len(block), text |-> EndOfBlock(st)]
  BY <1>1 DEF DecodeByte
<1>3. d \in DecodeStates
  BY DecodeByteKeeps
<1> HIDE DEF c, d
<1>4. Len(block) <= d.left
  BY <1>1, <1>2
<1>5. Run(DecodeByte, d, block) = [code |-> d.code, left |-> d.left - Len(block),
                                   text |-> d.text \o block]
  BY <1>3, <1>4, DecodeText
<1>6. Run(DecodeByte, d, block) = [code |-> c, left |-> 0,
                                   text |-> EndOfBlock(st) \o block]
  BY <1>1, <1>2, <1>5
<1> QED
  BY <1>6 DEF c, d

-----------------------------------------------------------------------------
(***************************************************************************)
(* Decoding undoes encoding: after each byte of the input, the blocks that *)
(* are finished, decoded, and the block that is being filled are what was  *)
(* read.                                                                   *)
(***************************************************************************)

EncodeStart == [out |-> <<>>, block |-> <<>>]
DecodeStart == [code |-> NoCode, left |-> 0, text |-> <<>>]

LEMMA Starts == EncodeStart \in EncodeStates /\ DecodeStart \in DecodeStates
<1>1. <<>> \in Seq(Bytes \ {0}) /\ <<>> \in Seq(Bytes) /\ Len(<<>>) = 0
  OBVIOUS
<1>2. MaxCode \in Nat /\ MaxCode > 1
  BY CobsAssumption
<1> QED
  BY <1>1, <1>2 DEF EncodeStart, DecodeStart, EncodeStates, DecodeStates, NoCode

LEMMA EncodeRun ==
  /\ Run(EncodeByte, EncodeStart, <<>>) = EncodeStart
  /\ \A s \in Seq(Bytes) : Run(EncodeByte, EncodeStart, s) \in EncodeStates
  /\ \A s \in Seq(Bytes), b \in Bytes :
       Run(EncodeByte, EncodeStart, Append(s, b)) =
         EncodeByte(Run(EncodeByte, EncodeStart, s), b)
<1>1. PICK st \in EncodeStates : st = EncodeStart
  BY Starts
<1> QED
  BY <1>1, EncodeLoop

LEMMA DecodeRun ==
  /\ Run(DecodeByte, DecodeStart, <<>>) = DecodeStart
  /\ \A s \in Seq(Bytes) : Run(DecodeByte, DecodeStart, s) \in DecodeStates
  /\ \A s \in Seq(Bytes), b \in Bytes :
       Run(DecodeByte, DecodeStart, Append(s, b)) =
         DecodeByte(Run(DecodeByte, DecodeStart, s), b)
<1>1. PICK st \in DecodeStates : st = DecodeStart
  BY Starts
<1> QED
  BY <1>1, DecodeLoop

\* What the encoder has read, by what it has in hand.
Decoded(e) == EndOfBlock(Run(DecodeByte, DecodeStart, e.out)) \o e.block

LEMMA EndBlockDecodes ==
  ASSUME NEW e \in [out : Seq(Bytes \ {0}), block : Seq(Bytes \ {0})],
         Len(e.block) + 1 <= MaxCode,
         Run(DecodeByte, DecodeStart, e.out).left = 0
  PROVE  Run(DecodeByte, DecodeStart, EndBlock(e).out) =
           [code |-> Len(e.block) + 1, left |-> 0, text |-> Decoded(e)]
<1> DEFINE c == Len(e.block) + 1
           d == Run(DecodeByte, DecodeStart, e.out)
<1>1. e.out \in Seq(Bytes) /\ e.block \in Seq(Bytes) /\ Len(e.block) \in Nat
  OBVIOUS
<1>2. c \in Bytes /\ c \in Nat
  BY <1>1, CobsAssumption DEF Bytes
<1>3. d \in DecodeStates /\ d.left = 0
  BY <1>1, DecodeRun
<1>4. EndBlock(e).out = Append(e.out, c) \o e.block
  BY <1>1, <1>2 DEF EndBlock
<1>5. Append(e.out, c) \in Seq(Bytes)
  BY <1>1, <1>2
<1>6. Run(DecodeByte, DecodeStart, Append(e.out, c)) = DecodeByte(d, c)
  BY <1>1, <1>2, DecodeRun
<1>7. Run(DecodeByte, DecodeStart, Append(e.out, c) \o e.block) =
        Run(DecodeByte, Run(DecodeByte, DecodeStart, Append(e.out, c)), e.block)
  BY <1>1, <1>5, Starts, DecodeConcat
<1>8. Run(DecodeByte, DecodeByte(d, c), e.block) =
        [code |-> c, left |-> 0, text |-> EndOfBlock(d) \o e.block]
  BY <1>1, <1>2, <1>3, DecodeBlock
<1> QED
  BY <1>4, <1>6, <1>7, <1>8 DEF Decoded

\* The encoder's state e is right for the input s.
Faithful(e, s) ==
  /\ Run(DecodeByte, DecodeStart, e.out).left = 0
  /\ Decoded(e) = s

LEMMA EncodeByteFaithful ==
  ASSUME NEW e \in EncodeStates, NEW s \in Seq(Bytes), NEW b \in Bytes,
         Faithful(e, s)
  PROVE  Faithful(EncodeByte(e, b), Append(s, b))
<1> DEFINE S == [out : Seq(Bytes \ {0}), block : Seq(Bytes \ {0})]
           more == [e EXCEPT !.block = Append(@, b)]
           d == Run(DecodeByte, DecodeStart, e.out)
<1>1. /\ e \in S /\ Len(e.block) + 1 < MaxCode
      /\ MaxCode \in Nat /\ Len(e.block) \in Nat
  BY CobsAssumption DEF EncodeStates
<1>2. d.left = 0 /\ EndOfBlock(d) \o e.block = s
  BY DEF Faithful, Decoded
<1>3. d \in DecodeStates /\ EndOfBlock(d) \in Seq(Bytes)
  <2>1. e.out \in Seq(Bytes)
    BY <1>1
  <2>2. d \in DecodeStates
    BY <2>1, DecodeRun
  <2> HIDE DEF d
  <2> QED
    BY <2>2, EndOfBlockType
<1>4. CASE b = 0
  <2>1. EncodeByte(e, b) = EndBlock(e)
    BY <1>4 DEF EncodeByte
  <2>2. Run(DecodeByte, DecodeStart, EndBlock(e).out) =
          [code |-> Len(e.block) + 1, left |-> 0, text |-> s]
    <3>1. Len(e.block) + 1 <= MaxCode
      BY <1>1
    <3>2. d.left = 0 /\ Decoded(e) = s
      BY DEF Faithful
    <3> HIDE DEF S
    <3>3. Run(DecodeByte, DecodeStart, EndBlock(e).out) =
            [code |-> Len(e.block) + 1, left |-> 0, text |-> Decoded(e)]
      BY <1>1, <3>1, <3>2, EndBlockDecodes DEF S
    <3> QED
      BY <3>2, <3>3
  <2>3. Len(e.block) + 1 \notin {NoCode, MaxCode}
    BY <1>1 DEF NoCode
  <2>4. EndOfBlock(Run(DecodeByte, DecodeStart, EndBlock(e).out)) = Append(s, 0)
    BY <2>2, <2>3 DEF EndOfBlock
  <2>5. EndBlock(e).block = <<>> /\ Append(s, 0) \in Seq(Bytes)
        /\ Append(s, 0) \o <<>> = Append(s, 0)
    BY <1>4 DEF EndBlock
  <2> QED
    <3>1. PICK n : n = EndBlock(e)
      OBVIOUS
    <3>2. Run(DecodeByte, DecodeStart, n.out).left = 0
      BY <2>2, <3>1
    <3>3. Decoded(n) = Append(s, 0)
      BY <2>4, <2>5, <3>1 DEF Decoded
    <3> QED
      BY <1>4, <2>1, <3>1, <3>2, <3>3 DEF Faithful
<1>5. CASE b # 0
  <2>1. b \in Bytes \ {0}
    BY <1>5
  <2>2. e.block \in Seq(Bytes \ {0}) /\ e.block \in Seq(Bytes)
    BY <1>1
  <2>3. Append(e.block, b) \in Seq(Bytes \ {0})
        /\ Len(Append(e.block, b)) = Len(e.block) + 1
    BY <2>1, <2>2
  <2>4. more \in S /\ more.block = Append(e.block, b) /\ more.out = e.out
    BY <1>1, <2>3
  <2>5. EndOfBlock(d) \o Append(e.block, b) = Append(s, b)
    <3>1. \A x \in Seq(Bytes), y \in Seq(Bytes) :
            Append(x \o y, b) = x \o Append(y, b)
      OBVIOUS
    <3> QED
      BY <1>2, <1>3, <2>2, <3>1, Zenon
  <2> HIDE DEF more, d
  <2>6. Decoded(more) = Append(s, b)
        /\ Run(DecodeByte, DecodeStart, more.out).left = 0
    BY <1>2, <2>4, <2>5 DEF Decoded, d
  <2>7. EncodeByte(e, b) = IF IsFull(more.block) THEN EndBlock(more) ELSE more
    BY <1>5 DEF EncodeByte, more
  <2>8. CASE ~IsFull(more.block)
    BY <2>6, <2>7, <2>8 DEF Faithful
  <2>9. CASE IsFull(more.block)
    <3>1. Len(more.block) + 1 = MaxCode /\ Len(more.block) + 1 <= MaxCode
      BY <1>1, <2>9 DEF IsFull
    <3>2. Run(DecodeByte, DecodeStart, EndBlock(more).out) =
            [code |-> MaxCode, left |-> 0, text |-> Append(s, b)]
      BY <2>4, <2>6, <3>1, EndBlockDecodes
    <3>3. EndOfBlock(Run(DecodeByte, DecodeStart, EndBlock(more).out)) =
            Append(s, b)
      BY <3>2 DEF EndOfBlock
    <3>4. EndBlock(more).block = <<>> /\ Append(s, b) \o <<>> = Append(s, b)
      BY DEF EndBlock
    <3> QED
      <4>1. PICK n : n = EndBlock(more)
        OBVIOUS
      <4>2. Run(DecodeByte, DecodeStart, n.out).left = 0
        BY <3>2, <4>1
      <4>3. Decoded(n) = Append(s, b)
        BY <3>3, <3>4, <4>1 DEF Decoded
      <4> QED
        BY <2>7, <2>9, <4>1, <4>2, <4>3 DEF Faithful
  <2> QED
    BY <2>8, <2>9
<1> QED
  BY <1>4, <1>5

LEMMA EncodeFaithful ==
  \A s \in Seq(Bytes) : Faithful(Run(EncodeByte, EncodeStart, s), s)
<1> DEFINE e(s) == Run(EncodeByte, EncodeStart, s)
           P == {s \in Seq(Bytes) : Faithful(e(s), s)}
<1>1. <<>> \in P
  <2>1. e(<<>>) = EncodeStart /\ <<>> \in Seq(Bytes)
    BY EncodeRun
  <2>2. Run(DecodeByte, DecodeStart, <<>>) = DecodeStart
    BY DecodeRun
  <2>3. Faithful(EncodeStart, <<>>)
    BY <2>2 DEF Faithful, Decoded, EncodeStart, DecodeStart, EndOfBlock
  <2> QED
    BY <2>1, <2>3
<1>2. ASSUME NEW s \in Seq(Bytes), NEW b \in Bytes, s \in P
      PROVE  Append(s, b) \in P
  <2>1. e(s) \in EncodeStates /\ e(Append(s, b)) = EncodeByte(e(s), b)
    BY EncodeRun
  <2>2. Faithful(e(s), s)
    BY <1>2
  <2> HIDE DEF e
  <2>3. Faithful(EncodeByte(e(s), b), Append(s, b))
    BY <2>1, <2>2, EncodeByteFaithful
  <2>4. Append(s, b) \in Seq(Bytes)
    OBVIOUS
  <2> QED
    BY <2>1, <2>3, <2>4
<1>3. \A s \in Seq(Bytes) : s \in P
  <2> HIDE DEF P
  <2> QED
    BY <1>1, <1>2, SeqInduct
<1> QED
  BY <1>3

\* An encoded string: no zero but the one at its end, which comes after a code
\* and a byte at least, unless the string is empty.
LEMMA EncodeShape ==
  ASSUME NEW s \in Seq(Bytes)
  PROVE  \E o \in Seq(Bytes \ {0}) :
           /\ encode(s) = Append(o, 0)
           /\ s # <<>> => Len(o) > 1
           /\ Run(DecodeByte, DecodeStart, o).left = 0
           /\ Run(DecodeByte, DecodeStart, o).text = s
           /\ Run(DecodeByte, DecodeStart, o).code \in 0..MaxCode - 1
<1> DEFINE e == Run(EncodeByte, EncodeStart, s)
           o == EndBlock(e).out
<1>1. e \in EncodeStates /\ Faithful(e, s)
  BY EncodeRun, EncodeFaithful
<1>2. encode(s) = o \o <<0>>
  BY DEF encode, EncodeStart
<1> HIDE DEF e
<1>3. /\ e \in [out : Seq(Bytes \ {0}), block : Seq(Bytes \ {0})]
      /\ Len(e.block) + 1 < MaxCode /\ Len(e.block) \in Nat
      /\ MaxCode \in Nat /\ Len(e.block) + 1 <= MaxCode
  BY <1>1, CobsAssumption DEF EncodeStates
<1>4. o \in Seq(Bytes \ {0})
  <2>1. EndBlock(e) \in EncodeStates
    BY <1>3, EndBlockKeeps
  <2> QED
    BY <2>1 DEF EncodeStates
<1>5. /\ Run(DecodeByte, DecodeStart, e.out).left = 0
      /\ Decoded(e) = s
  BY <1>1 DEF Faithful
<1>6. Run(DecodeByte, DecodeStart, o) =
        [code |-> Len(e.block) + 1, left |-> 0, text |-> Decoded(e)]
  BY <1>3, <1>5, EndBlockDecodes
<1>7. Len(o) = Len(e.out) + 1 + Len(e.block) /\ Len(e.out) \in Nat
  <2>1. e.out \in Seq(Nat) /\ e.block \in Seq(Nat)
        /\ <<Len(e.block) + 1>> \in Seq(Nat)
    BY <1>3, CobsAssumption DEF Bytes
  <2> QED
    BY <2>1 DEF EndBlock
<1>8. s # <<>> => Len(o) > 1
  <2> SUFFICES ASSUME Len(e.out) = 0, Len(e.block) = 0 PROVE s = <<>>
    BY <1>3, <1>7
  <2>1. e.out = <<>> /\ e.block = <<>>
    BY <1>3
  <2>2. EndOfBlock(DecodeStart) = <<>>
    BY DEF EndOfBlock, DecodeStart
  <2>3. Decoded(e) = <<>> \o <<>>
    BY <2>1, <2>2, DecodeRun DEF Decoded
  <2> QED
    BY <2>3, <1>5
<1>9. encode(s) = Append(o, 0)
  BY <1>2, <1>4
<1>10. Len(e.block) + 1 \in 0..MaxCode - 1
  BY <1>3
<1> HIDE DEF o
<1> QED
  BY <1>4, <1>5, <1>6, <1>8, <1>9, <1>10

LEMMA DecodeEncode ==
  ASSUME NEW s \in Seq(Bytes)
  PROVE  decode(encode(s)) = s
<1>1. PICK o \in Seq(Bytes \ {0}) :
        /\ encode(s) = Append(o, 0)
        /\ Run(DecodeByte, DecodeStart, o).left = 0
        /\ Run(DecodeByte, DecodeStart, o).text = s
        /\ Run(DecodeByte, DecodeStart, o).code \in 0..MaxCode - 1
  BY EncodeShape
<1> DEFINE d == Run(DecodeByte, DecodeStart, o)
<1>2. 0 \in Bytes /\ MaxCode \in Nat /\ o \in Seq(Bytes)
  BY CobsAssumption DEF Bytes
<1>3. Run(DecodeByte, DecodeStart, encode(s)) = DecodeByte(d, 0)
  BY <1>1, <1>2, DecodeRun
<1>4. d.left = 0 /\ d.text = s /\ d.code \in 0..MaxCode - 1
  BY <1>1
<1> HIDE DEF d
<1>5. d.code \notin {NoCode, MaxCode}
  BY <1>2, <1>4 DEF NoCode
<1>6. DecodeByte(d, 0) = [code |-> 0, left |-> 0, text |-> Append(s, 0)]
  BY <1>4, <1>5 DEF DecodeByte, EndOfBlock
<1>7. Front(Append(s, 0)) = s
  BY <1>2 DEF Front
<1>8. decode(encode(s)) =
        LET end == Run(DecodeByte, DecodeStart, encode(s))
        IN  IF end.left > 0 THEN Overrun ELSE Front(end.text)
  BY DEF decode, DecodeStart
<1>9. PICK r : r = DecodeByte(d, 0)
  OBVIOUS
<1>10. r.left = 0 /\ r.text = Append(s, 0)
  BY <1>6, <1>9
<1>11. decode(encode(s)) = IF r.left > 0 THEN Overrun ELSE Front(r.text)
  BY <1>3, <1>8, <1>9
<1> QED
  BY <1>7, <1>10, <1>11

\* For strings of any length, decoding undoes encoding, and the encoded string
\* has its only zero at its end (Cobs.cpp:104-151): a block of 254 bytes,
\* zeros at either end and a full block at the end come out as they went in.
THEOREM CodecIsFaithful == \A n \in Nat : RoundTrip(n)
<1> SUFFICES ASSUME NEW n \in Nat, NEW s \in BoundedSeq(Bytes, n)
             PROVE  /\ decode(encode(s)) = s
                    /\ \A i \in 1..Len(encode(s)) :
                         encode(s)[i] = 0 <=> i = Len(encode(s))
  BY DEF RoundTrip
<1>1. s \in Seq(Bytes)
  BY DEF BoundedSeq, SeqOf
<1>2. decode(encode(s)) = s
  BY <1>1, DecodeEncode
<1>3. PICK o \in Seq(Bytes \ {0}) : encode(s) = Append(o, 0)
  BY <1>1, EncodeShape
<1>4. ASSUME NEW i \in 1..Len(encode(s))
      PROVE  encode(s)[i] = 0 <=> i = Len(encode(s))
  <2>1. i \in 1..Len(o) + 1 /\ Len(encode(s)) = Len(o) + 1
    BY <1>3
  <2>2. CASE i = Len(o) + 1
    BY <1>3, <2>1, <2>2
  <2>3. CASE i # Len(o) + 1
    BY <1>3, <2>1, <2>3
  <2> QED
    BY <2>2, <2>3
<1> QED
  BY <1>2, <1>4

-----------------------------------------------------------------------------
(***************************************************************************)
(* The decoder's buffer: what the reads find, however they cut the stream. *)
(***************************************************************************)

PacketStates == [buffer : Seq(Bytes), packets : Seq(Seq(Int))]

LEMMA DecodeType ==
  ASSUME NEW s \in Seq(Bytes)
  PROVE  decode(s) \in Seq(Int)
<1>1. PICK r \in DecodeStates : r = Run(DecodeByte, DecodeStart, s)
  BY DecodeRun
<1>2. decode(s) = IF r.left > 0 THEN Overrun ELSE Front(r.text)
  BY <1>1 DEF decode, DecodeStart
<1>3. r.text \in Seq(Int)
  BY CobsAssumption DEF DecodeStates, Bytes
<1>4. Front(r.text) \in Seq(Int)
  <2>1. PICK x \in Seq(Int) : x = r.text
    BY <1>3
  <2>2. SubSeq(x, 1, Len(x) - 1) \in Seq(Int)
    OBVIOUS
  <2> QED
    BY <2>1, <2>2 DEF Front
<1>5. Overrun \in Seq(Int)
  BY DEF Overrun
<1> QED
  BY <1>2, <1>4, <1>5

LEMMA InsertByteKeeps ==
  ASSUME NEW st \in PacketStates, NEW b \in Bytes
  PROVE  InsertByte(st, b) \in PacketStates
<1> DEFINE more == Append(st.buffer, b)
<1>1. more \in Seq(Bytes) /\ <<>> \in Seq(Bytes) /\ st.packets \in Seq(Seq(Int))
  BY DEF PacketStates
<1> HIDE DEF more
<1>2. Append(st.packets, decode(more)) \in Seq(Seq(Int))
  <2>1. decode(more) \in Seq(Int)
    BY <1>1, DecodeType
  <2> QED
    BY <1>1, <2>1
<1>3. CASE b # 0
  BY <1>1, <1>3 DEF InsertByte, PacketStates, more
<1>4. CASE b = 0 /\ IsPacket(more)
  BY <1>1, <1>2, <1>4 DEF InsertByte, PacketStates, more
<1>5. CASE b = 0 /\ ~IsPacket(more)
  BY <1>1, <1>5 DEF InsertByte, PacketStates, more
<1> QED
  BY <1>3, <1>4, <1>5

LEMMA InsertLoop ==
  ASSUME NEW st \in PacketStates
  PROVE  /\ Run(InsertByte, st, <<>>) = st
         /\ \A s \in Seq(Bytes) : Run(InsertByte, st, s) \in PacketStates
         /\ \A s \in Seq(Bytes), b \in Bytes :
              Run(InsertByte, st, Append(s, b)) =
                InsertByte(Run(InsertByte, st, s), b)
<1> DEFINE F == [p \in PacketStates \X Bytes |-> InsertByte(p[1], p[2])]
<1>1. F \in [PacketStates \X Bytes -> PacketStates]
  BY InsertByteKeeps
<1>2. \A x \in PacketStates, b \in Bytes : F[<<x, b>>] = InsertByte(x, b)
  OBVIOUS
<1> HIDE DEF F
<1>0. PICK G : Loops(PacketStates, Bytes, F, st, G)
  BY <1>1, LoopExists
<1>3. /\ G \in [Seq(Bytes) -> PacketStates]
      /\ G[<<>>] = st
      /\ \A s \in Seq(Bytes), b \in Bytes : G[Append(s, b)] = F[<<G[s], b>>]
  BY <1>0 DEF Loops
<1>4. ASSUME NEW s \in Seq(Bytes) PROVE Run(InsertByte, st, s) = G[s]
  <2> DEFINE Is(g) == g = [n \in 0..Len(s) |->
                             IF n = 0 THEN st ELSE InsertByte(g[n - 1], s[n])]
             g == CHOOSE x : Is(x)
  <2>1. PICK h : Passes(PacketStates, F, st, s, h) /\ h[Len(s)] = G[s]
    BY <1>0 DEF Loops
  <2>0. /\ h \in [0..Len(s) -> PacketStates] /\ h[0] = st /\ Len(s) \in Nat
        /\ \A n \in 1..Len(s) : h[n] = F[<<h[n - 1], s[n]>>]
    BY <2>1 DEF Passes
  <2>2. ASSUME NEW n \in 1..Len(s) PROVE h[n] = InsertByte(h[n - 1], s[n])
    <3>1. n - 1 \in 0..Len(s) /\ h[n - 1] \in PacketStates /\ s[n] \in Bytes
      BY <2>0
    <3> QED
      BY <3>1, <2>0, <1>2
  <2>3. Is(h)
    BY <2>0, <2>2
  <2>4. Is(g)
    <3> HIDE DEF Is
    <3> QED
      BY <2>3
  <2>5. Run(InsertByte, st, s) = g[Len(s)]
    BY DEF Run
  <2> HIDE DEF g
  <2>6. g[0] = st /\ \A n \in 1..Len(s) : g[n] = InsertByte(g[n - 1], s[n])
    BY <2>0, <2>4
  <2>7. \A n \in 1..Len(s) : g[n - 1] = h[n - 1] => g[n] = h[n]
    BY <2>2, <2>6
  <2>8. g[0] = h[0] /\ Len(s) \in Nat
    BY <2>0, <2>6
  <2> HIDE DEF Is
  <2>9. StepAlike(Len(s), g, h)
    BY <2>7, <2>8 DEF StepAlike
  <2>10. \A n \in 0..Len(s) : g[n] = h[n]
    BY <2>8, <2>9, Agree
  <2> QED
    BY <2>1, <2>0, <2>5, <2>10
<1>5. Run(InsertByte, st, <<>>) = st
  <2>1. <<>> \in Seq(Bytes)
    OBVIOUS
  <2> QED
    BY <2>1, <1>3, <1>4, Zenon
<1>6. \A s \in Seq(Bytes) : Run(InsertByte, st, s) \in PacketStates
  BY <1>3, <1>4
<1>7. ASSUME NEW s \in Seq(Bytes), NEW b \in Bytes
      PROVE  Run(InsertByte, st, Append(s, b)) =
               InsertByte(Run(InsertByte, st, s), b)
  <2>1. Append(s, b) \in Seq(Bytes)
    OBVIOUS
  <2>2. G[s] \in PacketStates /\ G[Append(s, b)] = F[<<G[s], b>>]
    BY <1>3
  <2> QED
    BY <2>1, <2>2, <1>2, <1>4
<1> QED
  BY <1>5, <1>6, <1>7

\* What a decoder that holds b makes of the bytes u.
On(b, u) == Run(InsertByte, [buffer |-> b, packets |-> <<>>], u)

LEMMA OnRun ==
  ASSUME NEW b \in Seq(Bytes)
  PROVE  /\ On(b, <<>>) = [buffer |-> b, packets |-> <<>>]
         /\ \A u \in Seq(Bytes) : On(b, u) \in PacketStates
         /\ \A u \in Seq(Bytes), c \in Bytes :
              On(b, Append(u, c)) = InsertByte(On(b, u), c)
<1>1. PICK st \in PacketStates : st = [buffer |-> b, packets |-> <<>>]
  <2>1. <<>> \in Seq(Seq(Int))
    OBVIOUS
  <2> QED
    BY <2>1 DEF PacketStates
<1> QED
  BY <1>1, InsertLoop DEF On

\* A byte does to a decoder that has more packets behind it the same.
LEMMA InsertBehind ==
  ASSUME NEW x \in PacketStates, NEW p \in Seq(Seq(Int)), NEW c \in Bytes
  PROVE  InsertByte([buffer |-> x.buffer, packets |-> p \o x.packets], c) =
           [buffer |-> InsertByte(x, c).buffer,
            packets |-> p \o InsertByte(x, c).packets]
<1> DEFINE more == Append(x.buffer, c)
           st == [buffer |-> x.buffer, packets |-> p \o x.packets]
<1>1. more \in Seq(Bytes) /\ x.packets \in Seq(Seq(Int))
  BY DEF PacketStates
<1>2. CASE c # 0
  <2>1. InsertByte(x, c) = [x EXCEPT !.buffer = more]
    BY <1>2 DEF InsertByte
  <2>2. InsertByte(st, c) = [buffer |-> more, packets |-> p \o x.packets]
    BY <1>2 DEF InsertByte
  <2>3. InsertByte(x, c) = [buffer |-> more, packets |-> x.packets]
    BY <2>1 DEF PacketStates
  <2> QED
    BY <2>2, <2>3
<1>3. CASE c = 0 /\ IsPacket(more)
  <2> DEFINE d == decode(more)
  <2>1. d \in Seq(Int)
    BY <1>1, DecodeType
  <2> HIDE DEF d
  <2>2. InsertByte(x, c) = [buffer |-> <<>>, packets |-> Append(x.packets, d)]
    BY <1>3 DEF InsertByte, d
  <2>3. InsertByte(st, c) = [buffer |-> <<>>, packets |-> Append(p \o x.packets, d)]
    BY <1>3 DEF InsertByte, d
  <2>4. \A q \in Seq(Seq(Int)) : Append(p \o q, d) = p \o Append(q, d)
    <3>1. PICK T : T = Seq(Int)
      OBVIOUS
    <3>2. d \in T /\ p \in Seq(T)
      BY <2>1, <3>1
    <3>3. ASSUME NEW q \in Seq(T) PROVE Append(p \o q, d) = p \o Append(q, d)
      <4>1. <<d>> \in Seq(T) /\ p \o q \in Seq(T)
        BY <3>2
      <4>2. Append(q, d) = q \o <<d>>
        BY <3>2, AppendIsConcat
      <4>3. Append(p \o q, d) = (p \o q) \o <<d>>
        BY <3>2, <4>1, AppendIsConcat
      <4>4. (p \o q) \o <<d>> = p \o (q \o <<d>>)
        BY <3>2, <4>1, ConcatAssociative
      <4> QED
        BY <4>2, <4>3, <4>4
    <3> QED
      BY <3>1, <3>3
  <2>5. Append(p \o x.packets, d) = p \o Append(x.packets, d)
    BY <1>1, <2>4, Zenon
  <2> QED
    BY <2>2, <2>3, <2>5
<1>4. CASE c = 0 /\ ~IsPacket(more)
  <2>1. InsertByte(x, c) = [x EXCEPT !.buffer = <<>>]
    BY <1>4 DEF InsertByte
  <2>2. InsertByte(st, c) = [buffer |-> <<>>, packets |-> p \o x.packets]
    BY <1>4 DEF InsertByte
  <2>3. InsertByte(x, c) = [buffer |-> <<>>, packets |-> x.packets]
    BY <2>1 DEF PacketStates
  <2> QED
    BY <2>2, <2>3
<1> QED
  BY <1>2, <1>3, <1>4

\* Where the stream is cut makes no difference: the two reads find what one
\* would have found.
LEMMA InsertCut ==
  ASSUME NEW b \in Seq(Bytes), NEW u \in Seq(Bytes)
  PROVE  \A v \in Seq(Bytes) :
           On(b, u \o v) =
             [buffer  |-> On(On(b, u).buffer, v).buffer,
              packets |-> On(b, u).packets \o On(On(b, u).buffer, v).packets]
<1>1. PICK x \in PacketStates : x = On(b, u)
  BY OnRun
<1>2. x.buffer \in Seq(Bytes) /\ x.packets \in Seq(Seq(Int))
  BY DEF PacketStates
<1> DEFINE y(v) == On(x.buffer, v)
           Both(v) == [buffer |-> y(v).buffer, packets |-> x.packets \o y(v).packets]
           P == {v \in Seq(Bytes) : On(b, u \o v) = Both(v)}
<1>3. \A v \in Seq(Bytes) : y(v) \in PacketStates
  BY <1>2, OnRun
<1>4. <<>> \in P
  <2>1. y(<<>>) = [buffer |-> x.buffer, packets |-> <<>>]
    BY <1>2, OnRun
  <2>2. u \o <<>> = u /\ x.packets \o <<>> = x.packets /\ <<>> \in Seq(Bytes)
    BY <1>2
  <2>5. PICK z : z = y(<<>>)
    OBVIOUS
  <2>6. z.buffer = x.buffer /\ z.packets = <<>>
    BY <2>1, <2>5
  <2>3. Both(<<>>) = [buffer |-> x.buffer, packets |-> x.packets]
    BY <2>2, <2>5, <2>6
  <2>4. Both(<<>>) = x
    BY <2>3 DEF PacketStates
  <2> HIDE DEF Both
  <2> QED
    BY <1>1, <2>2, <2>4
<1>5. ASSUME NEW v \in Seq(Bytes), NEW c \in Bytes, v \in P
      PROVE  Append(v, c) \in P
  <2>1. u \o Append(v, c) = Append(u \o v, c) /\ u \o v \in Seq(Bytes)
        /\ Append(v, c) \in Seq(Bytes)
    OBVIOUS
  <2>2. On(b, Append(u \o v, c)) = InsertByte(On(b, u \o v), c)
    BY <2>1, OnRun
  <2>3. On(b, u \o v) = Both(v)
    BY <1>5
  <2>4. y(Append(v, c)) = InsertByte(y(v), c)
    BY <1>2, OnRun
  <2>5. y(v) \in PacketStates
    BY <1>3
  <2> HIDE DEF y
  <2>6. InsertByte(Both(v), c) =
          [buffer |-> InsertByte(y(v), c).buffer,
           packets |-> x.packets \o InsertByte(y(v), c).packets]
    BY <1>2, <2>5, InsertBehind
  <2>7. InsertByte(Both(v), c) = Both(Append(v, c))
    BY <2>4, <2>6
  <2> HIDE DEF Both
  <2>8. On(b, u \o Append(v, c)) = Both(Append(v, c))
    BY <2>1, <2>2, <2>3, <2>7
  <2> QED
    BY <2>1, <2>8
<1>6. \A v \in Seq(Bytes) : v \in P
  <2> HIDE DEF P
  <2> QED
    BY <1>4, <1>5, SeqInduct
<1> QED
  BY <1>1, <1>6

\* Bytes other than zero stay in the buffer.
LEMMA OnNonzero ==
  \A t \in Seq(Bytes \ {0}) : On(<<>>, t) = [buffer |-> t, packets |-> <<>>]
<1> DEFINE P == {t \in Seq(Bytes \ {0}) :
                   On(<<>>, t) = [buffer |-> t, packets |-> <<>>]}
<1>1. <<>> \in Seq(Bytes) /\ <<>> \in Seq(Bytes \ {0})
  OBVIOUS
<1>2. <<>> \in P
  BY <1>1, OnRun
<1>3. ASSUME NEW t \in Seq(Bytes \ {0}), NEW c \in Bytes \ {0}, t \in P
      PROVE  Append(t, c) \in P
  <2>1. t \in Seq(Bytes) /\ c \in Bytes /\ c # 0
        /\ Append(t, c) \in Seq(Bytes \ {0})
    OBVIOUS
  <2>2. On(<<>>, Append(t, c)) = InsertByte(On(<<>>, t), c)
    BY <1>1, <2>1, OnRun
  <2>3. On(<<>>, t) = [buffer |-> t, packets |-> <<>>]
    BY <1>3
  <2>4. InsertByte([buffer |-> t, packets |-> <<>>], c) =
          [buffer |-> Append(t, c), packets |-> <<>>]
    BY <2>1 DEF InsertByte
  <2> QED
    BY <2>1, <2>2, <2>3, <2>4
<1>4. \A t \in Seq(Bytes \ {0}) : t \in P
  <2> HIDE DEF P
  <2> QED
    BY <1>2, <1>3, SeqInduct
<1> QED
  BY <1>4

\* A whole message: the decoder returns it and holds nothing any more.
LEMMA OnMessage ==
  ASSUME NEW m \in Messages
  PROVE  /\ encode(m) \in Seq(Bytes)
         /\ On(<<>>, encode(m)) = [buffer |-> <<>>, packets |-> <<m>>]
<1>1. m \in Seq(Bytes) /\ m # <<>> /\ 0 \in Bytes
  BY ConnectionAssumption, CobsAssumption DEF Bytes
<1>2. PICK o \in Seq(Bytes \ {0}) : encode(m) = Append(o, 0) /\ Len(o) > 1
  BY <1>1, EncodeShape
<1>3. <<>> \in Seq(Bytes) /\ o \in Seq(Bytes) /\ Append(o, 0) \in Seq(Bytes)
      /\ Len(Append(o, 0)) = Len(o) + 1 /\ Len(o) \in Nat
  BY <1>1
<1>4. On(<<>>, Append(o, 0)) = InsertByte(On(<<>>, o), 0)
  BY <1>1, <1>3, OnRun
<1>5. On(<<>>, o) = [buffer |-> o, packets |-> <<>>]
  BY OnNonzero
<1>6. IsPacket(Append(o, 0))
  BY <1>2, <1>3 DEF IsPacket
<1>7. InsertByte([buffer |-> o, packets |-> <<>>], 0) =
        [buffer |-> <<>>, packets |-> Append(<<>>, decode(Append(o, 0)))]
  BY <1>6 DEF InsertByte
<1>8. decode(Append(o, 0)) = m
  BY <1>1, <1>2, DecodeEncode
<1> QED
  BY <1>2, <1>3, <1>4, <1>5, <1>7, <1>8

\* The beginning of a message, or nothing.
Partial == {<<>>} \cup
           {b \in Seq(Bytes) : \E m \in Messages : IsStrictPrefix(b, encode(m))}

LEMMA OnBeginning ==
  ASSUME NEW m \in Messages, NEW k \in 0..Len(encode(m))
  PROVE  On(<<>>, SubSeq(encode(m), 1, k)).buffer \in Partial
<1>1. m \in Seq(Bytes) /\ 0 \in Bytes
  BY ConnectionAssumption, CobsAssumption DEF Bytes
<1>2. PICK o \in Seq(Bytes \ {0}) : encode(m) = Append(o, 0)
  BY <1>1, EncodeShape
<1>3. /\ encode(m) \in Seq(Bytes) /\ o \in Seq(Bytes)
      /\ Len(encode(m)) = Len(o) + 1 /\ Len(o) \in Nat
  BY <1>1, <1>2
<1>4. CASE k = Len(encode(m))
  <2>1. SubSeq(encode(m), 1, k) = encode(m)
    BY <1>3, <1>4
  <2>2. On(<<>>, encode(m)) = [buffer |-> <<>>, packets |-> <<m>>]
    BY OnMessage
  <2>3. On(<<>>, encode(m)).buffer = <<>>
    BY <2>2
  <2>4. <<>> \in Partial
    BY DEF Partial
  <2> QED
    BY <2>1, <2>3, <2>4, Zenon
<1>5. CASE k # Len(encode(m))
  <2> DEFINE b == SubSeq(encode(m), 1, k)
  <2>1. k \in 0..Len(o)
    BY <1>3, <1>5
  <2>2. b = SubSeq(o, 1, k)
    BY <1>2, <1>3, <2>1
  <2>3. b \in Seq(Bytes \ {0}) /\ b \in Seq(Bytes) /\ Len(b) = k
    BY <2>1, <2>2
  <2>4. On(<<>>, b).buffer = b
    <3> HIDE DEF b
    <3>1. On(<<>>, b) = [buffer |-> b, packets |-> <<>>]
      BY <2>3, OnNonzero
    <3> QED
      BY <3>1
  <2>5. IsStrictPrefix(b, encode(m))
    <3>1. SubSeq(b, 1, k) = b
      BY <2>3
    <3> QED
      BY <1>3, <2>1, <2>3, <3>1 DEF IsStrictPrefix, IsPrefix
  <2> HIDE DEF b
  <2>6. b \in Partial
    BY <2>3, <2>5 DEF Partial
  <2> QED
    BY <2>4, <2>6 DEF b
<1> QED
  BY <1>4, <1>5

-----------------------------------------------------------------------------
(***************************************************************************)
(* handleRead's loop over the packets.                                     *)
(***************************************************************************)

Rows == Seq(Messages)
Strings == Seq(Int)

LEMMA ParsePacketKeeps ==
  ASSUME NEW st \in Rows, NEW b \in Strings
  PROVE  ParsePacket(st, b) \in Rows
BY DEF ParsePacket, Rows

LEMMA ParseLoop ==
  ASSUME NEW st \in Rows
  PROVE  /\ Run(ParsePacket, st, <<>>) = st
         /\ \A s \in Seq(Strings) : Run(ParsePacket, st, s) \in Rows
         /\ \A s \in Seq(Strings), b \in Strings :
              Run(ParsePacket, st, Append(s, b)) =
                ParsePacket(Run(ParsePacket, st, s), b)
<1> DEFINE F == [p \in Rows \X Strings |-> ParsePacket(p[1], p[2])]
<1>1. F \in [Rows \X Strings -> Rows]
  BY ParsePacketKeeps
<1>2. \A x \in Rows, b \in Strings : F[<<x, b>>] = ParsePacket(x, b)
  OBVIOUS
<1> HIDE DEF F
<1>0. PICK G : Loops(Rows, Strings, F, st, G)
  BY <1>1, LoopExists
<1>3. /\ G \in [Seq(Strings) -> Rows]
      /\ G[<<>>] = st
      /\ \A s \in Seq(Strings), b \in Strings : G[Append(s, b)] = F[<<G[s], b>>]
  BY <1>0 DEF Loops
<1>4. ASSUME NEW s \in Seq(Strings) PROVE Run(ParsePacket, st, s) = G[s]
  <2> DEFINE Is(g) == g = [n \in 0..Len(s) |->
                             IF n = 0 THEN st ELSE ParsePacket(g[n - 1], s[n])]
             g == CHOOSE x : Is(x)
  <2>1. PICK h : Passes(Rows, F, st, s, h) /\ h[Len(s)] = G[s]
    BY <1>0 DEF Loops
  <2>0. /\ h \in [0..Len(s) -> Rows] /\ h[0] = st /\ Len(s) \in Nat
        /\ \A n \in 1..Len(s) : h[n] = F[<<h[n - 1], s[n]>>]
    BY <2>1 DEF Passes
  <2>2. ASSUME NEW n \in 1..Len(s) PROVE h[n] = ParsePacket(h[n - 1], s[n])
    <3>1. n - 1 \in 0..Len(s) /\ h[n - 1] \in Rows /\ s[n] \in Strings
      BY <2>0
    <3> QED
      BY <3>1, <2>0, <1>2
  <2>3. Is(h)
    BY <2>0, <2>2
  <2>4. Is(g)
    <3> HIDE DEF Is
    <3> QED
      BY <2>3
  <2>5. Run(ParsePacket, st, s) = g[Len(s)]
    BY DEF Run
  <2> HIDE DEF g
  <2>6. g[0] = st /\ \A n \in 1..Len(s) : g[n] = ParsePacket(g[n - 1], s[n])
    BY <2>0, <2>4
  <2>7. \A n \in 1..Len(s) : g[n - 1] = h[n - 1] => g[n] = h[n]
    BY <2>2, <2>6
  <2>8. g[0] = h[0] /\ Len(s) \in Nat
    BY <2>0, <2>6
  <2> HIDE DEF Is
  <2>9. StepAlike(Len(s), g, h)
    BY <2>7, <2>8 DEF StepAlike
  <2>10. \A n \in 0..Len(s) : g[n] = h[n]
    BY <2>8, <2>9, Agree
  <2> QED
    BY <2>1, <2>0, <2>5, <2>10
<1>5. Run(ParsePacket, st, <<>>) = st
  <2>1. <<>> \in Seq(Strings)
    OBVIOUS
  <2> QED
    BY <2>1, <1>3, <1>4, Zenon
<1>6. \A s \in Seq(Strings) : Run(ParsePacket, st, s) \in Rows
  BY <1>3, <1>4
<1>7. ASSUME NEW s \in Seq(Strings), NEW b \in Strings
      PROVE  Run(ParsePacket, st, Append(s, b)) =
               ParsePacket(Run(ParsePacket, st, s), b)
  <2>1. Append(s, b) \in Seq(Strings)
    OBVIOUS
  <2>2. G[s] \in Rows /\ G[Append(s, b)] = F[<<G[s], b>>]
    BY <1>3
  <2> QED
    BY <2>1, <2>2, <1>2, <1>4
<1> QED
  BY <1>5, <1>6, <1>7

LEMMA ParseRun ==
  ASSUME NEW h \in Seq(Messages)
  PROVE  /\ Run(ParsePacket, h, <<>>) = h
         /\ \A q \in Seq(Seq(Int)) : Run(ParsePacket, h, q) \in Seq(Messages)
         /\ \A q \in Seq(Seq(Int)), p \in Seq(Int) :
              Run(ParsePacket, h, Append(q, p)) =
                ParsePacket(Run(ParsePacket, h, q), p)
BY ParseLoop DEF Rows, Strings

LEMMA MessagesAreBytes ==
  /\ Messages \subseteq Seq(Int)
  /\ Seq(Messages) \subseteq Seq(Seq(Int))
<1>1. \A m \in Messages : m \in Seq(Bytes)
  BY ConnectionAssumption
<1>2. \A s \in Seq(Bytes) : s \in Seq(Int)
  BY CobsAssumption DEF Bytes
<1>3. Messages \subseteq Seq(Int)
  BY <1>1, <1>2
<1> QED
  BY <1>3, SeqMonotonic

\* Packets that all parse are all handled.
LEMMA ParseAll ==
  ASSUME NEW h \in Seq(Messages)
  PROVE  \A q \in Seq(Messages) : Run(ParsePacket, h, q) = h \o q
<1> DEFINE P == {q \in Seq(Messages) : Run(ParsePacket, h, q) = h \o q}
<1>1. <<>> \in P
  <2>1. h \o <<>> = h /\ <<>> \in Seq(Messages)
    OBVIOUS
  <2>2. Run(ParsePacket, h, <<>>) = h
    BY ParseRun
  <2> QED
    BY <2>1, <2>2
<1>2. ASSUME NEW q \in Seq(Messages), NEW m \in Messages, q \in P
      PROVE  Append(q, m) \in P
  <2>1. q \in Seq(Seq(Int)) /\ m \in Seq(Int)
    BY MessagesAreBytes
  <2>2. Run(ParsePacket, h, Append(q, m)) = ParsePacket(Run(ParsePacket, h, q), m)
    BY <2>1, ParseRun
  <2>3. Run(ParsePacket, h, q) = h \o q
    BY <1>2
  <2>4. ParsePacket(h \o q, m) = Append(h \o q, m)
    BY DEF ParsePacket
  <2>5. Append(h \o q, m) = h \o Append(q, m) /\ Append(q, m) \in Seq(Messages)
    OBVIOUS
  <2> QED
    BY <2>2, <2>3, <2>4, <2>5
<1>3. \A q \in Seq(Messages) : q \in P
  <2> HIDE DEF P
  <2> QED
    BY <1>1, <1>2, SeqInduct
<1> QED
  BY <1>3

-----------------------------------------------------------------------------
(***************************************************************************)
(* Type correctness.                                                       *)
(***************************************************************************)

LEMMA ReadResult ==
  ASSUME TypeOK, NEW n \in 1..RecvBuffer, n <= Len(stream)
  PROVE  /\ SubSeq(stream, 1, n) \in Seq(Bytes)
         /\ Len(SubSeq(stream, 1, n)) = n
         /\ SubSeq(stream, n + 1, Len(stream)) \in Seq(Bytes)
         /\ SubSeq(stream, 1, n) \o SubSeq(stream, n + 1, Len(stream)) = stream
         /\ insertBytes(buffer, SubSeq(stream, 1, n)) \in PacketStates
<1>1. stream \in Seq(Bytes) /\ buffer \in Seq(Bytes) /\ n \in 1..Len(stream)
  BY ConnectionAssumption DEF TypeOK
<1>2. /\ SubSeq(stream, 1, n) \in Seq(Bytes)
      /\ Len(SubSeq(stream, 1, n)) = n
      /\ SubSeq(stream, n + 1, Len(stream)) \in Seq(Bytes)
  BY <1>1
<1>3. SubSeq(stream, 1, n) \o SubSeq(stream, n + 1, Len(stream)) = stream
  BY <1>1
<1>4. insertBytes(buffer, SubSeq(stream, 1, n)) \in PacketStates
  <2> DEFINE a == SubSeq(stream, 1, n)
  <2>1. On(buffer, a) \in PacketStates
    BY <1>1, <1>2, OnRun
  <2>2. [buffer |-> <<>>, packets |-> <<>>] \in PacketStates
    <3>1. <<>> \in Seq(Bytes) /\ <<>> \in Seq(Seq(Int))
      OBVIOUS
    <3> QED
      BY <3>1 DEF PacketStates
  <2> HIDE DEF a
  <2>3. insertBytes(buffer, a) =
          IF Len(buffer) + Len(a) > MaxStream
          THEN [buffer |-> <<>>, packets |-> <<>>] ELSE On(buffer, a)
    BY DEF insertBytes, On
  <2>4. insertBytes(buffer, a) \in PacketStates
    BY <2>1, <2>2, <2>3
  <2> QED
    BY <2>4 DEF a
<1> QED
  BY <1>2, <1>3, <1>4

LEMMA NextWriteTypes ==
  ASSUME TypeOK, WriteInv, writes > 0, NextWrite
  PROVE  /\ write_queue # <<>>
         /\ write_queue' \in Seq(Seq(Bytes))
         /\ is_writing' \in BOOLEAN
         /\ writes' \in Nat
<1>1. write_queue # <<>> /\ writes \in Nat /\ write_queue \in Seq(Seq(Bytes))
  BY DEF WriteInv, OneWriteAtATime, TypeOK
<1>2. PICK T : T = Seq(Bytes)
  OBVIOUS
<1>3. Tail(write_queue) \in Seq(T)
  BY <1>1, <1>2
<1>4. writes - 1 \in Nat /\ (writes - 1) + 1 \in Nat /\ writes - 1 + 0 \in Nat
  BY <1>1
<1> QED
  BY <1>1, <1>2, <1>3, <1>4 DEF NextWrite

LEMMA ReadTypes ==
  ASSUME TypeOK, NEW n \in 1..RecvBuffer, handleRead(n)
  PROVE  TypeOK'
<1> DEFINE result == insertBytes(buffer, SubSeq(stream, 1, n))
<1>1. n <= Len(stream) /\ stream' = SubSeq(stream, n + 1, Len(stream))
      /\ buffer' = result.buffer
      /\ handled' = Run(ParsePacket, handled, result.packets)
  BY DEF handleRead
<1>2. result \in PacketStates /\ SubSeq(stream, n + 1, Len(stream)) \in Seq(Bytes)
  BY <1>1, ReadResult
<1> HIDE DEF result
<1>3. stream' \in Seq(Bytes) /\ buffer' \in Seq(Bytes)
      /\ result.packets \in Seq(Seq(Int))
  BY <1>1, <1>2 DEF PacketStates
<1>4. handled' \in Seq(Messages)
  <2>1. handled \in Seq(Messages)
    BY DEF TypeOK
  <2> QED
    BY <1>1, <1>3, <2>1, ParseRun
<1>5. UNCHANGED <<posted, write_queue, is_writing, writes, senderDead, broken,
                  reading, receiverDead, sends, accepted>>
  BY DEF handleRead, senderVars
<1> QED
  BY <1>3, <1>4, <1>5 DEF TypeOK

LEMMA EnqueueTypes ==
  ASSUME TypeOK, Enqueue
  PROVE  TypeOK'
<1>1. posted \in Seq(Messages) /\ posted # <<>>
  BY DEF TypeOK, Enqueue
<1>2. Head(posted) \in Messages /\ posted' \in Seq(Messages)
  BY <1>1 DEF Enqueue
<1>3. UNCHANGED <<senderDead, stream, broken, buffer, reading, receiverDead,
                  sends, handled>>
  BY DEF Enqueue, receiverVars
<1>4. CASE Len(write_queue) > QueueLimit
  BY <1>2, <1>3, <1>4 DEF Enqueue, TypeOK
<1>5. CASE ~(Len(write_queue) > QueueLimit)
  <2>1. write_queue' = Append(write_queue, encode(Head(posted)))
        /\ accepted' = Append(accepted, Head(posted))
    BY <1>5 DEF Enqueue
  <2>2. is_writing' \in BOOLEAN /\ writes' \in Nat
    <3>1. CASE MayStart
      BY <1>5, <3>1 DEF Enqueue, doWrite, TypeOK
    <3>2. CASE ~MayStart
      BY <1>5, <3>2 DEF Enqueue, TypeOK
    <3> QED
      BY <3>1, <3>2
  <2>3. accepted' \in Seq(Messages)
    BY <1>2, <2>1 DEF TypeOK
  <2>4. encode(Head(posted)) \in Seq(Bytes)
    BY <1>2, OnMessage
  <2>5. write_queue' \in Seq(Seq(Bytes))
    <3>1. PICK T : T = Seq(Bytes)
      OBVIOUS
    <3>2. write_queue \in Seq(T) /\ encode(Head(posted)) \in T
      BY <2>4, <3>1 DEF TypeOK
    <3> QED
      BY <2>1, <3>1, <3>2
  <2> QED
    BY <1>2, <1>3, <2>2, <2>3, <2>5 DEF TypeOK
<1> QED
  BY <1>4, <1>5

\* The first write of the queue is a sequence of bytes like the others.
LEMMA WrittenTypes ==
  ASSUME TypeOK, WriteInv, Written
  PROVE  TypeOK'
<1>1. /\ write_queue # <<>>
      /\ write_queue' \in Seq(Seq(Bytes))
      /\ is_writing' \in BOOLEAN
      /\ writes' \in Nat
  BY NextWriteTypes DEF Written
<1>2. PICK T : T = Seq(Bytes)
  OBVIOUS
<1>3. Head(write_queue) \in T
  BY <1>1, <1>2 DEF TypeOK
<1>4. stream' \in Seq(Bytes)
  BY <1>2, <1>3 DEF TypeOK, Written
<1>5. UNCHANGED <<posted, senderDead, broken, buffer, reading, receiverDead,
                  sends, accepted, handled>>
  BY DEF Written, receiverVars
<1> QED
  BY <1>1, <1>4, <1>5 DEF TypeOK

LEMMA TypeStep ==
  ASSUME TypeOK, WriteInv, [Next]_vars
  PROVE  TypeOK'
<1>1. ASSUME NEW m \in Messages, sendMessage(m) PROVE TypeOK'
  <2>1. sends' \in 0..MaxSent
    BY <1>1, ConnectionAssumption DEF sendMessage, TypeOK
  <2> QED
    BY <1>1, <2>1 DEF sendMessage, TypeOK, receiverVars
<1>2. CASE Enqueue
  BY <1>2, EnqueueTypes
<1>3. CASE Written
  BY <1>3, WrittenTypes
<1>4. CASE WriteFails
  <2>1. /\ write_queue' \in Seq(Seq(Bytes))
        /\ is_writing' \in BOOLEAN
        /\ writes' \in Nat
    BY <1>4, NextWriteTypes DEF WriteFails
  <2> QED
    BY <1>4, <2>1 DEF WriteFails, TypeOK, receiverVars
<1>5. ASSUME NEW n \in 1..RecvBuffer, handleRead(n) PROVE TypeOK'
  BY <1>5, ReadTypes
<1>6. CASE ReadFails
  BY <1>6 DEF ReadFails, TypeOK, senderVars
<1>7. CASE Break
  BY <1>7 DEF Break, TypeOK, senderVars, receiverVars
<1>8. CASE UNCHANGED vars
  BY <1>8 DEF vars, TypeOK, senderVars, receiverVars
<1> QED
  BY <1>1, <1>2, <1>3, <1>4, <1>5, <1>6, <1>7, <1>8 DEF Next

LEMMA TypeInit == Init => TypeOK
<1>1. /\ <<>> \in Seq(Messages) /\ <<>> \in Seq(Seq(Bytes)) /\ <<>> \in Seq(Bytes)
      /\ 0 \in 0..MaxSent
  BY ConnectionAssumption
<1> SUFFICES ASSUME Init PROVE TypeOK
  OBVIOUS
<1>2. /\ posted \in Seq(Messages) /\ accepted \in Seq(Messages)
      /\ handled \in Seq(Messages)
  BY <1>1 DEF Init
<1>3. write_queue \in Seq(Seq(Bytes))
  BY <1>1 DEF Init
<1>4. stream \in Seq(Bytes) /\ buffer \in Seq(Bytes) /\ sends \in 0..MaxSent
  BY <1>1 DEF Init
<1>5. writes \in Nat /\ is_writing \in BOOLEAN /\ senderDead \in BOOLEAN
      /\ broken \in BOOLEAN /\ reading \in BOOLEAN /\ receiverDead \in BOOLEAN
  BY DEF Init
<1> QED
  BY <1>2, <1>3, <1>4, <1>5 DEF TypeOK

\* Queue, stream, buffer and the messages at both ends have their types, with
\* whatever is read and decoded (SocketConnection.cpp, Cobs.cpp).
THEOREM TypeCorrect == Spec => []TypeOK
<1>1. Init => TypeOK /\ WriteInv
  BY TypeInit, WriteInit
<1>2. TypeOK /\ WriteInv /\ [Next]_vars => (TypeOK /\ WriteInv)'
  BY TypeStep, WriteStep
<1> QED
  BY <1>1, <1>2, PTL DEF Spec

-----------------------------------------------------------------------------
(***************************************************************************)
(* The stream.  At any time, what the receiver has handled, followed by    *)
(* what it would find if it read all that is left of the stream, is what   *)
(* has been written, which is the first w of the messages that entered the *)
(* queue; the write queue has the others, unless the connection broke.     *)
(***************************************************************************)

Queued(w) ==
  /\ Len(write_queue) = Len(accepted) - w
  /\ \A i \in 1..Len(write_queue) : write_queue[i] = encode(accepted[w + i])

Carried(w) ==
  /\ On(buffer, stream).buffer = <<>>
  /\ handled \o On(buffer, stream).packets = SubSeq(accepted, 1, w)
  /\ ~broken => Queued(w)

\* However much of the stream is read, at most the beginning of one message
\* is left in the buffer.
Beginnings ==
  \A k \in 0..Len(stream) : On(buffer, SubSeq(stream, 1, k)).buffer \in Partial

StreamInv ==
  /\ TypeOK
  /\ WriteInv
  /\ \E w \in 0..Len(accepted) : Carried(w)
  /\ Beginnings

LEMMA EnqueueCarries ==
  ASSUME TypeOK, NEW w \in 0..Len(accepted), Carried(w), Enqueue
  PROVE  \E v \in 0..Len(accepted') : Carried(v)'
<1>1. UNCHANGED <<stream, broken, buffer, handled>>
  BY DEF Enqueue, receiverVars
<1>2. CASE Len(write_queue) > QueueLimit
  <2>1. UNCHANGED <<write_queue, accepted>>
    BY <1>2 DEF Enqueue
  <2> QED
    BY <1>1, <2>1 DEF Carried, Queued
<1>3. CASE ~(Len(write_queue) > QueueLimit)
  <2>1. PICK m : m = Head(posted)
    OBVIOUS
  <2>2. /\ write_queue' = Append(write_queue, encode(m))
        /\ accepted' = Append(accepted, m)
    BY <1>3, <2>1 DEF Enqueue
  <2>3. m \in Messages /\ accepted \in Seq(Messages) /\ w \in 0..Len(accepted)
    BY <2>1 DEF Enqueue, TypeOK
  <2>4. Len(accepted') = Len(accepted) + 1 /\ Len(accepted) \in Nat
        /\ SubSeq(accepted', 1, w) = SubSeq(accepted, 1, w)
    BY <2>2, <2>3
  <2>5. ASSUME Queued(w) PROVE Queued(w)'
    <3>1. PICK T : write_queue \in Seq(T)
      BY DEF TypeOK
    <3>2. PICK e : e = encode(m)
      OBVIOUS
    <3>3. /\ Len(write_queue') = Len(write_queue) + 1 /\ Len(write_queue) \in Nat
          /\ write_queue'[Len(write_queue) + 1] = e
          /\ \A i \in 1..Len(write_queue) : write_queue'[i] = write_queue[i]
      BY <2>2, <3>1, <3>2
    <3>4. /\ accepted'[Len(accepted) + 1] = m
          /\ \A i \in 1..Len(accepted) : accepted'[i] = accepted[i]
      BY <2>2, <2>3
    <3>5. Len(write_queue) = Len(accepted) - w
          /\ \A i \in 1..Len(write_queue) : write_queue[i] = encode(accepted[w + i])
      BY <2>5 DEF Queued
    <3>6. Len(write_queue') = Len(accepted') - w
      BY <2>3, <2>4, <3>3, <3>5
    <3>7. ASSUME NEW i \in 1..Len(write_queue')
          PROVE  write_queue'[i] = encode(accepted'[w + i])
      <4>1. CASE i = Len(write_queue) + 1
        <5>1. w + i = Len(accepted) + 1
          BY <2>3, <2>4, <3>5, <4>1
        <5> QED
          BY <3>2, <3>3, <3>4, <4>1, <5>1
      <4>2. CASE i # Len(write_queue) + 1
        <5>1. i \in 1..Len(write_queue) /\ w + i \in 1..Len(accepted)
          BY <2>3, <2>4, <3>3, <3>5, <4>2
        <5> QED
          BY <3>3, <3>4, <3>5, <5>1
      <4> QED
        BY <4>1, <4>2
    <3> QED
      BY <3>6, <3>7 DEF Queued
  <2>6. Carried(w)'
    BY <1>1, <2>4, <2>5 DEF Carried
  <2> QED
    BY <2>3, <2>4, <2>6
<1> QED
  BY <1>2, <1>3

\* What Written adds to the stream is the next message.
LEMMA WrittenNext ==
  ASSUME TypeOK, WriteInv, NEW w \in 0..Len(accepted), Carried(w), Written
  PROVE  /\ w + 1 \in 1..Len(accepted)
         /\ accepted[w + 1] \in Messages
         /\ stream' = stream \o encode(accepted[w + 1])
         /\ Len(write_queue') = Len(accepted) - (w + 1)
         /\ \A i \in 1..Len(write_queue') :
              write_queue'[i] = encode(accepted[(w + 1) + i])
<1>1. write_queue # <<>> /\ ~broken /\ stream' = stream \o Head(write_queue)
      /\ write_queue' = Tail(write_queue)
  BY DEF Written, NextWrite, WriteInv, OneWriteAtATime
<1>2. /\ Len(write_queue) = Len(accepted) - w
      /\ \A i \in 1..Len(write_queue) : write_queue[i] = encode(accepted[w + i])
  BY <1>1 DEF Carried, Queued
<1>3. accepted \in Seq(Messages) /\ Len(accepted) \in Nat
  BY DEF TypeOK
<1>4. PICK T : write_queue \in Seq(T)
  BY DEF TypeOK
<1>5. /\ Len(write_queue) \in Nat \ {0}
      /\ Head(write_queue) = write_queue[1]
      /\ Len(write_queue') = Len(write_queue) - 1
      /\ \A i \in 1..Len(write_queue') : write_queue'[i] = write_queue[i + 1]
  BY <1>1, <1>4
<1>6. w + 1 \in 1..Len(accepted) /\ accepted[w + 1] \in Messages
  BY <1>2, <1>3, <1>5
<1>7. write_queue[1] = encode(accepted[w + 1])
  BY <1>2, <1>5
<1>8. ASSUME NEW i \in 1..Len(write_queue')
      PROVE  write_queue'[i] = encode(accepted[(w + 1) + i])
  <2>1. i + 1 \in 1..Len(write_queue) /\ w + (i + 1) = (w + 1) + i
    BY <1>5
  <2>2. write_queue[i + 1] = encode(accepted[w + (i + 1)])
    BY <1>2, <2>1
  <2> QED
    BY <1>5, <2>1, <2>2
<1>9. Len(write_queue') = Len(accepted) - (w + 1)
  BY <1>2, <1>3, <1>5
<1> QED
  BY <1>1, <1>5, <1>6, <1>7, <1>8, <1>9

LEMMA WrittenCarries ==
  ASSUME TypeOK, WriteInv, NEW w \in 0..Len(accepted), Carried(w), Written
  PROVE  Carried(w + 1)'
<1>1. PICK m \in Messages : m = accepted[w + 1]
  BY WrittenNext
<1>2. PICK e : e = encode(m)
  OBVIOUS
<1>3. stream' = stream \o e /\ w + 1 \in 1..Len(accepted)
  BY <1>1, <1>2, WrittenNext
<1>4. Queued(w + 1)'
  <2>1. accepted' = accepted
    BY DEF Written
  <2> QED
    BY <2>1, WrittenNext DEF Queued
<1>5. UNCHANGED <<broken, buffer, handled, accepted>>
  BY DEF Written, receiverVars
<1>6. /\ stream \in Seq(Bytes) /\ buffer \in Seq(Bytes)
      /\ accepted \in Seq(Messages) /\ handled \in Seq(Seq(Int))
  BY MessagesAreBytes DEF TypeOK
<1>7. e \in Seq(Bytes) /\ On(<<>>, e) = [buffer |-> <<>>, packets |-> <<m>>]
  BY <1>2, OnMessage
<1>8. PICK x \in PacketStates : x = On(buffer, stream)
  BY <1>6, OnRun
<1>9. x.buffer = <<>> /\ handled \o x.packets = SubSeq(accepted, 1, w)
  BY <1>8 DEF Carried
<1>10. On(buffer, stream \o e) = [buffer |-> <<>>, packets |-> x.packets \o <<m>>]
  <2>1. On(buffer, stream \o e) =
          [buffer  |-> On(x.buffer, e).buffer,
           packets |-> x.packets \o On(x.buffer, e).packets]
    BY <1>6, <1>7, <1>8, InsertCut
  <2>2. On(x.buffer, e).buffer = <<>> /\ On(x.buffer, e).packets = <<m>>
    BY <1>7, <1>9
  <2> QED
    BY <2>1, <2>2
<1>11. handled \o (x.packets \o <<m>>) = SubSeq(accepted, 1, w + 1)
  <2>1. PICK T : T = Seq(Int)
    OBVIOUS
  <2>2. handled \in Seq(T) /\ x.packets \in Seq(T) /\ <<m>> \in Seq(T)
    BY <1>6, <2>1, MessagesAreBytes DEF PacketStates
  <2>3. handled \o (x.packets \o <<m>>) = (handled \o x.packets) \o <<m>>
    <3>1. \A a, b, c \in Seq(T) : (a \o b) \o c = a \o (b \o c)
      BY ConcatAssociative
    <3> QED
      BY <2>2, <3>1, Zenon
  <2>4. SubSeq(accepted, 1, w) \o <<m>> = SubSeq(accepted, 1, w + 1)
    BY <1>1, <1>3, <1>6
  <2> QED
    BY <1>9, <2>3, <2>4
<1>12. On(buffer', stream').buffer = <<>>
       /\ On(buffer', stream').packets = x.packets \o <<m>>
  BY <1>3, <1>5, <1>10
<1>13. handled' \o On(buffer', stream').packets = SubSeq(accepted', 1, w + 1)
  BY <1>5, <1>11, <1>12
<1> QED
  BY <1>4, <1>12, <1>13 DEF Carried

LEMMA WrittenBeginnings ==
  ASSUME TypeOK, WriteInv, NEW w \in 0..Len(accepted), Carried(w), Beginnings,
         Written
  PROVE  Beginnings'
<1>1. PICK m \in Messages : m = accepted[w + 1]
  BY WrittenNext
<1>2. PICK e : e = encode(m)
  OBVIOUS
<1>3. stream' = stream \o e /\ buffer' = buffer
  BY <1>1, <1>2, WrittenNext DEF Written, receiverVars
<1>4. stream \in Seq(Bytes) /\ buffer \in Seq(Bytes) /\ e \in Seq(Bytes)
  BY <1>2, OnMessage DEF TypeOK
<1>5. ASSUME NEW k \in 0..Len(stream \o e)
      PROVE  On(buffer, SubSeq(stream \o e, 1, k)).buffer \in Partial
  <2>1. k \in Nat /\ Len(stream \o e) = Len(stream) + Len(e)
        /\ Len(stream) \in Nat /\ Len(e) \in Nat
    BY <1>4
  <2>2. CASE k <= Len(stream)
    <3>1. SubSeq(stream \o e, 1, k) = SubSeq(stream, 1, k) /\ k \in 0..Len(stream)
      BY <1>4, <2>1, <2>2
    <3> QED
      BY <3>1 DEF Beginnings
  <2>3. CASE ~(k <= Len(stream))
    <3>1. PICK j : j = k - Len(stream)
      OBVIOUS
    <3>2. j \in 0..Len(e) /\ k = Len(stream) + j
      BY <2>1, <2>3, <3>1
    <3>3. PICK b : b = SubSeq(e, 1, j)
      OBVIOUS
    <3>4. b \in Seq(Bytes)
      BY <1>4, <3>2, <3>3
    <3>5. SubSeq(stream \o e, 1, k) = stream \o b
      BY <1>4, <2>1, <3>2, <3>3
    <3>6. On(buffer, stream \o b).buffer = On(On(buffer, stream).buffer, b).buffer
      <4>1. On(buffer, stream \o b) =
              [buffer  |-> On(On(buffer, stream).buffer, b).buffer,
               packets |-> On(buffer, stream).packets
                             \o On(On(buffer, stream).buffer, b).packets]
        BY <1>4, <3>4, InsertCut
      <4> QED
        BY <4>1
    <3>7. On(<<>>, b).buffer \in Partial
      BY <1>2, <3>2, <3>3, OnBeginning
    <3>8. On(buffer, stream).buffer = <<>>
      BY DEF Carried
    <3> QED
      BY <3>5, <3>6, <3>7, <3>8
  <2> QED
    BY <2>2, <2>3
<1> QED
  BY <1>3, <1>5 DEF Beginnings

\* What the buffer holds leaves room for a read.
LEMMA ReadFits ==
  ASSUME TypeOK, MessagesFit, buffer \in Partial, NEW n \in 1..RecvBuffer
  PROVE  Len(buffer) + n <= MaxStream
<1>1. RecvBuffer \in Nat /\ MaxStream \in Nat /\ buffer \in Seq(Bytes)
  BY ConnectionAssumption, CobsAssumption DEF TypeOK
<1>2. CASE buffer = <<>>
  BY <1>1, <1>2 DEF MessagesFit
<1>3. CASE buffer # <<>>
  <2>1. PICK m \in Messages : IsStrictPrefix(buffer, encode(m))
    BY <1>3 DEF Partial
  <2>2. PICK e : e = encode(m)
    OBVIOUS
  <2>3. e \in Seq(Bytes) /\ Len(e) - 1 + RecvBuffer <= MaxStream
    BY <2>2, OnMessage DEF MessagesFit
  <2>4. Len(buffer) <= Len(e) /\ buffer # e
        /\ SubSeq(buffer, 1, Len(buffer)) = SubSeq(e, 1, Len(buffer))
    BY <2>1, <2>2 DEF IsStrictPrefix, IsPrefix
  <2>5. Len(buffer) # Len(e)
    <3> SUFFICES ASSUME Len(buffer) = Len(e) PROVE FALSE
      OBVIOUS
    <3>1. SubSeq(buffer, 1, Len(buffer)) = buffer /\ SubSeq(e, 1, Len(e)) = e
      BY <1>1, <2>3
    <3> QED
      BY <2>4, <3>1
  <2>6. Len(buffer) \in Nat /\ Len(e) \in Nat /\ n <= RecvBuffer
    BY <1>1, <2>3
  <2> QED
    BY <1>1, <2>3, <2>4, <2>5, <2>6
<1> QED
  BY <1>2, <1>3

LEMMA BufferBegins ==
  ASSUME TypeOK, Beginnings
  PROVE  buffer \in Partial
<1>1. buffer \in Seq(Bytes) /\ stream \in Seq(Bytes)
  BY DEF TypeOK
<1>2. SubSeq(stream, 1, 0) = <<>> /\ 0 \in 0..Len(stream)
  BY <1>1
<1>3. On(buffer, SubSeq(stream, 1, 0)).buffer \in Partial
  BY <1>2 DEF Beginnings
<1>4. On(buffer, <<>>) = [buffer |-> buffer, packets |-> <<>>]
  BY <1>1, OnRun
<1>5. On(buffer, <<>>).buffer = buffer
  BY <1>4
<1> QED
  BY <1>2, <1>3, <1>5

\* A read takes the decoder from where it was to where one that had read the
\* whole stream passed by.
LEMMA ReadStep ==
  ASSUME TypeOK, MessagesFit, Beginnings, NEW n \in 1..RecvBuffer, handleRead(n)
  PROVE  LET a == SubSeq(stream, 1, n) IN
         /\ a \in Seq(Bytes) /\ stream' \in Seq(Bytes) /\ a \o stream' = stream
         /\ On(buffer, a) \in PacketStates
         /\ buffer' = On(buffer, a).buffer
         /\ handled' = Run(ParsePacket, handled, On(buffer, a).packets)
         /\ UNCHANGED <<accepted, broken, write_queue>>
<1> DEFINE a == SubSeq(stream, 1, n)
<1>1. n <= Len(stream) /\ stream' = SubSeq(stream, n + 1, Len(stream))
      /\ buffer' = insertBytes(buffer, a).buffer
      /\ handled' = Run(ParsePacket, handled, insertBytes(buffer, a).packets)
      /\ UNCHANGED <<accepted, broken, write_queue>>
  BY DEF handleRead, senderVars
<1>2. a \in Seq(Bytes) /\ Len(a) = n /\ stream' \in Seq(Bytes)
      /\ a \o stream' = stream
  BY <1>1, ReadResult
<1>3. Len(buffer) + n <= MaxStream
  BY BufferBegins, ReadFits
<1> HIDE DEF a
<1>4. insertBytes(buffer, a) = On(buffer, a)
  <2>1. n \in Int /\ Len(buffer) \in Nat /\ MaxStream \in Nat
    BY CobsAssumption DEF TypeOK
  <2>2. ~(Len(buffer) + Len(a) > MaxStream)
    BY <1>2, <1>3, <2>1
  <2> QED
    BY <2>2 DEF insertBytes, On
<1>5. On(buffer, a) \in PacketStates
  BY <1>2, OnRun DEF TypeOK
<1> QED
  BY <1>1, <1>2, <1>4, <1>5 DEF a

LEMMA MiddleType ==
  ASSUME NEW T, NEW M, NEW h \in Seq(T), NEW p \in Seq(T), NEW q \in Seq(T),
         h \o (p \o q) \in Seq(M)
  PROVE  p \in Seq(M)
<1>1. \A i \in 1..Len(p) : p[i] \in M
  <2> SUFFICES ASSUME NEW i \in 1..Len(p) PROVE p[i] \in M
    OBVIOUS
  <2>1. p[i] = (p \o q)[i] /\ i \in 1..Len(p \o q) /\ p \o q \in Seq(T)
    OBVIOUS
  <2>2. (p \o q)[i] = (h \o (p \o q))[Len(h) + i]
    BY <2>1
  <2>3. Len(h) + i \in 1..Len(h \o (p \o q))
    BY <2>1
  <2> QED
    BY <2>1, <2>2, <2>3
<1> QED
  BY <1>1

LEMMA ReadCarries ==
  ASSUME TypeOK, MessagesFit, Beginnings, NEW w \in 0..Len(accepted), Carried(w),
         NEW n \in 1..RecvBuffer, handleRead(n)
  PROVE  Carried(w)'
<1>1. PICK a \in Seq(Bytes) : a = SubSeq(stream, 1, n)
  BY ReadStep
<1>2. /\ stream' \in Seq(Bytes) /\ a \o stream' = stream
      /\ UNCHANGED <<accepted, broken, write_queue>>
  BY <1>1, ReadStep
<1>3. PICK x \in PacketStates : x = On(buffer, a)
  BY <1>1, ReadStep
<1>4. buffer' = x.buffer /\ handled' = Run(ParsePacket, handled, x.packets)
  BY <1>1, <1>3, ReadStep
<1>5. x.buffer \in Seq(Bytes) /\ x.packets \in Seq(Seq(Int))
  BY DEF PacketStates
<1>6. PICK y \in PacketStates : y = On(x.buffer, stream')
  BY <1>2, <1>5, OnRun
<1>7. On(buffer, stream) = [buffer |-> y.buffer, packets |-> x.packets \o y.packets]
  <2>1. On(buffer, a \o stream') =
          [buffer  |-> On(x.buffer, stream').buffer,
           packets |-> x.packets \o On(x.buffer, stream').packets]
    BY <1>2, <1>3, InsertCut DEF TypeOK
  <2> QED
    BY <1>2, <1>6, <2>1
<1>8. y.buffer = <<>> /\ handled \o (x.packets \o y.packets) = SubSeq(accepted, 1, w)
  <2>1. PICK z : z = On(buffer, stream)
    OBVIOUS
  <2>4. PICK r : r = x.packets \o y.packets
    OBVIOUS
  <2>5. z = [buffer |-> y.buffer, packets |-> r]
    BY <1>7, <2>1, <2>4, Zenon
  <2>2. z.buffer = y.buffer /\ z.packets = x.packets \o y.packets
    BY <2>4, <2>5
  <2>3. z.buffer = <<>> /\ handled \o z.packets = SubSeq(accepted, 1, w)
    BY <2>1 DEF Carried
  <2> QED
    BY <2>2, <2>3
<1>9. handled \in Seq(Messages) /\ handled \in Seq(Seq(Int))
      /\ accepted \in Seq(Messages) /\ y.packets \in Seq(Seq(Int))
  BY MessagesAreBytes DEF TypeOK, PacketStates
<1>10. x.packets \in Seq(Messages)
  <2>1. PICK p, q : p = x.packets /\ q = y.packets
    OBVIOUS
  <2>2. SubSeq(accepted, 1, w) \in Seq(Messages)
    BY <1>9
  <2>3. PICK T : T = Seq(Int)
    OBVIOUS
  <2>4. p \in Seq(T) /\ q \in Seq(T) /\ handled \in Seq(T)
        /\ handled \o (p \o q) \in Seq(Messages)
    BY <1>5, <1>8, <1>9, <2>1, <2>2, <2>3
  <2>5. p \in Seq(Messages)
    BY <2>4, MiddleType
  <2> QED
    BY <2>1, <2>5
<1>11. handled' = handled \o x.packets
  BY <1>4, <1>9, <1>10, ParseAll
<1>12. (handled \o x.packets) \o y.packets = handled \o (x.packets \o y.packets)
  <2>1. PICK T : T = Seq(Int)
    OBVIOUS
  <2>2. \A b, c, d \in Seq(T) : (b \o c) \o d = b \o (c \o d)
    BY ConcatAssociative
  <2> QED
    BY <1>5, <1>9, <2>1, <2>2, Zenon
<1>13. On(buffer', stream') = y
  BY <1>4, <1>6
<1>14. handled' \o On(buffer', stream').packets = SubSeq(accepted', 1, w)
  BY <1>2, <1>8, <1>11, <1>12, <1>13
<1>15. On(buffer', stream').buffer = <<>>
  BY <1>8, <1>13
<1>16. Queued(w) => Queued(w)'
  BY <1>2 DEF Queued
<1> QED
  BY <1>2, <1>14, <1>15, <1>16 DEF Carried

LEMMA SubSeqBeyond ==
  ASSUME NEW B, NEW a \in Seq(B), NEW c \in Seq(B), NEW k \in 0..Len(c)
  PROVE  /\ SubSeq(a \o c, 1, Len(a) + k) = a \o SubSeq(c, 1, k)
         /\ Len(a) + k \in 0..Len(a \o c)
<1>1. Len(a \o c) = Len(a) + Len(c) /\ Len(a) \in Nat /\ Len(c) \in Nat
      /\ a \o c \in Seq(B)
  OBVIOUS
<1>2. Len(a) + k \in 0..Len(a \o c)
  BY <1>1
<1> DEFINE l == SubSeq(a \o c, 1, Len(a) + k)
           r == a \o SubSeq(c, 1, k)
<1>3. l \in Seq(B) /\ Len(l) = Len(a) + k
  BY <1>1, <1>2
<1>4. r \in Seq(B) /\ Len(r) = Len(a) + k
  BY <1>1
<1>5. ASSUME NEW i \in 1..Len(a) + k PROVE l[i] = r[i]
  <2>1. l[i] = (a \o c)[i]
    BY <1>1, <1>2
  <2>2. CASE i <= Len(a)
    BY <2>1, <2>2, <1>1
  <2>3. CASE ~(i <= Len(a))
    <3>1. i - Len(a) \in 1..k
      BY <2>3, <1>1
    <3>2. (a \o c)[i] = c[i - Len(a)]
      BY <2>3, <3>1, <1>1
    <3>3. r[i] = SubSeq(c, 1, k)[i - Len(a)]
      BY <2>3, <3>1, <1>1
    <3>4. SubSeq(c, 1, k)[i - Len(a)] = c[i - Len(a)]
      BY <3>1, <1>1
    <3> QED
      BY <2>1, <3>2, <3>3, <3>4
  <2> QED
    BY <2>2, <2>3
<1> HIDE DEF l, r
<1>6. l = r
  BY <1>3, <1>4, <1>5, SeqEqual
<1> QED
  BY <1>2, <1>6 DEF l, r

LEMMA ReadBeginnings ==
  ASSUME TypeOK, MessagesFit, Beginnings, NEW n \in 1..RecvBuffer, handleRead(n)
  PROVE  Beginnings'
<1>1. PICK a \in Seq(Bytes) : a = SubSeq(stream, 1, n)
  BY ReadStep
<1>2. /\ stream' \in Seq(Bytes) /\ a \o stream' = stream
      /\ buffer' = On(buffer, a).buffer
  BY <1>1, ReadStep
<1>3. stream \in Seq(Bytes) /\ buffer \in Seq(Bytes) /\ Len(a) \in Nat
  BY DEF TypeOK
<1>4. ASSUME NEW k \in 0..Len(stream')
      PROVE  On(buffer', SubSeq(stream', 1, k)).buffer \in Partial
  <2>1. PICK c : c = stream'
    OBVIOUS
  <2>2. PICK b : b = SubSeq(c, 1, k)
    OBVIOUS
  <2>3. c \in Seq(Bytes) /\ a \o c = stream /\ k \in 0..Len(c)
    BY <1>2, <2>1
  <2>4. b \in Seq(Bytes)
    BY <2>2, <2>3
  <2>5. SubSeq(a \o c, 1, Len(a) + k) = a \o b
        /\ Len(a) + k \in 0..Len(a \o c)
    BY <2>2, <2>3, SubSeqBeyond
  <2>6. On(buffer, a \o b).buffer \in Partial
    BY <2>3, <2>5 DEF Beginnings
  <2>7. On(buffer, a \o b) =
          [buffer  |-> On(On(buffer, a).buffer, b).buffer,
           packets |-> On(buffer, a).packets \o On(On(buffer, a).buffer, b).packets]
    BY <1>3, <2>4, InsertCut
  <2>8. On(buffer, a \o b).buffer = On(buffer', b).buffer
    BY <1>2, <2>7
  <2> QED
    BY <2>1, <2>2, <2>6, <2>8
<1> QED
  BY <1>4 DEF Beginnings

LEMMA StreamInit == Init => StreamInv
<1> SUFFICES ASSUME Init PROVE StreamInv
  OBVIOUS
<1>1. TypeOK /\ WriteInv
  BY TypeInit, WriteInit
<1>2. /\ buffer = <<>> /\ stream = <<>> /\ handled = <<>> /\ accepted = <<>>
      /\ write_queue = <<>>
  BY DEF Init
<1>3. On(<<>>, <<>>) = [buffer |-> <<>>, packets |-> <<>>]
  <2>1. <<>> \in Seq(Bytes)
    OBVIOUS
  <2> QED
    BY <2>1, OnRun
<1>4. Carried(0)
  <2>1. Queued(0)
    BY <1>2 DEF Queued
  <2>2. <<>> \o <<>> = SubSeq(<<>>, 1, 0)
    OBVIOUS
  <2>3. On(<<>>, <<>>).buffer = <<>> /\ On(<<>>, <<>>).packets = <<>>
    BY <1>3
  <2> QED
    BY <1>2, <2>1, <2>2, <2>3 DEF Carried
<1>5. Beginnings
  <2>1. \A k \in 0..0 : SubSeq(<<>>, 1, k) = <<>>
    OBVIOUS
  <2>2. Len(<<>>) = 0
    OBVIOUS
  <2>3. On(<<>>, <<>>).buffer \in Partial
    BY <1>3 DEF Partial
  <2> QED
    BY <1>2, <2>1, <2>2, <2>3 DEF Beginnings
<1>6. 0 \in 0..Len(accepted)
  BY <1>2
<1> QED
  BY <1>1, <1>4, <1>5, <1>6 DEF StreamInv

LEMMA StreamStep ==
  ASSUME MessagesFit, StreamInv, [Next]_vars
  PROVE  StreamInv'
<1>1. TypeOK /\ WriteInv /\ Beginnings
  BY DEF StreamInv
<1>2. PICK w \in 0..Len(accepted) : Carried(w)
  BY DEF StreamInv
<1>3. TypeOK' /\ WriteInv'
  BY <1>1, TypeStep, WriteStep
<1> DEFINE Kept == Beginnings' /\ \E v \in 0..Len(accepted') : Carried(v)'
<1>4. SUFFICES Kept
  BY <1>3 DEF StreamInv
\* Nothing but the queue may change when the stream does not, and the queue
\* counts only while the connection is whole.
<1>5. ASSUME UNCHANGED <<stream, buffer, handled, accepted>>,
             ~broken' => ~broken /\ UNCHANGED write_queue
      PROVE  Kept
  BY <1>1, <1>2, <1>5 DEF Beginnings, Carried, Queued
<1>6. ASSUME NEW m \in Messages, sendMessage(m) PROVE Kept
  BY <1>6, <1>5 DEF sendMessage, receiverVars
<1>7. CASE Enqueue
  <2>1. UNCHANGED <<stream, buffer>>
    BY <1>7 DEF Enqueue, receiverVars
  <2>2. Beginnings'
    BY <1>1, <2>1 DEF Beginnings
  <2> QED
    BY <1>1, <1>2, <1>7, <2>2, EnqueueCarries
<1>8. CASE Written
  <2>1. Carried(w + 1)' /\ Beginnings'
    BY <1>1, <1>2, <1>8, WrittenCarries, WrittenBeginnings
  <2>2. w + 1 \in 1..Len(accepted) /\ accepted' = accepted
    BY <1>1, <1>2, <1>8, WrittenNext DEF Written
  <2>3. w + 1 \in 0..Len(accepted')
    BY <2>2
  <2> QED
    BY <2>1, <2>3
<1>9. CASE WriteFails
  BY <1>9, <1>5 DEF WriteFails, receiverVars
<1>10. ASSUME NEW n \in 1..RecvBuffer, handleRead(n) PROVE Kept
  <2>1. Carried(w)' /\ Beginnings'
    BY <1>1, <1>2, <1>10, ReadCarries, ReadBeginnings
  <2>2. accepted' = accepted
    BY <1>10 DEF handleRead
  <2> QED
    BY <2>1, <2>2
<1>11. CASE ReadFails
  BY <1>11, <1>5 DEF ReadFails, senderVars
<1>12. CASE Break
  BY <1>12, <1>5 DEF Break, senderVars, receiverVars
<1>13. CASE UNCHANGED vars
  BY <1>13, <1>5 DEF vars, senderVars, receiverVars
<1> QED
  BY <1>6, <1>7, <1>8, <1>9, <1>10, <1>11, <1>12, <1>13 DEF Next

LEMMA HandledIsPrefix ==
  ASSUME NEW T, NEW h \in Seq(T), NEW p \in Seq(T), NEW acc \in Seq(T),
         NEW w \in 0..Len(acc), h \o p = SubSeq(acc, 1, w)
  PROVE  IsPrefix(h, acc)
<1>1. Len(h) + Len(p) = w /\ Len(h) \in Nat /\ Len(p) \in Nat /\ Len(acc) \in Nat
  <2>1. Len(h \o p) = Len(h) + Len(p) /\ Len(SubSeq(acc, 1, w)) = w
    OBVIOUS
  <2> QED
    BY <2>1
<1>2. \A i \in 1..Len(h) : h[i] = acc[i]
  <2> SUFFICES ASSUME NEW i \in 1..Len(h) PROVE h[i] = acc[i]
    OBVIOUS
  <2>1. h[i] = (h \o p)[i]
    OBVIOUS
  <2>2. i \in 1..w /\ SubSeq(acc, 1, w)[i] = acc[i]
    BY <1>1
  <2> QED
    BY <2>1, <2>2
<1>3. SubSeq(h, 1, Len(h)) = SubSeq(acc, 1, Len(h))
  BY <1>1, <1>2
<1> QED
  BY <1>1, <1>3 DEF IsPrefix

\* Whatever the messages, the limits and the places where reads cut the stream,
\* the receiver handles the messages that entered the write queue, unchanged,
\* in order, each once, up to some point (SocketConnection.cpp:25-100,
\* Cobs.cpp:74-151), if each of them fits the decoder's limit beside a read.
THEOREM StreamKeepsOrder ==
  ASSUME MessagesFit PROVE Spec => []HandledInOrder
<1>1. StreamInv /\ [Next]_vars => StreamInv'
  BY StreamStep
<1>2. StreamInv => HandledInOrder
  <2> SUFFICES ASSUME StreamInv PROVE HandledInOrder
    OBVIOUS
  <2>1. PICK w \in 0..Len(accepted) : Carried(w)
    BY DEF StreamInv
  <2>2. PICK x \in PacketStates : x = On(buffer, stream)
    BY OnRun DEF StreamInv, TypeOK
  <2>3. PICK p : p = x.packets
    OBVIOUS
  <2>4. PICK T : T = Seq(Int)
    OBVIOUS
  <2>5. handled \in Seq(T) /\ accepted \in Seq(T) /\ p \in Seq(T)
        /\ handled \o p = SubSeq(accepted, 1, w)
    BY <2>1, <2>2, <2>3, <2>4, MessagesAreBytes
       DEF StreamInv, TypeOK, PacketStates, Carried
  <2>6. IsPrefix(handled, accepted)
    BY <2>5, HandledIsPrefix
  <2> QED
    BY <2>6 DEF HandledInOrder
<1> QED
  BY <1>1, <1>2, StreamInit, PTL DEF Spec

\* ... and its buffer never holds more than the beginning of one message, so
\* that the limit at Cobs.cpp:78 is not met.
THEOREM StreamKeepsLimit ==
  ASSUME MessagesFit PROVE Spec => []BufferHoldsOneMessage
<1>1. StreamInv /\ [Next]_vars => StreamInv'
  BY StreamStep
<1>2. StreamInv => BufferHoldsOneMessage
  BY BufferBegins DEF StreamInv, Partial, BufferHoldsOneMessage
<1> QED
  BY <1>1, <1>2, StreamInit, PTL DEF Spec

\* What the runs look at in the first state is what CodecIsFaithful says.
THEOREM CodecAlways == Spec => []CodecRoundTrip
<1>1. CodecRoundTrip
  <2>1. 2 * MaxCode - 1 \in Nat
    BY CobsAssumption
  <2> QED
    BY <2>1, CodecIsFaithful DEF CodecRoundTrip
<1> QED
  BY <1>1, PTL
=============================================================================
