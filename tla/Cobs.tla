-------------------------------- MODULE Cobs --------------------------------
(***************************************************************************)
(* Consistent overhead byte stuffing (common/Cobs.cpp): how messages are   *)
(* framed in a byte stream.  An encoded message is a row of blocks, each a *)
(* code byte and the bytes it announces, and a zero that ends it.  Strings *)
(* of bytes are sequences over Bytes; MaxCode is 16#FF in the code, which  *)
(* is both the largest byte and the code of a full block.                  *)
(***************************************************************************)
EXTENDS Integers, SequencesExt

CONSTANTS
  MaxCode,        \* the largest byte
  MaxStream       \* MAX_STREAM_BUFFER_SIZE

ASSUME CobsAssumption == MaxCode \in Nat \ {0, 1} /\ MaxStream \in Nat

Bytes == 0..MaxCode

\* The state that a loop over the input reaches: Step is its body.
Run(Step(_, _), st, input) ==
  LET state[n \in 0..Len(input)] ==
        IF n = 0 THEN st ELSE Step(state[n - 1], input[n])
  IN  state[Len(input)]

-----------------------------------------------------------------------------
(***************************************************************************)
(* encode: out holds the finished blocks, block the bytes of the one that  *)
(* is being filled.                                                        *)
(***************************************************************************)
EndBlock(st) ==
  [out |-> st.out \o <<Len(st.block) + 1>> \o st.block, block |-> <<>>]

IsFull(block) == Len(block) + 1 = MaxCode

EncodeByte(st, b) ==
  LET more == [st EXCEPT !.block = Append(@, b)]
  IN  IF b = 0 THEN EndBlock(st)
      ELSE IF IsFull(more.block) THEN EndBlock(more)
      ELSE more

encode(input) ==
  EndBlock(Run(EncodeByte, [out |-> <<>>, block |-> <<>>], input)).out \o <<0>>

(***************************************************************************)
(* decode of a packet with its final zero: code is that of the block that  *)
(* is being read, left what is still to come of it.  A code that announces *)
(* more bytes than the packet has makes the code read past its end:        *)
(* Overrun.                                                                *)
(***************************************************************************)
Overrun == <<-1>>

NoCode == -1    \* no block has begun

\* Fault variant of EndOfBlock: a zero is put after a full block, too.
EndOfBlockAlwaysZero(st) ==
  IF st.code = NoCode THEN st.text ELSE Append(st.text, 0)

\* The text when a block is complete and another one follows it.
EndOfBlock(st) ==
  IF st.code \in {NoCode, MaxCode} THEN st.text ELSE Append(st.text, 0)

DecodeByte(st, b) ==
  IF st.left > 0
  THEN [st EXCEPT !.text = Append(@, b), !.left = @ - 1]
  ELSE [code |-> b, left |-> IF b = 0 THEN 0 ELSE b - 1, text |-> EndOfBlock(st)]

decode(input) ==
  LET end == Run(DecodeByte, [code |-> NoCode, left |-> 0, text |-> <<>>], input)
  IN  IF end.left > 0 THEN Overrun ELSE Front(end.text)

-----------------------------------------------------------------------------
(***************************************************************************)
(* insertBytesAndReturnDecodedPackets: buffer is internalStreamBuffer.     *)
(***************************************************************************)

\* Fault variant of IsPacket: a message of one byte is thrown away.
IsPacketLong(buffer) == Len(buffer) > 3

IsPacket(buffer) == Len(buffer) > 2

\* Fault variant of InsertByte: the buffer is not cleared after a packet.
InsertByteKept(st, b) ==
  LET more == Append(st.buffer, b) IN
  IF b = 0 /\ IsPacket(more)
  THEN [buffer |-> more, packets |-> Append(st.packets, decode(more))]
  ELSE [st EXCEPT !.buffer = more]

InsertByte(st, b) ==
  LET more == Append(st.buffer, b) IN
  CASE b # 0          -> [st EXCEPT !.buffer = more]
    [] b = 0 /\ IsPacket(more) ->
         [buffer |-> <<>>, packets |-> Append(st.packets, decode(more))]
    [] b = 0 /\ ~IsPacket(more) -> [st EXCEPT !.buffer = <<>>]

insertBytes(buffer, input) ==
  IF Len(buffer) + Len(input) > MaxStream
  THEN [buffer |-> <<>>, packets |-> <<>>]
  ELSE Run(InsertByte, [buffer |-> buffer, packets |-> <<>>], input)

=============================================================================
