---------------------------- MODULE PacketStream ----------------------------
(***************************************************************************)
(* Packets on their way through one direction of a connection: Send of the *)
(* ChatClient or the ChatServer writes a packet to a non-blocking socket,  *)
(* TCP delivers the bytes in order but cut anywhere, and onDataReceived of *)
(* the other end takes every chunk that recv returns for whole packets.    *)
(*                                                                         *)
(* A packet is a component, a type and a body of two typed values, the     *)
(* commonest shape: a 16-bit result and a text.  The receiver has one      *)
(* component of each number, which handles every packet of a type it knows *)
(* whose body reads as that.                                               *)
(***************************************************************************)
EXTENDS ByteBuffer

CONSTANTS
  Packet,      \* the packets that may be sent
  KnownType,   \* the types that the components of the receiver handle
  BufferSize,  \* JCHAT_TCP_BUFFER_SIZE, smaller in an instance
  MaxSent,     \* bound on the calls of Send
  Cut          \* where a write or a chunk may be cut short, in an instance
ASSUME StreamAssumption ==
  /\ Packet \subseteq [component : 0..2, type : Byte, result : Byte, text : Seq(Byte)]
  /\ KnownType \subseteq Byte
  /\ BufferSize \in Nat /\ BufferSize <= Base * Place[4]
  /\ MaxSent \in Nat /\ Cut \subseteq Nat

VARIABLES
  littleFrom, littleTo,  \* both ends' order of bytes
  sends,                 \* how often Send was called, for the bound
  wire,                  \* bytes written that were not received
  written,               \* history: the packets written whole
  taken,                 \* history: how many of them were received
  handled,               \* history: the packets handled
  connected,             \* the receiver has not dropped the connection
  torn                   \* history: what first broke the stream, if anything

streamVars ==
  <<littleFrom, littleTo, sends, wire, written, taken, handled, connected,
    torn>>

HeaderSize == 7
ComponentMax == 3

StreamInit ==
  /\ littleFrom \in BOOLEAN /\ littleTo \in BOOLEAN
  /\ sends = 0 /\ wire = <<>> /\ written = <<>> /\ taken = 0 /\ handled = <<>>
  /\ connected = TRUE /\ torn = "no"
-----------------------------------------------------------------------------
\* The body as a component writes it, and as one reads it.
Body(p, little) ==
  WriteString(WriteScalar(EmptyBuffer, UInt16Tag,
                          InMemory(p.result, 2, little), ~little),
              p.text, little)

\* Mutant of Encode: the header is left in the sender's order of bytes.
EncodeUnflipped(p, little) ==
  LET body == Body(p, little).bytes
      header == Write(Write(Write(EmptyBuffer, <<p.component>>, FALSE),
                            InMemory(p.type, 2, little), FALSE),
                      InMemory(Len(body), 4, little), FALSE)
  IN WriteArray(header, body).bytes

\* Send: a header of component, type and size, then the body.
Encode(p, little) ==
  LET body == Body(p, little).bytes
      header == Write(Write(Write(EmptyBuffer, <<p.component>>, ~little),
                            InMemory(p.type, 2, little), ~little),
                      InMemory(Len(body), 4, little), ~little)
  IN WriteArray(header, body).bytes

Encoded == [p \in Packet |-> [little \in BOOLEAN |-> Encode(p, little)]]

\* Handle of a component: it succeeds when it knows the type and both values
\* can be read.
Handle(component, type, bytes, little) ==
  LET result == ReadScalar(BufferOf(bytes), UInt16Tag, 2, ~little)
      text == ReadString(result.buffer, little)
  IN IF type \in KnownType /\ result.ok /\ text.ok
     THEN <<[component |-> component, type |-> type,
             result |-> Number(result.value, little), text |-> text.value]>>
     ELSE <<>>

\* The body of the loop of onDataReceived, on a host of order state.little.
TakePacket(state) ==
  LET component == Read(state.buffer, 1, ~state.little)
      type == Read(component.buffer, 2, ~state.little)
      size == Read(type.buffer, 4, ~state.little)
      at == size.buffer.at
      n == Number(size.value, state.little)
      bytes == size.buffer.bytes
  IN IF Len(bytes) - at < n \/ component.value[1] >= ComponentMax
     THEN [state EXCEPT !.valid = FALSE]
     ELSE [state EXCEPT
             !.buffer = SetPosition(size.buffer, at + n),
             !.packets = @ \o Handle(component.value[1],
                                     Number(type.value, state.little),
                                     SubSeq(bytes, at + 1, at + n),
                                     state.little)]

Remaining(buffer) == Len(buffer.bytes) - buffer.at

\* A turn of the loop, if it goes on: as long as a header may be left and
\* every packet is valid.
Turn(state, i) ==
  IF state.valid /\ Remaining(state.buffer) >= HeaderSize
  THEN TakePacket(state) ELSE state

Untouched(chunk, little) ==
  [buffer |-> BufferOf(chunk), packets |-> <<>>, valid |-> TRUE,
   little |-> little]

\* Mutant of OnDataReceived: one packet is read of every chunk.
OnDataReceivedOnce(chunk, little) ==
  FoldLeft(Turn, Untouched(chunk, little), <<1>>)

\* onDataReceived: no packet is shorter than its header.
OnDataReceived(chunk, little) ==
  FoldLeft(Turn, Untouched(chunk, little),
           [i \in 1..(Len(chunk) \div HeaderSize) |-> i])
-----------------------------------------------------------------------------
\* The socket takes the bytes of a packet, or only the first n of them; no
\* caller looks at the result.
Send(p, n) ==
  LET bytes == Encoded[p][littleFrom]
  IN /\ connected /\ sends < MaxSent
     /\ sends' = sends + 1
     /\ n \in (Cut \cap 0..Len(bytes)) \cup {Len(bytes)}
     /\ wire' = wire \o SubSeq(bytes, 1, n)
     /\ written' = IF n = Len(bytes) THEN Append(written, p) ELSE written
     /\ torn' = IF n \in {0, Len(bytes)} THEN torn ELSE "cut"
     /\ UNCHANGED <<littleFrom, littleTo, taken, handled, connected>>

\* A chunk that fills the buffer is taken for an error.
Drops(chunk, state) ==
  Len(chunk) = BufferSize \/ ~state.valid \/ state.packets = <<>>

\* The packets on their way, and as many of them as bytes.
Pending == SubSeq(written, taken + 1, Len(written))
InBytes(packets, little) ==
  FoldLeft(\o, <<>>, [i \in 1..Len(packets) |-> Encoded[packets[i]][little]])
Stream(packets) == InBytes(packets, littleFrom)

AddKnown(packets, p) ==
  IF p.type \in KnownType THEN Append(packets, p) ELSE packets
Known(packets) == FoldLeft(AddKnown, <<>>, packets)

\* How a chunk of n bytes changes taken and torn.
Record(n) ==
  LET whole == {k \in 1..Len(Pending) :
                  SubSeq(wire, 1, n) = Stream(SubSeq(Pending, 1, k))}
  IN IF torn # "no" \/ n = BufferSize \/ whole = {}
     THEN /\ torn' = IF torn # "no" THEN torn
                     ELSE IF n = BufferSize THEN "full" ELSE "cut"
          /\ UNCHANGED taken
     ELSE \E k \in whole :
            /\ taken' = taken + k
            /\ torn' = IF Known(SubSeq(Pending, 1, k)) = <<>>
                       THEN "unhandled" ELSE "no"

\* recv returns some of the bytes that have arrived, and worker_loop has them
\* handled.
Receive(n) ==
  LET chunk == SubSeq(wire, 1, n)
      state == OnDataReceived(chunk, littleTo)
  IN /\ connected
     /\ n \in Cut \cup {BufferSize, Len(wire)}
     /\ n \in 1..Len(wire) /\ n <= BufferSize
     /\ wire' = SubSeq(wire, n + 1, Len(wire))
     /\ handled' = IF n = BufferSize THEN handled ELSE handled \o state.packets
     /\ connected' = ~Drops(chunk, state)
     /\ Record(n)
     /\ UNCHANGED <<littleFrom, littleTo, sends, written>>

SendSome == \E p \in Packet, n \in 0..BufferSize : Send(p, n)
ReceiveSome == \E n \in 1..BufferSize : Receive(n)

StreamNext == SendSome \/ ReceiveSome

\* TCP delivers what was written and the worker thread keeps reading.
StreamSpec ==
  StreamInit /\ [][StreamNext]_streamVars /\ WF_streamVars(ReceiveSome)
-----------------------------------------------------------------------------
\* As long as every write is whole or refused and every chunk is of whole
\* packets, one of them handled, and does not fill the buffer, the connection
\* stays, the packets of known types were handled and the rest is on its way:
\* between hosts of any order of bytes nothing is lost, changed, handled twice
\* or early, and an unknown packet takes none of its chunk with it.  A chunk of
\* unknown packets alone and one that fills the buffer end the connection, and
\* all that came before them was handled.
PacketsExact ==
  /\ torn # "cut" => handled = Known(SubSeq(written, 1, taken))
  /\ torn = "no" => connected /\ wire = Stream(Pending)
  /\ torn \in {"full", "unhandled"} => ~connected

\* Every known packet that was written is handled, unless the stream was
\* broken: worker_loop and onDataReceived leave no packet of a chunk behind.
PacketsArrive ==
  \A k \in 1..MaxSent :
    Len(Known(written)) >= k ~> Len(handled) >= k \/ torn # "no"
=============================================================================
