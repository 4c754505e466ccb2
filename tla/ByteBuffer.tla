----------------------------- MODULE ByteBuffer -----------------------------
(***************************************************************************)
(* Buffer (jchat_lib/buffer.hpp) and TypedBuffer (jchat_common/): bytes    *)
(* with a position at which values are read and written, each of a typed   *)
(* value behind a tag.  A host keeps a number in its own order of bytes;   *)
(* both ends flip the bytes on a big-endian host.                          *)
(***************************************************************************)
EXTENDS Naturals, Sequences, SequencesExt

CONSTANT Base  \* the number of values of a byte: 256, fewer in an instance
ASSUME BaseAssumption == Base \in Nat /\ Base > 12

Byte == 0..(Base - 1)

\* buffer_ and current_position_, which counts from zero.
EmptyBuffer == [bytes |-> <<>>, at |-> 0]
BufferOf(bytes) == [bytes |-> bytes, at |-> 0]

\* What one counts for in each byte of a number, of which there are up to four.
Place == <<1, Base, Base * Base, Base * Base * Base>>

\* How a host keeps n in `size' bytes, and what it takes them for: the number
\* that the digits make, the one of the last place first.
LittleEndian(n, size) == [i \in 1..size |-> (n \div Place[i]) % Base]
InMemory(n, size, little) ==
  IF little THEN LittleEndian(n, size) ELSE Reverse(LittleEndian(n, size))
AddDigit(n, digit) == Base * n + digit
Number(bytes, little) ==
  FoldLeft(AddDigit, 0, IF little THEN Reverse(bytes) ELSE bytes)

FlipEndian(bytes, flip) == IF flip THEN Reverse(bytes) ELSE bytes
-----------------------------------------------------------------------------
\* A turn of the loop of Write: whether to append is decided with the
\* position, which the loop has advanced, plus the index of the loop.
Put(b, e) ==
  [bytes |-> IF b.at + e.index >= Len(b.bytes)
             THEN Append(b.bytes, e.byte)
             ELSE [b.bytes EXCEPT ![b.at + 1] = e.byte],
   at |-> b.at + 1]

Write(b, value, flip) ==
  LET data == FlipEndian(value, flip)
  IN FoldLeft(Put, b, [i \in 1..Len(data) |->
                         [byte |-> data[i], index |-> i - 1]])

WriteByte(b, byte) == Write(b, <<byte>>, FALSE)
WriteArray(b, bytes) == FoldLeft(WriteByte, b, bytes)

\* Every read returns whether it succeeded, what it read, and the buffer.
Failed(b) == [ok |-> FALSE, value |-> <<>>, buffer |-> b]

Read(b, size, flip) ==
  IF b.at + size > Len(b.bytes) THEN Failed(b)
  ELSE [ok |-> TRUE,
        value |-> FlipEndian(SubSeq(b.bytes, b.at + 1, b.at + size), flip),
        buffer |-> [b EXCEPT !.at = @ + size]]

\* The test wraps around for nothing at the start and allows one byte more
\* than there is: the read of that byte fails when the others have been read.
ReadArray(b, size) ==
  IF b.at + size \notin 1..(Len(b.bytes) + 1) THEN Failed(b)
  ELSE IF b.at + size > Len(b.bytes)
       THEN Failed([b EXCEPT !.at = Len(b.bytes)])
  ELSE Read(b, size, FALSE)

SetPosition(b, at) == IF at > Len(b.bytes) THEN b ELSE [b EXCEPT !.at = at]
-----------------------------------------------------------------------------
\* The tags of the two types that packets are made of.
UInt16Tag == 5
StringTag == 11

\* verifyDataType: a tag that is not expected is not consumed.
VerifyDataType(b, tag) ==
  IF b.at = Len(b.bytes) \/ b.bytes[b.at + 1] # tag THEN Failed(b)
  ELSE [ok |-> TRUE, value |-> <<>>, buffer |-> [b EXCEPT !.at = @ + 1]]

\* WriteBoolean to WriteFloat, and their reads: a tag and a value.
WriteScalar(b, tag, value, flip) == Write(Write(b, <<tag>>, flip), value, flip)

ReadScalar(b, tag, size, flip) ==
  LET verified == VerifyDataType(b, tag)
  IN IF verified.ok THEN Read(verified.buffer, size, flip) ELSE verified

\* WriteString and WriteBlob, and their reads: a tag, a length and bytes.
WriteString(b, text, little) ==
  WriteArray(WriteScalar(b, StringTag, InMemory(Len(text), 4, little), ~little),
             text)

ReadString(b, little) ==
  LET length == ReadScalar(b, StringTag, 4, ~little)
  IN IF length.ok THEN ReadArray(length.buffer, Number(length.value, little))
     ELSE length
=============================================================================
