--------------------------- MODULE MCPacketStream ---------------------------
(***************************************************************************)
(* A small instance of PacketStream for TLC: an empty text and one of two  *)
(* bytes, of which the second is the tag of a string; 9 is no known type.  *)
(***************************************************************************)
EXTENDS PacketStream

ThreePackets ==
  {[component |-> 2, type |-> 1, result |-> 0, text |-> <<>>],
   [component |-> 1, type |-> 3, result |-> 14, text |-> <<7, StringTag>>],
   [component |-> 0, type |-> 9, result |-> 1, text |-> <<>>]}

\* In the header, behind it, in the body, and the sizes of both packets.
Borders == {0, 3, 7, 12, 15, 17}
=============================================================================
