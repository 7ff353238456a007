--------------------------- MODULE MCPacketCodec ----------------------------
(* A small instance of PacketCodec for TLC. *)
EXTENDS PacketCodec

(* No string, a payload, a sender, both; the longest one fills its frame. *)
FourPackets ==
  {[cmd |-> c[1], timestamp |-> 6, payload |-> c[2], sender |-> c[3]] :
     c \in {<<2, <<>>, <<>>>>, <<1, <<3, 1>>, <<>>>>, <<2, <<>>, <<3>>>>, <<3, <<1, 2, 3>>, <<2, 1>>>>}}
=============================================================================
