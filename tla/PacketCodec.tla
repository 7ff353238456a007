----------------------------- MODULE PacketCodec ----------------------------
(***************************************************************************)
(* One direction of a connection: packets written by Packet::toBytes into  *)
(* frames of PACKET_BUFFER_LEN bytes, the byte stream of TCP between, and  *)
(* receiveMessage at the other end, which takes whatever one recv returns  *)
(* for a frame and hands it to Packet::fromBytes (commons/Packet.cpp,      *)
(* Connection.cpp, ClientConnection.cpp).                                  *)
(*                                                                         *)
(* The layout is the code's, its sizes are scaled down: a byte has BASE    *)
(* values and a word, time_t or size_t, two bytes instead of eight, the    *)
(* low one first.                                                          *)
(***************************************************************************)
EXTENDS Integers, Sequences, SequencesExt, FiniteSetsExt

CONSTANTS
  BASE,               (* values of a byte                                   *)
  PACKET_BUFFER_LEN,  (* Packet.h: 4096                                     *)
  Packets,            (* the packets a program sends                        *)
  MaxPackets,         (* bound: packets sent                                *)
  MaxReads            (* bound: calls of recv                               *)

Bytes == 0 .. BASE - 1
WORD == 2

ASSUME SizesAssumption ==
  /\ BASE \in Nat \ {0, 1} /\ PACKET_BUFFER_LEN \in 1 .. BASE * BASE - 1
  /\ MaxPackets \in Nat /\ MaxReads \in Nat

(* A string of the program: it holds no NUL. *)
Strings == Seq(Bytes \ {0})

(* What toBytes writes; it does not test that this fits. *)
ContentLength(packet) == 1 + 3 * WORD + Len(packet.payload) + Len(packet.sender)

ASSUME PacketsAssumption ==
  /\ Packets \subseteq [cmd : Bytes \ {0}, timestamp : 0 .. BASE * BASE - 1,
                         payload : Strings, sender : Strings]
  /\ \A packet \in Packets : ContentLength(packet) <= PACKET_BUFFER_LEN

VARIABLES
  sent,      (* packets handed to sendPacket                                *)
  stream,    (* bytes written and not yet read                              *)
  received,  (* what receivePacket has returned                        *)
  position,  (* bytes read                                                  *)
  reads,     (* calls of recv                                               *)
  whole,     (* history: every recv has returned one frame                  *)
  clean,     (* history: every recv has stopped at a frame's end or padding *)
  straddled, (* history: a recv that began inside a frame ended in the next *)
  overrun    (* fromBytes has read past the end of its buffer               *)

vars == <<sent, stream, received, position, reads, whole, clean, straddled, overrun>>

Init ==
  /\ sent = <<>> /\ stream = <<>> /\ received = <<>>
  /\ position = 0 /\ reads = 0
  /\ whole = TRUE /\ clean = TRUE /\ straddled = FALSE /\ overrun = FALSE

-----------------------------------------------------------------------------
Zeros(n) == [j \in 1 .. n |-> 0]

WordBytes(n) == <<n % BASE, n \div BASE>>

Content(packet) ==
  <<packet.cmd>> \o WordBytes(packet.timestamp)
    \o WordBytes(Len(packet.payload)) \o packet.payload
    \o WordBytes(Len(packet.sender)) \o packet.sender

(* Faults: the buffer is not cleared first; only what is used is sent. *)
toBytesUncleared(packet) ==
  Content(packet) \o [j \in 1 .. PACKET_BUFFER_LEN - ContentLength(packet) |-> 1]
toBytesUnpadded(packet) == Content(packet)

(* Packet::toBytes *)
toBytes(packet) == Content(packet) \o Zeros(PACKET_BUFFER_LEN - ContentLength(packet))

(* The word that starts after pos bytes, and the string of n bytes there, as
   string(const char * ) takes it: up to the first NUL. *)
Word(buffer, pos) == buffer[pos + 1] + BASE * buffer[pos + 2]

CString(buffer, pos, n) ==
  LET nul == {j \in 1 .. n : buffer[pos + j] = 0}
  IN  SubSeq(buffer, pos + 1, pos + (IF nul = {} THEN n ELSE Min(nul) - 1))

PayloadPos == 1 + 2 * WORD

(* Fault: the position stays before the payload. *)
SenderSizePosUnmoved(buffer) == PayloadPos

SenderSizePos(buffer) == PayloadPos + Word(buffer, 1 + WORD)

(* Packet::fromBytes: the lengths come from the buffer and are not tested. *)
Overruns(buffer) ==
  LET pos == SenderSizePos(buffer)
  IN  \/ pos + WORD > PACKET_BUFFER_LEN
      \/ pos + WORD + Word(buffer, pos) > PACKET_BUFFER_LEN

fromBytes(buffer) ==
  LET pos == SenderSizePos(buffer) IN
  [cmd |-> buffer[1], timestamp |-> Word(buffer, 1),
   payload |-> CString(buffer, PayloadPos, Word(buffer, 1 + WORD)),
   sender |-> CString(buffer, pos + WORD, Word(buffer, pos))]

-----------------------------------------------------------------------------
(* sendPacket and sendMessage: a frame is written whole. *)
SendPacket(packet) ==
  /\ Len(sent) < MaxPackets
  /\ sent' = Append(sent, packet)
  /\ stream' = stream \o toBytes(packet)
  /\ UNCHANGED <<received, position, reads, whole, clean, straddled, overrun>>

(* A frame that starts where the last recv stopped, and where the byte number
   n (from 1) lies in its frame. *)
AtFrameStart == position % PACKET_BUFFER_LEN = 0
FrameOf(n) == 1 + ((n - 1) \div PACKET_BUFFER_LEN)
InFrame(n) == 1 + ((n - 1) % PACKET_BUFFER_LEN)

(* Fault: the rest of the buffer keeps what the last packet left there. *)
BufferUncleared(n) ==
  SubSeq(stream, 1, n) \o [j \in 1 .. PACKET_BUFFER_LEN - n |-> 1]

(* receiveMessage: the buffer is cleared, and recv puts n bytes into it. *)
Buffer(n) == SubSeq(stream, 1, n) \o Zeros(PACKET_BUFFER_LEN - n)

(* receivePacket.  A packet whose lengths lead out of the buffer is undefined
   behaviour: the model stops there. *)
ReceivePacket(n) ==
  LET end == position + n IN
  /\ ~overrun /\ reads < MaxReads
  /\ reads' = reads + 1
  /\ position' = end
  /\ stream' = SubSeq(stream, n + 1, Len(stream))
  /\ overrun' = Overruns(Buffer(n))
  /\ received' = IF overrun' THEN received ELSE Append(received, fromBytes(Buffer(n)))
  /\ whole' = (whole /\ n = PACKET_BUFFER_LEN)
  /\ clean' = (clean /\ InFrame(end) >= ContentLength(sent[FrameOf(end)]))
  /\ straddled' = (straddled \/ (position % PACKET_BUFFER_LEN) + n > PACKET_BUFFER_LEN)
  /\ UNCHANGED sent

Next ==
  \/ \E packet \in Packets : SendPacket(packet)
  \/ \E n \in 1 .. Min({Len(stream), PACKET_BUFFER_LEN}) : ReceivePacket(n)

Spec == Init /\ [][Next]_vars
-----------------------------------------------------------------------------
TypeOK ==
  /\ sent \in Seq(Packets)
  /\ stream \in Seq(Bytes)
  /\ \A j \in DOMAIN received : received[j].cmd \in Bytes
  /\ position + Len(stream) = Len(sent) * PACKET_BUFFER_LEN
  /\ reads \in 0 .. MaxReads
  /\ {whole, clean, straddled, overrun} \subseteq BOOLEAN

(* As long as every recv returns a frame, the packets that arrive are the
   packets that were sent: fromBytes undoes toBytes, whatever the lengths of
   the two strings (Packet.cpp:46, 77). *)
WholeIsExact == whole => ~overrun /\ received = SubSeq(sent, 1, Len(received))

(* The numbers of the packets a program acts on: processPacket ignores the
   command 0. *)
Commands == {j \in DOMAIN received : received[j].cmd # 0}

(* A network with segments shorter than a frame makes recv stop in the padding
   (the content of these programs' packets is far shorter than a segment).
   Nothing that is received then is invented, changed, doubled or out of order.
   By itself such a cut does no more: the rest of the frame reads as no command,
   every frame that was begun has been received, and fromBytes stays in its
   buffer.  The harm is done by a recv that begins in padding and ends in the
   next frame (Connection.cpp:48, ClientConnection.cpp:35): the packet there is
   lost, and its bytes may be read as lengths that lead out of the buffer
   (Packet.cpp:91-93). *)
CleanCutsInventNothing ==
  clean => \E origin \in [Commands -> DOMAIN sent] :
    /\ \A j \in Commands : received[j] = sent[origin[j]]
    /\ \A j, k \in Commands : j < k => origin[j] < origin[k]
    /\ ~straddled =>
         /\ ~overrun
         /\ \A i \in DOMAIN sent :
              (i - 1) * PACKET_BUFFER_LEN < position => \E j \in Commands : origin[j] = i

(* fromBytes follows the lengths it finds.  They lead out of the buffer only
   if the recv began inside a frame: a frame that is merely cut short reads as
   a packet, since the buffer was cleared before. *)
OverrunOnlyInsideFrame == [][~overrun /\ overrun' => ~AtFrameStart]_vars
=============================================================================
