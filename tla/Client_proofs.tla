---------------------------- MODULE Client_proofs ---------------------------
(***************************************************************************)
(* Safety of the client program for any number of servers that take over   *)
(* from each other, any number of descriptors and any number of lines: the *)
(* types, where toServer may give up, the order of the commands, and that  *)
(* none is lost outside a failover.                                        *)
(***************************************************************************)
EXTENDS Client, SequenceTheorems, WellFoundedInduction, TLAPS

USE BoundsAssumption

Objects == [sockfd : Descriptors, closed : BOOLEAN]
WirePackets == [cmd : {"PROFILE", "OK", "SEND", "CLOSE_CONN"}, n : 0 .. MaxLines]

(* What the threads rely on: con is a connection to a server wherever it is
   used, and the router is asked before anything is connected to. *)
ConOK ==
  /\ pcT # "unborn" => con # 0
  /\ pcF \in {"recv", "ok"} => con # 0
  /\ pcF \in {"recv", "ok", "ask"} /\ con # 0 => ServerOfCon \in Servers
  /\ pcF = "ask" /\ con = 0 => primary = Random
  /\ pcT \in {"check", "put"} => line.n # 0
  /\ pcT = "put" => taken # 0
  /\ pcF \in {"socket", "connect"} => primary # Random

(* con is closed only while fromServer is about to replace it. *)
ClosedInGap == IsClosed => pcF \in {"socket", "connect"}

LocalInv == TypeOK /\ ConOK /\ ClosedInGap

-----------------------------------------------------------------------------
LEMMA InitLocalInv == Init => LocalInv
  BY DEF Init, LocalInv, TypeOK, ConOK, ClosedInGap, IsClosed, ServerOfCon, Servers,
         Descriptors, Free, Unconnected, Kinds

(* A set of descriptors that is not empty has a lowest one. *)
LEMMA LowestIsFree ==
  FreeDescriptors # {} => Lowest \in FreeDescriptors /\ \A g \in FreeDescriptors : Lowest <= g
<1>1. FreeDescriptors \subseteq Nat
  BY DEF FreeDescriptors, Descriptors
<1>2. SUFFICES ASSUME FreeDescriptors # {}
               PROVE  \E f \in FreeDescriptors : \A g \in FreeDescriptors : f <= g
  BY DEF Lowest
<1>3. PICK f \in FreeDescriptors : \A g \in FreeDescriptors : <<g, f>> \notin OpToRel(<, Nat)
  BY <1>1, <1>2, WFMin, NatLessThanWellFounded, Zenon
<1>4. \A g \in FreeDescriptors : ~(g < f)
  BY <1>1, <1>3, Zenon DEF OpToRel
<1>. QED
  BY <1>1, <1>4

(* A delivery keeps the types of what it changes. *)
LEMMA DeliverTypes ==
  ASSUME TypeOK, NEW f, NEW packet \in WirePackets, Deliver(f, packet)
  PROVE  wire' \in [Servers -> Seq(WirePackets)] /\ reset' \subseteq Servers
<1>1. wire \in [Servers -> Seq(WirePackets)] /\ reset \subseteq Servers
  BY DEF TypeOK, WirePackets
<1>2. CASE file[f] \in Servers /\ Open(file[f])
  <2>1. Append(wire[file[f]], packet) \in Seq(WirePackets)
    BY <1>1, <1>2
  <2>2. wire' = [wire EXCEPT ![file[f]] = Append(wire[file[f]], packet)] /\ reset' = reset
    BY <1>2 DEF Deliver
  <2>. QED
    BY <1>1, <2>1, <2>2
<1>3. CASE ~(file[f] \in Servers /\ Open(file[f]))
  BY <1>1, <1>3 DEF Deliver
<1>. QED
  BY <1>2, <1>3

-----------------------------------------------------------------------------
(* Steps of toServer and of the user. *)

(* A step that only puts something on the wire, or ends the process. *)
LEMMA DeliveryLocal ==
  ASSUME LocalInv,
         wire' \in [Servers -> Seq(WirePackets)], reset' \subseteq Servers,
         status' \in {status, "exited", "killed"},
         pcF' = pcF \/ (pcF = "ok" /\ pcF' = "recv"),
         UNCHANGED <<toServerVars, sockfd, primary, objects, con, file, serverVars, settled>>
  PROVE  LocalInv'
<1>1. UNCHANGED <<pcT, line, taken, sockfd, primary, objects, con, file, primaryServer, up,
                  address, session, carried, settled>>
  BY DEF toServerVars, serverVars
<1>2. TypeOK
  BY DEF LocalInv
<1>3. /\ status' \in {"running", "exited", "killed", "aborted"}
      /\ pcF' \in {"ask", "socket", "connect", "ok", "recv"}
  BY <1>2 DEF TypeOK
<1>4. TypeOK'
  BY <1>1, <1>2, <1>3 DEF TypeOK, WirePackets
<1>5. ConOK'
  BY <1>1 DEF LocalInv, ConOK, ServerOfCon
<1>6. ClosedInGap'
  BY <1>1 DEF LocalInv, ClosedInGap, IsClosed
<1>. QED
  BY <1>4, <1>5, <1>6 DEF LocalInv

LEMMA PresentLocal == LocalInv /\ Present => LocalInv'
<1> SUFFICES ASSUME LocalInv, Present PROVE LocalInv'
  OBVIOUS
<1>1. Packet("PROFILE", 0) \in WirePackets
  BY DEF Packet, WirePackets
<1>2. wire' \in [Servers -> Seq(WirePackets)] /\ reset' \subseteq Servers
  BY <1>1, DeliverTypes DEF LocalInv, TypeOK, Present, WirePackets
<1>. QED
  BY <1>2 DEF LocalInv, TypeOK, ConOK, ClosedInGap, IsClosed, ServerOfCon, Present, WirePackets,
              fromServerVars, serverVars

LEMMA ReadLineLocal ==
  ASSUME LocalInv, NEW kind \in Kinds, ReadLine(kind)
  PROVE  LocalInv'
<1>1. line' \in [kind : Kinds \cup {"none"}, n : 0 .. MaxLines] /\ line'.n # 0
  BY DEF LocalInv, TypeOK, ReadLine
<1>. QED
  BY <1>1 DEF LocalInv, TypeOK, ConOK, ClosedInGap, IsClosed, ServerOfCon, ReadLine,
              fromServerVars, serverVars

LEMMA CheckLocal == LocalInv /\ Check => LocalInv'
  BY DEF LocalInv, TypeOK, ConOK, ClosedInGap, IsClosed, ServerOfCon, Check, fromServerVars, serverVars

LEMMA PutLocal == LocalInv /\ Put => LocalInv'
<1> SUFFICES ASSUME LocalInv, Put PROVE LocalInv'
  OBVIOUS
<1>1. Packet("SEND", line.n) \in WirePackets
  BY DEF Packet, WirePackets, LocalInv, TypeOK
<1>2. wire' \in [Servers -> Seq(WirePackets)] /\ reset' \subseteq Servers
  BY <1>1, DeliverTypes DEF LocalInv, TypeOK, Put, WirePackets
<1>3. pcF = "recv" => ServerOfCon \in Servers
  BY DEF LocalInv, ConOK
<1>4. line.n \in 1 .. MaxLines
  BY DEF LocalInv, TypeOK, ConOK, Put
<1>5. settled' \subseteq [n : 1 .. MaxLines, server : Servers]
  BY <1>3, <1>4 DEF LocalInv, TypeOK, Put
<1>6. UNCHANGED <<line, taken, fromServerVars, file, serverVars>>
      /\ pcT' \in {pcT, "read"} /\ status' \in {status, "killed"}
  BY DEF Put, AfterPut
<1>. QED
  BY <1>2, <1>5, <1>6 DEF LocalInv, TypeOK, ConOK, ClosedInGap, IsClosed, ServerOfCon, Put,
                          WirePackets, fromServerVars, serverVars

LEMMA EndOfInputLocal == LocalInv /\ EndOfInput => LocalInv'
<1> SUFFICES ASSUME LocalInv, EndOfInput PROVE LocalInv'
  OBVIOUS
<1>1. Packet("CLOSE_CONN", 0) \in WirePackets
  BY DEF Packet, WirePackets
<1>2. wire' \in [Servers -> Seq(WirePackets)] /\ reset' \subseteq Servers
  BY <1>1, DeliverTypes DEF LocalInv, TypeOK, EndOfInput, WirePackets
<1>. QED
  BY <1>2 DEF LocalInv, TypeOK, ConOK, ClosedInGap, IsClosed, ServerOfCon,
              EndOfInput, WirePackets, fromServerVars, toServerVars, serverVars

LEMMA InterruptLocal == LocalInv /\ Interrupt => LocalInv'
<1> SUFFICES ASSUME LocalInv, Interrupt PROVE LocalInv'
  OBVIOUS
<1>1. Packet("CLOSE_CONN", 0) \in WirePackets
  BY DEF Packet, WirePackets
<1>2. wire' \in [Servers -> Seq(WirePackets)] /\ reset' \subseteq Servers
  BY <1>1, DeliverTypes DEF LocalInv, TypeOK, Interrupt, WirePackets
<1>3. /\ UNCHANGED <<toServerVars, fromServerVars, file, serverVars, settled>>
      /\ status' = "killed"
  BY DEF Interrupt
<1>. QED
  BY <1>2, <1>3, DeliveryLocal DEF toServerVars, fromServerVars

-----------------------------------------------------------------------------
(* Steps of fromServer. *)

LEMMA ReceiveLocal == LocalInv /\ Receive => LocalInv'
  BY DEF LocalInv, TypeOK, ConOK, ClosedInGap, IsClosed, ServerOfCon, Receive, toServerVars, serverVars

(* The types that replacing con can change. *)
FromServerTypes ==
  /\ status \in {"running", "exited", "killed", "aborted"}
  /\ pcT \in {"unborn", "present", "read", "check", "put", "ended"}
  /\ pcF \in {"ask", "socket", "connect", "ok", "recv"}
  /\ sockfd \in Descriptors
  /\ primary \in Addresses \cup {Random, NoPort, Nowhere}
  /\ objects \in Seq(Objects)
  /\ con \in 0 .. Len(objects)
  /\ file \in [Descriptors -> Servers \cup {Free, Unconnected}]

LEMMA TypeOKFromServerTypes == TypeOK => FromServerTypes
  BY DEF TypeOK, FromServerTypes, Objects

LEMMA FromServerStepTypes ==
  ASSUME TypeOK, UNCHANGED <<line, taken, serverVars, wire, reset, settled>>,
         FromServerTypes', Len(objects') >= Len(objects)
  PROVE  TypeOK'
<1>1. taken' \in 0 .. Len(objects')
  BY DEF TypeOK, FromServerTypes
<1>. QED
  BY <1>1 DEF TypeOK, FromServerTypes, Objects, serverVars

(* What the router answers is never the word the client begins with. *)
LEMMA AnswerTypes ==
  ASSUME TypeOK, NEW answer \in Answers
  PROVE  answer \in Addresses \cup {NoPort, Nowhere} /\ answer # Random
<1>1. address \in [0 .. LastServer -> Addresses \cup {NoPort}] /\ primaryServer \in 0 .. LastServer
  BY DEF TypeOK
<1>2. primaryServer # 0 => primaryServer - 1 \in 0 .. LastServer
  BY <1>1
<1>3. answer \in Addresses \cup {NoPort, Nowhere}
  BY <1>1, <1>2 DEF Answers
<1>4. \A a \in Addresses \cup {NoPort, Nowhere} : a # Random
  BY AddressesAssumption DEF Random, NoPort, Nowhere
<1>. QED
  BY <1>3, <1>4

LEMMA AskLocal == LocalInv /\ Ask => LocalInv'
<1> SUFFICES ASSUME LocalInv, Ask PROVE LocalInv'
  OBVIOUS
<1>1. TypeOK /\ FromServerTypes
  BY TypeOKFromServerTypes DEF LocalInv
<1>2. UNCHANGED <<status, toServerVars, sockfd, con, serverVars, wire, reset, settled>>
  BY DEF Ask
<1>0. PICK answer \in Answers :
        IF answer = primary
        THEN pcF' = "recv" /\ UNCHANGED <<primary, objects, file>>
        ELSE /\ pcF' = "socket"
             /\ primary' = answer
             /\ objects' = IF con = 0 THEN objects ELSE [objects EXCEPT ![con].closed = TRUE]
             /\ file' = IF con = 0 THEN file ELSE [file EXCEPT ![objects[con].sockfd] = Free]
  BY DEF Ask
<1>3. CASE answer = primary
  <2>1. pcF' = "recv" /\ UNCHANGED <<primary, objects, file>>
    BY <1>0, <1>3
  <2>2. TypeOK'
    BY <1>1, <1>2, <2>1, FromServerStepTypes
       DEF FromServerTypes, toServerVars
  <2>3. con # 0
    BY <1>1, <1>3, AnswerTypes DEF LocalInv, ConOK, Ask
  <2>4. ServerOfCon' = ServerOfCon /\ ServerOfCon \in Servers
    BY <1>2, <2>1, <2>3 DEF LocalInv, ConOK, ServerOfCon, Ask
  <2>5. ~IsClosed
    BY DEF LocalInv, ClosedInGap, Ask
  <2>. QED
    BY <1>2, <2>1, <2>2, <2>3, <2>4, <2>5
       DEF LocalInv, ConOK, ClosedInGap, IsClosed, toServerVars
<1>4. CASE answer # primary
  <2>1. pcF' = "socket" /\ primary' = answer
    BY <1>0, <1>4
  <2>2. objects' \in Seq(Objects) /\ Len(objects') = Len(objects)
    <3>1. CASE con = 0
      BY <1>0, <1>1, <1>4, <3>1 DEF FromServerTypes
    <3>2. CASE con # 0
      <4>1. con \in 1 .. Len(objects) /\ objects[con] \in Objects
        BY <1>1, <3>2 DEF FromServerTypes
      <4>2. objects' = [objects EXCEPT ![con] = [objects[con] EXCEPT !.closed = TRUE]]
        BY <1>0, <1>4, <3>2
      <4>3. [objects[con] EXCEPT !.closed = TRUE] \in Objects
        BY <4>1 DEF Objects
      <4>. QED
        BY <1>1, <4>1, <4>2, <4>3 DEF FromServerTypes
    <3>. QED
      BY <3>1, <3>2
  <2>3. file' \in [Descriptors -> Servers \cup {Free, Unconnected}]
    BY <1>0, <1>1, <1>4 DEF FromServerTypes
  <2>4. primary' \in Addresses \cup {NoPort, Nowhere} /\ primary' # Random
    BY <1>1, <2>1, AnswerTypes
  <2>5. TypeOK'
    <3>1. FromServerTypes'
      BY <1>1, <1>2, <2>1, <2>2, <2>3, <2>4 DEF FromServerTypes, toServerVars
    <3>. QED
      BY <1>1, <1>2, <2>2, <3>1, FromServerStepTypes DEF toServerVars, FromServerTypes
  <2>. QED
    BY <1>2, <2>1, <2>4, <2>5 DEF LocalInv, ConOK, ClosedInGap, toServerVars
<1>. QED
  BY <1>3, <1>4

LEMMA SocketLocal == LocalInv /\ Socket => LocalInv'
<1> SUFFICES ASSUME LocalInv, Socket PROVE LocalInv'
  OBVIOUS
<1> USE DEF Socket, toServerVars, serverVars
<1>1. CASE FreeDescriptors = {}
  BY <1>1 DEF LocalInv, TypeOK, ConOK, ClosedInGap, IsClosed, ServerOfCon
<1>2. CASE FreeDescriptors # {}
  <2>1. sockfd' \in Descriptors
    BY <1>2, LowestIsFree DEF FreeDescriptors
  <2>2. file' \in [Descriptors -> Servers \cup {Free, Unconnected}]
    BY <1>2, <2>1 DEF LocalInv, TypeOK
  <2>. QED
    BY <1>2, <2>1, <2>2 DEF LocalInv, TypeOK, ConOK, ClosedInGap, IsClosed, ServerOfCon
<1>. QED
  BY <1>1, <1>2

LEMMA ConnectLocal == LocalInv /\ Connect => LocalInv'
<1> SUFFICES ASSUME LocalInv, Connect PROVE LocalInv'
  OBVIOUS
<1> USE DEF Connect, AfterRefusal, toServerVars, serverVars
<1>1. CASE Listening # {}
  <2>1. NewConnection(sockfd) \in Objects /\ objects \in Seq(Objects)
    BY DEF LocalInv, TypeOK, NewConnection, Objects
  <2>2. /\ objects' \in Seq(Objects)
        /\ con' = Len(objects) + 1
        /\ Len(objects') = Len(objects) + 1
        /\ objects'[con'] = NewConnection(sockfd)
    BY <1>1, <2>1
  <2>3. PICK s \in Servers : file' = [file EXCEPT ![sockfd] = s]
    BY <1>1 DEF Listening
  <2>4. /\ file' \in [Descriptors -> Servers \cup {Free, Unconnected}]
        /\ file'[sockfd] = s
    BY <2>3 DEF LocalInv, TypeOK
  <2>5. ServerOfCon' \in Servers
    BY <2>2, <2>3, <2>4 DEF ServerOfCon, NewConnection
  <2>6. ~IsClosed'
    BY <2>2 DEF IsClosed, NewConnection
  <2>7. pcF' \in {"recv", "ok"}
    BY <1>1 DEF AfterConnect
  <2>8. TypeOK'
    <3>1. FromServerTypes'
      BY <1>1, <2>2, <2>4, <2>7, TypeOKFromServerTypes DEF LocalInv, FromServerTypes
    <3>. QED
      BY <2>2, <3>1, FromServerStepTypes DEF LocalInv, FromServerTypes
  <2>9. ConOK'
    BY <1>1, <2>2, <2>5, <2>7 DEF LocalInv, TypeOK, ConOK
  <2>. QED
    BY <2>6, <2>8, <2>9 DEF LocalInv, ClosedInGap
<1>2. CASE Listening = {}
  <2>1. pcF' = "socket" /\ UNCHANGED <<status, pcT, line, taken, sockfd, primary, objects, con, file>>
    BY <1>2
  <2>2. TypeOK'
    <3>1. FromServerTypes'
      BY <2>1, TypeOKFromServerTypes DEF LocalInv, FromServerTypes
    <3>. QED
      BY <2>1, <3>1, FromServerStepTypes DEF LocalInv, FromServerTypes
  <2>. QED
    BY <2>1, <2>2 DEF LocalInv, ConOK, ClosedInGap
<1>. QED
  BY <1>1, <1>2

LEMMA SendOKLocal == LocalInv /\ SendOK => LocalInv'
<1> SUFFICES ASSUME LocalInv, SendOK PROVE LocalInv'
  OBVIOUS
<1>1. Packet("OK", 0) \in WirePackets
  BY DEF Packet, WirePackets
<1>2. wire' \in [Servers -> Seq(WirePackets)] /\ reset' \subseteq Servers
  BY <1>1, DeliverTypes DEF LocalInv, TypeOK, SendOK, WirePackets
<1>3. /\ UNCHANGED <<toServerVars, sockfd, primary, objects, con, file, serverVars, settled>>
      /\ status' \in {status, "exited", "killed"}
      /\ pcF' = pcF \/ (pcF = "ok" /\ pcF' = "recv")
  BY DEF SendOK
<1>. QED
  BY <1>2, <1>3, DeliveryLocal

-----------------------------------------------------------------------------
(* Steps of the servers. *)

ServerTypes ==
  /\ primaryServer \in 0 .. LastServer
  /\ up \in [Servers -> {"off", "naming", "named", "listening", "dead"}]
  /\ address \in [0 .. LastServer -> Addresses \cup {NoPort}]
  /\ wire \in [Servers -> Seq(WirePackets)]
  /\ reset \subseteq Servers
  /\ session \in [Servers -> {"none", "on", "left", "refused"}]
  /\ carried \in Seq(0 .. MaxLines)

LEMMA TypeOKServerTypes == TypeOK => ServerTypes
  BY DEF TypeOK, ServerTypes, WirePackets

(* The local invariant speaks of nothing that a server changes but its type. *)
LEMMA ServerStepLocal ==
  ASSUME LocalInv, UNCHANGED clientVars, ServerTypes'
  PROVE  LocalInv'
<1>1. TypeOK'
  <2>1. UNCHANGED <<status, pcT, line, taken, pcF, sockfd, primary, objects, con, file, settled>>
    BY DEF clientVars, toServerVars, fromServerVars
  <2>2. TypeOK
    BY DEF LocalInv
  <2>3. /\ status' \in {"running", "exited", "killed", "aborted"}
        /\ pcT' \in {"unborn", "present", "read", "check", "put", "ended"}
        /\ line' \in [kind : Kinds \cup {"none"}, n : 0 .. MaxLines]
        /\ pcF' \in {"ask", "socket", "connect", "ok", "recv"}
        /\ sockfd' \in Descriptors
        /\ primary' \in Addresses \cup {Random, NoPort, Nowhere}
        /\ objects' \in Seq([sockfd : Descriptors, closed : BOOLEAN])
        /\ con' \in 0 .. Len(objects') /\ taken' \in 0 .. Len(objects')
        /\ file' \in [Descriptors -> Servers \cup {Free, Unconnected}]
        /\ settled' \subseteq [n : 1 .. MaxLines, server : Servers]
    BY <2>1, <2>2 DEF TypeOK
  <2>. QED
    BY <2>3, Zenon DEF TypeOK, ServerTypes, WirePackets
<1>2. ConOK' /\ ClosedInGap'
  BY DEF LocalInv, ConOK, ClosedInGap, IsClosed, ServerOfCon, clientVars, toServerVars,
         fromServerVars
<1>. QED
  BY <1>1, <1>2 DEF LocalInv

LEMMA NameLocal ==
  ASSUME LocalInv, NEW a \in Addresses, Name(a)
  PROVE  LocalInv'
<1>1. ServerTypes
  BY TypeOKServerTypes DEF LocalInv
<1>2. primaryServer' \in 0 .. LastServer
  BY <1>1 DEF Name, ServerTypes
<1>3. ServerTypes'
  BY <1>1, <1>2 DEF Name, ServerTypes
<1>. QED
  BY <1>3, ServerStepLocal DEF Name

LEMMA ListenLocal ==
  ASSUME LocalInv, NEW s \in Servers, Named(s) \/ Listen(s)
  PROVE  LocalInv'
<1>1. ServerTypes'
  BY TypeOKServerTypes DEF LocalInv, Named, Listen, ServerTypes
<1>. QED
  BY <1>1, ServerStepLocal DEF Named, Listen

(* What is left when a server's end of the connection is closed. *)
LEMMA CloseTypes ==
  ASSUME ServerTypes, NEW s \in Servers, NEW unread, CloseServerEnd(s, unread)
  PROVE  wire' \in [Servers -> Seq(WirePackets)] /\ reset' \subseteq Servers
<1>1. <<>> \in Seq(WirePackets)
  OBVIOUS
<1>. QED
  BY <1>1 DEF ServerTypes, CloseServerEnd

LEMMA CloseLocal ==
  ASSUME LocalInv, NEW s \in Servers, Crash(s) \/ Refuse(s) \/ Leave(s)
  PROVE  LocalInv'
<1>1. ServerTypes
  BY TypeOKServerTypes DEF LocalInv
<1>2. wire' \in [Servers -> Seq(WirePackets)] /\ reset' \subseteq Servers
  BY <1>1, CloseTypes DEF Crash, Refuse, Leave
<1>3. /\ UNCHANGED <<clientVars, primaryServer, address, carried>>
      /\ up' \in [Servers -> {"off", "naming", "named", "listening", "dead"}]
      /\ session' \in [Servers -> {"none", "on", "left", "refused"}]
  BY <1>1 DEF Crash, Refuse, Leave, ServerTypes
<1>. QED
  BY <1>1, <1>2, <1>3, ServerStepLocal DEF ServerTypes

LEMMA ProcessLocal ==
  ASSUME LocalInv, NEW s \in Servers, Process(s)
  PROVE  LocalInv'
<1>1. ServerTypes
  BY TypeOKServerTypes DEF LocalInv
<1>2. wire[s] \in Seq(WirePackets) /\ wire[s] # <<>>
  BY <1>1 DEF Process, Reads, ServerTypes
<1>3. Head(wire[s]) \in WirePackets /\ Tail(wire[s]) \in Seq(WirePackets)
  BY <1>2, HeadTailProperties
<1>4. wire' \in [Servers -> Seq(WirePackets)]
  BY <1>1, <1>3 DEF Process, ServerTypes
<1>5. session' \in [Servers -> {"none", "on", "left", "refused"}]
  BY <1>1 DEF Process, ServerTypes
<1>6. carried' \in Seq(0 .. MaxLines)
  <2>1. Head(wire[s]).n \in 0 .. MaxLines
    BY <1>3 DEF WirePackets
  <2>2. carried \in Seq(0 .. MaxLines)
    BY <1>1 DEF ServerTypes
  <2>3. Append(carried, Head(wire[s]).n) \in Seq(0 .. MaxLines)
    BY <2>1, <2>2
  <2>. QED
    BY <2>2, <2>3 DEF Process
<1>7. ServerTypes'
  BY <1>1, <1>4, <1>5, <1>6 DEF Process, ServerTypes
<1>. QED
  BY <1>7, ServerStepLocal DEF Process

(* Every step keeps what the threads rely on. *)
LEMMA NextLocalInv == LocalInv /\ [Next]_vars => LocalInv'
<1> SUFFICES ASSUME LocalInv, [Next]_vars PROVE LocalInv'
  OBVIOUS
<1>1. CASE ToServer
  BY <1>1, PresentLocal, CheckLocal, PutLocal DEF ToServer
<1>2. CASE User
  BY <1>2, ReadLineLocal, EndOfInputLocal, InterruptLocal DEF User
<1>3. CASE FromServer
  BY <1>3, ReceiveLocal, AskLocal, SocketLocal, ConnectLocal, SendOKLocal DEF FromServer
<1>4. ASSUME NEW a \in Addresses, Name(a) PROVE LocalInv'
  BY <1>4, NameLocal
<1>5. ASSUME NEW s \in Servers, Named(s) \/ Listen(s) \/ Crash(s) \/ Serve(s) PROVE LocalInv'
  BY <1>5, ListenLocal, CloseLocal, ProcessLocal DEF Serve
<1>6. CASE UNCHANGED vars
  <2>1. /\ UNCHANGED <<toServerVars, sockfd, primary, objects, con, file, serverVars, settled>>
        /\ UNCHANGED <<status, pcF, wire, reset>>
    BY <1>6 DEF vars, fromServerVars
  <2>2. wire' \in [Servers -> Seq(WirePackets)] /\ reset' \subseteq Servers
    BY <2>1 DEF LocalInv, TypeOK, WirePackets
  <2>. QED
    BY <2>1, <2>2, DeliveryLocal
<1>. QED
  BY <1>1, <1>2, <1>3, <1>4, <1>5, <1>6 DEF Next

(* The only step by which toServer ends is its own test of con. *)
LEMMA StepEndsInGap ==
  LocalInv /\ [Next]_vars => (pcT # "ended" /\ pcT' = "ended" => pcF \in {"socket", "connect"})
<1> SUFFICES ASSUME LocalInv, [Next]_vars, pcT # "ended", pcT' = "ended"
             PROVE  pcF \in {"socket", "connect"}
  OBVIOUS
<1>1. CASE Check
  BY <1>1 DEF Check, LocalInv, ClosedInGap
<1>2. CASE Present \/ Put
  BY <1>2 DEF Present, Put, AfterPut
<1>3. CASE User
  BY <1>3 DEF User, ReadLine, EndOfInput, Interrupt, toServerVars
<1>4. CASE FromServer
  BY <1>4 DEF FromServer, Receive, Ask, Socket, Connect, SendOK, toServerVars
<1>5. CASE \/ \E a \in Addresses : Name(a)
           \/ \E s \in Servers : Named(s) \/ Listen(s) \/ Crash(s) \/ Serve(s)
  BY <1>5 DEF Name, Named, Listen, Crash, Serve, Refuse, Leave, Process, clientVars, toServerVars
<1>6. CASE UNCHANGED vars
  BY <1>6 DEF vars, toServerVars
<1>. QED
  BY <1>1, <1>2, <1>3, <1>4, <1>5, <1>6 DEF Next, ToServer

LEMMA AlwaysLocalInv == Spec => []LocalInv
<1>. QED
  BY InitLocalInv, NextLocalInv, PTL DEF Spec

(* TypeOK of Client: in particular con, taken and every descriptor they lead
   to exist whenever a thread may use them. *)
THEOREM ClientTypes == Spec => []TypeOK
<1>1. LocalInv => TypeOK
  BY DEF LocalInv
<1>. QED
  BY <1>1, AlwaysLocalInv, PTL

(* Wherever the servers die and whatever the user types, toServer gives up
   (client/main.cpp:131) only while fromServer is replacing con. *)
THEOREM GivesUpInGap == Spec => SenderEndsInGap
<1>. QED
  BY AlwaysLocalInv, StepEndsInGap, PTL DEF Spec, SenderEndsInGap

-----------------------------------------------------------------------------
(* The order of the commands.  All the lines up to Sent have been put on the
   wire, or lost.  The servers are primary in turn, each run once, so the packets
   on their way are all on their way to the same one, and only the primary has
   connections that are open. *)
Sent == IF pcT \in {"check", "put"} THEN line.n - 1 ELSE line.n

OnePrimary ==
  \A s \in Servers :
    /\ up[s] \in {"naming", "named", "listening"} => s = primaryServer
    /\ s > primaryServer => up[s] = "off"

FileOK == \A f \in Descriptors : file[f] \in Servers => up[file[f]] \in {"listening", "dead"}

WireOK == \A s \in Servers : wire[s] # <<>> => up[s] = "listening" /\ Open(s)

WireAfterCarried ==
  \A s \in Servers : \A i \in 1 .. Len(wire[s]) : wire[s][i].cmd = "SEND" =>
    /\ wire[s][i].n <= Sent
    /\ \A k \in 1 .. Len(carried) : carried[k] < wire[s][i].n

WireInOrder ==
  \A s \in Servers : \A i, j \in 1 .. Len(wire[s]) :
    i < j /\ wire[s][i].cmd = "SEND" /\ wire[s][j].cmd = "SEND" => wire[s][i].n < wire[s][j].n

CarriedOK ==
  /\ \A k \in 1 .. Len(carried) : carried[k] <= Sent
  /\ \A m, n \in 1 .. Len(carried) : m < n => carried[m] < carried[n]

OrderInv == OnePrimary /\ FileOK /\ WireOK /\ WireAfterCarried /\ WireInOrder /\ CarriedOK

LEMMA InitOrderInv == Init => OrderInv
  BY DEF Init, OrderInv, OnePrimary, FileOK, WireOK, WireAfterCarried, WireInOrder, CarriedOK,
         Servers, Descriptors, Free

(* The types that the order of the commands is about. *)
LEMMA OrderTypes ==
  ASSUME TypeOK
  PROVE  /\ Sent \in Int
         /\ carried \in Seq(0 .. MaxLines)
         /\ wire \in [Servers -> Seq(WirePackets)]
         /\ \A k \in 1 .. Len(carried) : carried[k] \in Nat
         /\ \A s \in Servers : \A i \in 1 .. Len(wire[s]) : wire[s][i].n \in Nat
<1>1. Sent \in Int
  BY DEF TypeOK, Sent
<1>2. carried \in Seq(0 .. MaxLines) /\ wire \in [Servers -> Seq(WirePackets)]
  BY DEF TypeOK, WirePackets
<1>3. \A k \in 1 .. Len(carried) : carried[k] \in Nat
  BY <1>2
<1>4. ASSUME NEW s \in Servers, NEW i \in 1 .. Len(wire[s]) PROVE wire[s][i].n \in Nat
  <2>1. wire[s] \in Seq(WirePackets)
    BY <1>2
  <2>2. wire[s][i] \in WirePackets
    BY <2>1
  <2>. QED
    BY <2>2 DEF WirePackets
<1>. QED
  BY <1>1, <1>2, <1>3, <1>4

LEMMA SentTypes == ASSUME LocalInv, LocalInv' PROVE TypeOK /\ TypeOK' /\ Sent \in Int /\ Sent' \in Int
<1>1. TypeOK /\ TypeOK'
  BY DEF LocalInv
<1>2. line.n \in Nat /\ line'.n \in Nat
  BY <1>1 DEF TypeOK
<1>. QED
  BY <1>1, <1>2 DEF Sent

LEMMA SocketOfConnection ==
  ASSUME TypeOK, NEW c \in 0 .. Len(objects), c # 0
  PROVE  objects[c].sockfd \in Descriptors
<1>1. objects \in Seq(Objects)
  BY DEF TypeOK, Objects
<1>2. objects[c] \in Objects
  BY <1>1
<1>. QED
  BY <1>2 DEF Objects

LEMMA SocketOfObject ==
  ASSUME LocalInv, NEW j \in 1 .. Len(objects)
  PROVE  objects[j].sockfd \in Descriptors
<1>1. objects \in Seq(Objects)
  BY DEF LocalInv, TypeOK, Objects
<1>2. objects[j] \in Objects
  BY <1>1
<1>. QED
  BY <1>2 DEF Objects

(* A step that puts nothing on the wire and takes nothing from it. *)
LEMMA QuietOrder ==
  ASSUME LocalInv, LocalInv', OrderInv, FileOK', Sent <= Sent', UNCHANGED <<wire, serverVars>>
  PROVE  OrderInv'
<1>1. TypeOK /\ TypeOK'
  BY DEF LocalInv
<1>2. Sent \in Int /\ Sent' \in Int
  BY <1>1, OrderTypes DEF TypeOK, Sent
<1>3. /\ UNCHANGED wire /\ UNCHANGED up /\ UNCHANGED carried /\ UNCHANGED primaryServer
      /\ UNCHANGED session
  BY DEF serverVars
<1>4. OnePrimary' /\ WireOK' /\ WireInOrder'
  BY <1>3 DEF OrderInv, OnePrimary, WireOK, WireInOrder, Open
<1>5. WireAfterCarried'
  BY <1>1, <1>2, <1>3, OrderTypes DEF OrderInv, WireAfterCarried
<1>6. CarriedOK'
  BY <1>1, <1>2, <1>3, OrderTypes DEF OrderInv, CarriedOK
<1>. QED
  BY <1>4, <1>5, <1>6 DEF OrderInv

(* A step that sends: a command that is sent is later than all before it. *)
LEMMA DeliverOrder ==
  ASSUME LocalInv, LocalInv', OrderInv, Sent <= Sent', UNCHANGED <<file, serverVars>>,
         NEW f \in Descriptors, NEW packet \in WirePackets, Deliver(f, packet),
         packet.cmd = "SEND" => Sent < packet.n /\ packet.n <= Sent'
  PROVE  OrderInv'
<1>1. TypeOK /\ TypeOK'
  BY DEF LocalInv
<1>2. Sent \in Int /\ Sent' \in Int
  BY <1>1, OrderTypes DEF TypeOK, Sent
<1>3. /\ UNCHANGED file /\ UNCHANGED up /\ UNCHANGED carried /\ UNCHANGED primaryServer
      /\ UNCHANGED session
  BY DEF serverVars
<1>4. FileOK'
  BY <1>3 DEF OrderInv, FileOK
<1>5. CASE ~(file[f] \in Servers /\ Open(file[f]))
  BY <1>4, <1>5, QuietOrder DEF Deliver, serverVars
<1>6. CASE file[f] \in Servers /\ Open(file[f])
  <2> DEFINE s == file[f]
  <2>1. s \in Servers /\ up[s] = "listening" /\ Open(s)
    BY <1>6 DEF OrderInv, FileOK, Open
  <2>2. wire \in [Servers -> Seq(WirePackets)] /\ packet.n \in Nat
    <3>1. packet.n \in Nat
      BY DEF WirePackets
    <3>. QED
      BY <1>1, <3>1, OrderTypes
  <2>3. wire' = [wire EXCEPT ![s] = Append(wire[s], packet)]
    BY <1>6 DEF Deliver
  <2>4. wire[s] \in Seq(WirePackets)
    BY <2>1, <2>2
  <2>5. /\ Len(wire'[s]) = Len(wire[s]) + 1
        /\ \A i \in 1 .. Len(wire[s]) : wire'[s][i] = wire[s][i]
        /\ wire'[s][Len(wire[s]) + 1] = packet
        /\ Len(wire[s]) \in Nat
    BY <2>1, <2>2, <2>3, <2>4, AppendProperties
  <2>6. \A t \in Servers : t # s => wire'[t] = wire[t]
    BY <2>2, <2>3
  <2>7. OnePrimary'
    BY <1>3 DEF OrderInv, OnePrimary
  <2>8. WireOK'
    BY <1>3, <2>1, <2>6 DEF OrderInv, WireOK, Open
  <2>9. WireAfterCarried'
    <3> SUFFICES ASSUME NEW t \in Servers, NEW i \in 1 .. Len(wire'[t]), wire'[t][i].cmd = "SEND"
                 PROVE  /\ wire'[t][i].n <= Sent'
                        /\ \A k \in 1 .. Len(carried) : carried[k] < wire'[t][i].n
      BY <1>3 DEF WireAfterCarried
    <3>1. CASE t = s /\ i = Len(wire[s]) + 1
      <4>1. wire'[t][i] = packet
        BY <3>1, <2>5
      <4>2. \A k \in 1 .. Len(carried) : carried[k] <= Sent /\ carried[k] \in Nat
        BY <1>1, OrderTypes DEF OrderInv, CarriedOK
      <4>. QED
        BY <4>1, <4>2, <1>2, <2>2, SMTT(30)
    <3>2. CASE ~(t = s /\ i = Len(wire[s]) + 1)
      <4>1. i \in 1 .. Len(wire[t]) /\ wire'[t][i] = wire[t][i]
        BY <3>2, <2>5, <2>6
      <4>2. wire[t][i].n <= Sent /\ wire[t][i].n \in Nat
            /\ \A k \in 1 .. Len(carried) : carried[k] < wire[t][i].n
        BY <1>1, <4>1, OrderTypes DEF OrderInv, WireAfterCarried
      <4>. QED
        BY <4>1, <4>2, <1>2
    <3>. QED
      BY <3>1, <3>2
  <2>10. WireInOrder'
    <3> SUFFICES ASSUME NEW t \in Servers, NEW i \in 1 .. Len(wire'[t]), NEW j \in 1 .. Len(wire'[t]),
                        i < j, wire'[t][i].cmd = "SEND", wire'[t][j].cmd = "SEND"
                 PROVE  wire'[t][i].n < wire'[t][j].n
      BY DEF WireInOrder
    <3>1. CASE t = s /\ j = Len(wire[s]) + 1
      <4>1. wire'[t][j] = packet /\ i \in 1 .. Len(wire[s]) /\ wire'[t][i] = wire[t][i]
        BY <3>1, <2>5
      <4>2. wire[t][i].n <= Sent /\ wire[t][i].n \in Nat
        BY <1>1, <3>1, <4>1, OrderTypes DEF OrderInv, WireAfterCarried
      <4>. QED
        BY <4>1, <4>2, <1>2, <2>2
    <3>2. CASE ~(t = s /\ j = Len(wire[s]) + 1)
      <4>1. /\ i \in 1 .. Len(wire[t]) /\ wire'[t][i] = wire[t][i]
            /\ j \in 1 .. Len(wire[t]) /\ wire'[t][j] = wire[t][j]
        BY <3>2, <2>5, <2>6, SMTT(30)
      <4>. QED
        BY <4>1 DEF OrderInv, WireInOrder
    <3>. QED
      BY <3>1, <3>2
  <2>11. CarriedOK'
    BY <1>1, <1>2, <1>3, OrderTypes DEF OrderInv, CarriedOK
  <2>. QED
    BY <1>4, <2>7, <2>8, <2>9, <2>10, <2>11 DEF OrderInv
<1>. QED
  BY <1>5, <1>6

(* The steps of the program: three of them send something that is no command,
   Put sends the line after those that were sent. *)
LEMMA ToServerOrder ==
  ASSUME LocalInv, LocalInv', OrderInv, ToServer
  PROVE  OrderInv'
<1>1. TypeOK /\ TypeOK' /\ Sent \in Int /\ Sent' \in Int
  BY SentTypes
<1>0. con \in 0 .. Len(objects) /\ taken \in 0 .. Len(objects)
  BY <1>1 DEF TypeOK
<1>2. line.n \in Nat /\ line.n \in 0 .. MaxLines
  BY <1>1 DEF TypeOK
<1>3. CASE Present
  <2>0. con # 0
    BY <1>3 DEF Present, LocalInv, ConOK
  <2>1. objects[con].sockfd \in Descriptors /\ Packet("PROFILE", 0) \in WirePackets
    BY <1>0, <1>1, <2>0, SocketOfConnection DEF Packet, WirePackets
  <2>2. UNCHANGED <<file, serverVars>> /\ UNCHANGED <<line>> /\ pcT = "present" /\ pcT' \in {"present", "read"}
    BY <1>3 DEF Present
  <2>3. Sent' = Sent
    BY <2>2 DEF Sent
  <2>4. FileOK'
    BY <2>2 DEF OrderInv, FileOK, serverVars
  <2>5. CASE RaisesSIGPIPE(objects[con].sockfd)
    BY <1>1, <1>3, <2>2, <2>3, <2>4, <2>5, QuietOrder DEF Present
  <2>6. CASE ~RaisesSIGPIPE(objects[con].sockfd)
    <3>1. Deliver(objects[con].sockfd, Packet("PROFILE", 0)) /\ Packet("PROFILE", 0).cmd # "SEND"
      BY <1>3, <2>6 DEF Present, Packet
    <3>. QED
      BY <1>1, <2>1, <2>2, <2>3, <3>1, DeliverOrder
  <2>. QED
    BY <2>5, <2>6
<1>4. CASE Check
  <2>1. UNCHANGED <<wire, serverVars>> /\ UNCHANGED file /\ UNCHANGED line
    BY <1>4 DEF Check, fromServerVars
  <2>2. Sent <= Sent'
    BY <1>2, <1>4, <2>1 DEF Check, Sent
  <2>3. FileOK'
    BY <2>1 DEF OrderInv, FileOK, serverVars
  <2>. QED
    BY <2>1, <2>2, <2>3, QuietOrder
<1>5. CASE Put
  <2> DEFINE f == objects[taken].sockfd
  <2>0. taken # 0
    BY <1>5 DEF Put, LocalInv, ConOK
  <2>1. f \in Descriptors
    BY <1>0, <1>1, <2>0, SocketOfConnection
  <2>2. UNCHANGED <<file, serverVars>> /\ UNCHANGED line /\ pcT = "put"
    BY <1>5 DEF Put
  <2>3. FileOK'
    BY <2>2 DEF OrderInv, FileOK, serverVars
  <2>4. CASE RaisesSIGPIPE(f)
    <3>1. UNCHANGED wire /\ UNCHANGED pcT
      BY <1>5, <2>4 DEF Put
    <3>2. Sent' = Sent
      BY <2>2, <3>1 DEF Sent
    <3>. QED
      BY <1>1, <2>2, <2>3, <3>1, <3>2, QuietOrder
  <2>5. CASE ~RaisesSIGPIPE(f)
    <3>1. Deliver(f, Packet("SEND", line.n)) /\ pcT' = "read"
      BY <1>5, <2>5 DEF Put, AfterPut
    <3>2. Packet("SEND", line.n) \in WirePackets /\ Packet("SEND", line.n).n = line.n
      BY <1>2 DEF Packet, WirePackets
    <3>3. Sent = line.n - 1 /\ Sent' = line.n
      BY <2>2, <3>1 DEF Sent
    <3>. QED
      BY <1>2, <2>1, <2>2, <3>1, <3>2, <3>3, DeliverOrder
  <2>. QED
    BY <2>4, <2>5
<1>. QED
  BY <1>3, <1>4, <1>5 DEF ToServer

LEMMA UserOrder ==
  ASSUME LocalInv, LocalInv', OrderInv, User
  PROVE  OrderInv'
<1>1. TypeOK /\ TypeOK' /\ Sent \in Int /\ Sent' \in Int
  BY SentTypes
<1>2. line.n \in Nat /\ con \in 0 .. Len(objects)
  BY <1>1 DEF TypeOK
<1>3. Packet("CLOSE_CONN", 0) \in WirePackets /\ Packet("CLOSE_CONN", 0).cmd # "SEND"
  BY DEF Packet, WirePackets
<1>4. UNCHANGED <<file, serverVars>>
  BY DEF User, ReadLine, EndOfInput, Interrupt
<1>5. FileOK'
  BY <1>4 DEF OrderInv, FileOK, serverVars
<1>6. ASSUME NEW kind \in Kinds, ReadLine(kind) PROVE OrderInv'
  <2>1. UNCHANGED wire /\ pcT = "read" /\ pcT' = "check" /\ line'.n = line.n + 1
    BY <1>6 DEF ReadLine
  <2>2. Sent' = Sent
    BY <1>2, <2>1 DEF Sent
  <2>. QED
    BY <1>1, <1>4, <1>5, <2>1, <2>2, QuietOrder
<1>7. CASE EndOfInput
  <2>0. con # 0
    BY <1>7 DEF EndOfInput, LocalInv, ConOK
  <2>1. objects[con].sockfd \in Descriptors
    BY <1>1, <1>2, <2>0, SocketOfConnection
  <2>2. UNCHANGED pcT /\ UNCHANGED line
    BY <1>7 DEF EndOfInput, toServerVars
  <2>3. Sent' = Sent
    BY <2>2 DEF Sent
  <2>. QED
    BY <1>1, <1>3, <1>4, <1>7, <2>1, <2>3, DeliverOrder DEF EndOfInput
<1>8. CASE Interrupt
  <2>1. UNCHANGED pcT /\ UNCHANGED line
    BY <1>8 DEF Interrupt, toServerVars
  <2>2. Sent' = Sent
    BY <2>1 DEF Sent
  <2>3. CASE con = 0
    BY <1>1, <1>4, <1>5, <1>8, <2>2, <2>3, QuietOrder DEF Interrupt
  <2>4. CASE con # 0
    <3>1. objects[con].sockfd \in Descriptors
      BY <1>1, <1>2, <2>4, SocketOfConnection
    <3>. QED
      BY <1>1, <1>3, <1>4, <1>8, <2>2, <2>4, <3>1, DeliverOrder DEF Interrupt
  <2>. QED
    BY <2>3, <2>4
<1>. QED
  BY <1>6, <1>7, <1>8 DEF User

LEMMA FromServerOrder ==
  ASSUME LocalInv, LocalInv', OrderInv, FromServer
  PROVE  OrderInv'
<1>1. TypeOK /\ TypeOK' /\ Sent \in Int /\ Sent' \in Int
  BY SentTypes
<1>2. UNCHANGED serverVars /\ UNCHANGED line /\ (pcT' # pcT => pcT = "unborn" /\ pcT' = "present")
  <2>1. CASE Receive \/ Ask \/ Socket \/ SendOK
    BY <2>1 DEF Receive, Ask, Socket, SendOK, toServerVars
  <2>2. CASE Connect
    BY <2>2 DEF Connect
  <2>. QED
    BY <2>1, <2>2 DEF FromServer
<1>3. Sent' = Sent
  BY <1>2 DEF Sent
<1>4. CASE SendOK
  <2>0. con # 0 /\ con \in 0 .. Len(objects)
    BY <1>1, <1>4 DEF SendOK, LocalInv, ConOK, TypeOK
  <2>1. objects[con].sockfd \in Descriptors /\ Packet("OK", 0) \in WirePackets
    BY <1>1, <2>0, SocketOfConnection DEF Packet, WirePackets
  <2>2. UNCHANGED file
    BY <1>4 DEF SendOK
  <2>3. FileOK'
    BY <1>2, <2>2 DEF OrderInv, FileOK, serverVars
  <2>4. CASE RaisesSIGPIPE(objects[con].sockfd)
    BY <1>1, <1>2, <1>3, <1>4, <2>3, <2>4, QuietOrder DEF SendOK
  <2>5. CASE ~RaisesSIGPIPE(objects[con].sockfd)
    <3>1. Deliver(objects[con].sockfd, Packet("OK", 0)) /\ Packet("OK", 0).cmd # "SEND"
      BY <1>4, <2>5 DEF SendOK, Packet
    <3>. QED
      BY <1>1, <1>2, <1>3, <2>1, <2>2, <3>1, DeliverOrder
  <2>. QED
    BY <2>4, <2>5
<1>5. CASE Receive \/ Ask \/ Socket \/ Connect
  <2>1. UNCHANGED wire
    BY <1>5 DEF Receive, Ask, Socket, Connect
  <2>2. up' = up
    BY <1>2 DEF serverVars
  <2>3. \A f \in Descriptors : \/ file'[f] = file[f]
                               \/ file'[f] \notin Servers
                               \/ file'[f] \in Servers /\ up[file'[f]] = "listening"
    <3>1. file \in [Descriptors -> Servers \cup {Free, Unconnected}]
          /\ Free \notin Servers /\ Unconnected \notin Servers
      BY <1>1 DEF TypeOK, Servers, Free, Unconnected
    <3>2. CASE Receive
      BY <3>2 DEF Receive
    <3>3. CASE Ask
      BY <3>1, <3>3 DEF Ask
    <3>4. CASE Socket
      BY <3>1, <3>4 DEF Socket
    <3>5. CASE Connect
      <4>1. file' = file \/ \E s \in Servers : up[s] = "listening" /\ file' = [file EXCEPT ![sockfd] = s]
        BY <3>5 DEF Connect, Listening
      <4>. QED
        BY <3>1, <4>1
    <3>. QED
      BY <1>5, <3>2, <3>3, <3>4, <3>5
  <2>4. FileOK'
    BY <2>2, <2>3 DEF OrderInv, FileOK
  <2>. QED
    BY <1>1, <1>2, <1>3, <2>1, <2>4, QuietOrder
<1>. QED
  BY <1>4, <1>5 DEF FromServer

(* The steps of the servers. *)
LEMMA NameOrder ==
  ASSUME LocalInv, LocalInv', OrderInv, NEW a \in Addresses, Name(a)
  PROVE  OrderInv'
<1>1. TypeOK
  BY DEF LocalInv
<1>2. primaryServer' = primaryServer + 1 /\ primaryServer' \in Servers /\ primaryServer \in Nat
  BY <1>1 DEF Name, TypeOK, Servers
<1>3. /\ up \in [Servers -> {"off", "naming", "named", "listening", "dead"}]
      /\ \E u \in {"naming", "named"} : up' = [up EXCEPT ![primaryServer'] = u]
  BY <1>1 DEF Name, TypeOK
<1>4. up[primaryServer'] = "off"
  BY <1>2 DEF OrderInv, OnePrimary, Servers
<1>5. \A s \in Servers : up[s] \notin {"naming", "named", "listening"}
  <2>1. \A s \in Servers : s = primaryServer => up[s] = "dead"
    BY <1>2 DEF Name, Servers
  <2>. QED
    BY <2>1 DEF OrderInv, OnePrimary
<1>6. UNCHANGED <<file, wire, carried, session, pcT, line>>
  BY DEF Name, clientVars, toServerVars
<1>7. OnePrimary'
  BY <1>2, <1>3, <1>5 DEF OrderInv, OnePrimary, Servers
<1>8. FileOK' /\ WireOK'
  BY <1>3, <1>4, <1>6 DEF OrderInv, FileOK, WireOK, Open
<1>9. WireAfterCarried' /\ WireInOrder' /\ CarriedOK'
  BY <1>6 DEF OrderInv, WireAfterCarried, WireInOrder, CarriedOK, Sent
<1>. QED
  BY <1>7, <1>8, <1>9 DEF OrderInv

LEMMA ListenOrder ==
  ASSUME LocalInv, LocalInv', OrderInv, NEW s \in Servers, Named(s) \/ Listen(s)
  PROVE  OrderInv'
<1>1. /\ up \in [Servers -> {"off", "naming", "named", "listening", "dead"}]
      /\ \/ up[s] = "naming" /\ up' = [up EXCEPT ![s] = "named"]
         \/ up[s] = "named" /\ up' = [up EXCEPT ![s] = "listening"]
  BY DEF Named, Listen, LocalInv, TypeOK
<1>2. UNCHANGED <<file, wire, carried, session, primaryServer, pcT, line>>
  BY DEF Named, Listen, clientVars, toServerVars
<1>3. OnePrimary' /\ FileOK' /\ WireOK'
  BY <1>1, <1>2 DEF OrderInv, OnePrimary, FileOK, WireOK, Open
<1>4. WireAfterCarried' /\ WireInOrder' /\ CarriedOK'
  BY <1>2 DEF OrderInv, WireAfterCarried, WireInOrder, CarriedOK, Sent
<1>. QED
  BY <1>3, <1>4 DEF OrderInv

(* A server's end is closed: nothing is on its way to it any more. *)
LEMMA CloseOrder ==
  ASSUME LocalInv, LocalInv', OrderInv, NEW s \in Servers, Crash(s) \/ Refuse(s) \/ Leave(s)
  PROVE  OrderInv'
<1>1. /\ up \in [Servers -> {"off", "naming", "named", "listening", "dead"}]
      /\ up' = up \/ (up' = [up EXCEPT ![s] = "dead"] /\ up[s] \in {"naming", "named", "listening"})
      /\ up' = up => up[s] # "off"
      /\ \A t \in Servers : t # s => session'[t] = session[t]
  BY DEF Crash, Refuse, Leave, Reads, LocalInv, TypeOK
<1>2. DOMAIN wire = Servers /\ wire' = [wire EXCEPT ![s] = <<>>]
  BY DEF Crash, Refuse, Leave, CloseServerEnd, LocalInv, TypeOK
<1>3. \A t \in Servers : wire'[t] = IF t = s THEN <<>> ELSE wire[t]
  BY <1>2
<1>4. UNCHANGED <<file, carried, primaryServer, pcT, line>>
  BY DEF Crash, Refuse, Leave, clientVars, toServerVars
<1>5. OnePrimary' /\ FileOK'
  BY <1>1, <1>4 DEF OrderInv, OnePrimary, FileOK
<1>6. WireOK'
  BY <1>1, <1>3 DEF OrderInv, WireOK, Open
<1>7. 1 .. Len(<<>>) = {}
  OBVIOUS
<1>8. WireAfterCarried' /\ WireInOrder'
  BY <1>3, <1>4, <1>7 DEF OrderInv, WireAfterCarried, WireInOrder, Sent
<1>9. CarriedOK'
  BY <1>4 DEF OrderInv, CarriedOK, Sent
<1>. QED
  BY <1>5, <1>6, <1>8, <1>9 DEF OrderInv

(* What is carried out next is the first on its way to the primary, and
   nothing is on its way to another server. *)
LEMMA ProcessOrder ==
  ASSUME LocalInv, LocalInv', OrderInv, NEW s \in Servers, Process(s)
  PROVE  OrderInv'
<1>1. TypeOK /\ Sent \in Int /\ Sent' = Sent
  BY OrderTypes DEF LocalInv, Process, clientVars, toServerVars, Sent
<1>2. UNCHANGED <<up, file, primaryServer>>
  BY DEF Process, clientVars
<1>3. /\ wire \in [Servers -> Seq(WirePackets)] /\ wire[s] # <<>> /\ up[s] = "listening"
      /\ wire' = [wire EXCEPT ![s] = Tail(wire[s])]
  BY <1>1, OrderTypes DEF Process, Reads
<1>4. wire[s] \in Seq(WirePackets)
  BY <1>3
<1>5. /\ Len(wire[s]) \in Nat \ {0} /\ Head(wire[s]) = wire[s][1]
      /\ Len(Tail(wire[s])) = Len(wire[s]) - 1
      /\ \A i \in 1 .. Len(wire[s]) - 1 : Tail(wire[s])[i] = wire[s][i + 1]
  BY <1>3, <1>4, HeadTailProperties, EmptySeq
<1>6. \A t \in Servers : t # s => wire'[t] = wire[t] /\ wire[t] = <<>>
  BY <1>2, <1>3 DEF OrderInv, OnePrimary, WireOK
<1>7. wire'[s] = Tail(wire[s])
  BY <1>3
<1>8. ASSUME NEW t \in Servers, NEW i \in 1 .. Len(wire'[t])
      PROVE  t = s /\ i + 1 \in 1 .. Len(wire[s]) /\ wire'[t][i] = wire[s][i + 1]
  <2>1. t = s
    BY <1>6, 1 .. Len(<<>>) = {}
  <2>. QED
    BY <2>1, <1>5, <1>7
<1>9. OnePrimary' /\ FileOK'
  BY <1>2 DEF OrderInv, OnePrimary, FileOK
<1>10. WireOK'
  <2>1. session'[s] = "on"
    BY DEF Process, LocalInv, TypeOK
  <2>. QED
    BY <1>2, <1>3, <1>6, <2>1 DEF WireOK, Open
<1>11. WireInOrder'
  <2> SUFFICES ASSUME NEW t \in Servers, NEW i \in 1 .. Len(wire'[t]), NEW j \in 1 .. Len(wire'[t]),
                      i < j, wire'[t][i].cmd = "SEND", wire'[t][j].cmd = "SEND"
               PROVE  wire'[t][i].n < wire'[t][j].n
    BY DEF WireInOrder
  <2>1. /\ i + 1 \in 1 .. Len(wire[s]) /\ wire'[t][i] = wire[s][i + 1]
        /\ j + 1 \in 1 .. Len(wire[s]) /\ wire'[t][j] = wire[s][j + 1]
    BY <1>8
  <2>2. i + 1 < j + 1
    OBVIOUS
  <2>. QED
    BY <2>1, <2>2 DEF OrderInv, WireInOrder
<1>12. CASE carried' = carried
  <2>1. CarriedOK'
    BY <1>1, <1>12 DEF OrderInv, CarriedOK
  <2>2. WireAfterCarried'
    <3> SUFFICES ASSUME NEW t \in Servers, NEW i \in 1 .. Len(wire'[t]), wire'[t][i].cmd = "SEND"
                 PROVE  /\ wire'[t][i].n <= Sent
                        /\ \A k \in 1 .. Len(carried) : carried[k] < wire'[t][i].n
      BY <1>1, <1>12 DEF WireAfterCarried
    <3>1. i + 1 \in 1 .. Len(wire[s]) /\ wire'[t][i] = wire[s][i + 1]
      BY <1>8
    <3>2. \A m \in 1 .. Len(wire[s]) : wire[s][m].cmd = "SEND" =>
            /\ wire[s][m].n <= Sent
            /\ \A k \in 1 .. Len(carried) : carried[k] < wire[s][m].n
      BY DEF OrderInv, WireAfterCarried
    <3>. QED
      BY <3>1, <3>2
  <2>. QED
    BY <2>1, <2>2, <1>9, <1>10, <1>11 DEF OrderInv
<1>13. CASE carried' # carried
  <2> DEFINE n == wire[s][1].n
  <2>1. wire[s][1].cmd = "SEND" /\ carried' = Append(carried, n)
    BY <1>5, <1>13 DEF Process
  <2>2. carried \in Seq(0 .. MaxLines) /\ n \in 0 .. MaxLines
    <3>1. wire[s][1] \in WirePackets
      BY <1>4, <1>5
    <3>2. wire[s][1].n \in 0 .. MaxLines
      BY <3>1 DEF WirePackets
    <3>. QED
      BY <1>1, <3>2, OrderTypes
  <2>3. /\ Len(carried') = Len(carried) + 1 /\ Len(carried) \in Nat
        /\ carried'[Len(carried) + 1] = n
        /\ \A k \in 1 .. Len(carried) : carried'[k] = carried[k]
    BY <2>1, <2>2, AppendProperties
  <2>4. n <= Sent /\ \A k \in 1 .. Len(carried) : carried[k] < n
    BY <1>5, <2>1 DEF OrderInv, WireAfterCarried
  <2>5. CarriedOK'
    <3>1. ASSUME NEW k \in 1 .. Len(carried') PROVE carried'[k] <= Sent'
      <4>1. CASE k = Len(carried) + 1
        BY <1>1, <2>3, <2>4, <4>1
      <4>2. CASE k # Len(carried) + 1
        BY <1>1, <2>3, <4>2 DEF OrderInv, CarriedOK
      <4>. QED
        BY <4>1, <4>2
    <3>2. ASSUME NEW k \in 1 .. Len(carried'), NEW l \in 1 .. Len(carried'), k < l
          PROVE  carried'[k] < carried'[l]
      <4>1. k \in 1 .. Len(carried)
        BY <2>3, <3>2
      <4>2. CASE l = Len(carried) + 1
        BY <2>3, <2>4, <4>1, <4>2
      <4>3. CASE l # Len(carried) + 1
        BY <2>3, <3>2, <4>1, <4>3 DEF OrderInv, CarriedOK
      <4>. QED
        BY <4>2, <4>3
    <3>. QED
      BY <3>1, <3>2 DEF CarriedOK
  <2>6. WireAfterCarried'
    <3> SUFFICES ASSUME NEW t \in Servers, NEW i \in 1 .. Len(wire'[t]), wire'[t][i].cmd = "SEND"
                 PROVE  /\ wire'[t][i].n <= Sent'
                        /\ \A k \in 1 .. Len(carried') : carried'[k] < wire'[t][i].n
      BY DEF WireAfterCarried
    <3>1. i + 1 \in 1 .. Len(wire[s]) /\ wire'[t][i] = wire[s][i + 1] /\ 1 < i + 1
      BY <1>8
    <3>2. wire'[t][i].n <= Sent' /\ \A k \in 1 .. Len(carried) : carried[k] < wire'[t][i].n
      BY <1>1, <3>1 DEF OrderInv, WireAfterCarried
    <3>3. n < wire'[t][i].n
      BY <1>5, <2>1, <3>1 DEF OrderInv, WireInOrder
    <3>. QED
      BY <2>3, <3>2, <3>3
  <2>. QED
    BY <2>5, <2>6, <1>9, <1>10, <1>11 DEF OrderInv
<1>. QED
  BY <1>12, <1>13

(* Every step keeps the order. *)
LEMMA NextOrderInv == LocalInv /\ LocalInv' /\ OrderInv /\ [Next]_vars => OrderInv'
<1> SUFFICES ASSUME LocalInv, LocalInv', OrderInv, [Next]_vars PROVE OrderInv'
  OBVIOUS
<1>1. CASE ToServer \/ User \/ FromServer
  BY <1>1, ToServerOrder, UserOrder, FromServerOrder
<1>2. ASSUME NEW a \in Addresses, Name(a) PROVE OrderInv'
  BY <1>2, NameOrder
<1>4. ASSUME NEW s \in Servers, Named(s) \/ Listen(s) \/ Crash(s) \/ Serve(s) PROVE OrderInv'
  BY <1>4, ListenOrder, CloseOrder, ProcessOrder DEF Serve
<1>3. CASE UNCHANGED vars
  <2>1. UNCHANGED <<wire, serverVars>> /\ UNCHANGED <<file, pcT, line>>
    BY <1>3 DEF vars, toServerVars
  <2>2. Sent' = Sent /\ Sent \in Int
    BY <2>1, OrderTypes DEF Sent, LocalInv
  <2>3. FileOK'
    BY <2>1 DEF OrderInv, FileOK, serverVars
  <2>. QED
    BY <2>1, <2>2, <2>3, QuietOrder
<1>. QED
  BY <1>1, <1>2, <1>3, <1>4 DEF Next

LEMMA OrderInvCarried == LocalInv /\ OrderInv => CommandsInOrder
<1> SUFFICES ASSUME LocalInv, OrderInv PROVE CommandsInOrder
  OBVIOUS
<1>1. DOMAIN carried = 1 .. Len(carried)
  BY DEF LocalInv, TypeOK
<1>. QED
  BY <1>1 DEF OrderInv, CarriedOK, CommandsInOrder

(* Whichever servers take what the user types, they carry it out in the order
   it was typed and none of it twice (client/main.cpp:62, 70, 121). *)
THEOREM CarriedOutInOrder == Spec => []CommandsInOrder
<1>. QED
  BY AlwaysLocalInv, InitOrderInv, NextOrderInv, OrderInvCarried, PTL DEF Spec

-----------------------------------------------------------------------------
(* What is sent outside a failover.  Descriptors are not lost track of: the
   one that updateConn closes is the lowest free number, so the next socket is
   given it again.  What an older connection's descriptor has become is thus
   either the new connection, or a socket on which send kills the process. *)
ConSocket == objects[con].sockfd

DescriptorsOK ==
  /\ con = Len(objects)
  /\ \A j \in 1 .. Len(objects) :
       objects[j].sockfd = ConSocket \/ file[objects[j].sockfd] = Unconnected
  /\ \A f, g \in Descriptors :
       f < g /\ file[f] = Free /\ file[g] # Free => con # 0 /\ f = ConSocket
  /\ con # 0 =>
       /\ \A f \in Descriptors : f < ConSocket => file[f] # Free
       /\ file[ConSocket] = Free => pcF = "socket"
       /\ pcF \in {"socket", "connect"} => file[ConSocket] \in {Free, Unconnected}
  /\ pcF = "connect" => file[sockfd] = Unconnected

(* The server of con has been told, or will be, whose connection it is. *)
Presented ==
  pcF \in {"recv", "ask"} /\ con # 0 /\ pcT \notin {"unborn", "present"} =>
    up[ServerOfCon] = "dead" \/ session[ServerOfCon] # "none" \/ wire[ServerOfCon] # <<>>

(* A command that will be carried out waits behind a presentation. *)
Waits(command) ==
  \E j \in 1 .. Len(wire[command.server]) :
    /\ wire[command.server][j] = Packet("SEND", command.n)
    /\ session[command.server] = "none" => j > 1

SettledOK ==
  \A command \in settled :
    \/ up[command.server] = "dead" \/ session[command.server] = "refused"
    \/ Contains(carried, command.n) \/ Waits(command)

SettledInv == DescriptorsOK /\ Presented /\ SettledOK

(* CLOSE_CONN is the last thing the program sends. *)
NothingBehindClose ==
  \A s \in Servers :
    /\ session[s] = "left" => ~Running
    /\ \A i \in 1 .. Len(wire[s]) : wire[s][i].cmd = "CLOSE_CONN" => i = Len(wire[s]) /\ ~Running

LEMMA InitSettled == Init => SettledInv
<1> SUFFICES ASSUME Init PROVE SettledInv
  OBVIOUS
<1>1. objects = <<>> /\ con = 0 /\ pcF = "ask" /\ settled = {} /\ \A f \in Descriptors : file[f] = Free
  BY DEF Init
<1>2. Len(objects) = 0
  BY <1>1
<1>. QED
  BY <1>1, <1>2 DEF SettledInv, DescriptorsOK, Presented, SettledOK

(* A delivery adds at the end, and to the server of a connection if it is open. *)
LEMMA Delivered ==
  ASSUME LocalInv, NEW f, NEW packet, Deliver(f, packet)
  PROVE  /\ \A s \in Servers : wire'[s] = wire[s] \/ wire'[s] = Append(wire[s], packet)
         /\ file[f] \in Servers => \/ ~Open(file[f])
                                   \/ wire'[file[f]] = Append(wire[file[f]], packet)
  BY DEF Deliver, LocalInv, TypeOK

LEMMA WireSequences ==
  ASSUME LocalInv, NEW s \in Servers
  PROVE  /\ wire[s] \in Seq(WirePackets) /\ Len(wire[s]) \in Nat
         /\ wire[s] # <<>> <=> Len(wire[s]) > 0
<1>1. wire[s] \in Seq(WirePackets)
  BY DEF LocalInv, TypeOK, WirePackets
<1>. QED
  BY <1>1

LEMMA AppendGrows ==
  ASSUME NEW S, NEW q \in Seq(S), NEW p \in S
  PROVE  /\ Append(q, p) # <<>> /\ Append(q, p) \in Seq(S)
         /\ Len(Append(q, p)) = Len(q) + 1 /\ Len(q) \in Nat
         /\ Append(q, p)[Len(q) + 1] = p
         /\ \A j \in 1 .. Len(q) : j \in 1 .. Len(q) + 1 /\ Append(q, p)[j] = q[j]
  OBVIOUS

(* Steps that leave the client's descriptors and connections alone. *)
LEMMA QuietDescriptors ==
  ASSUME DescriptorsOK, UNCHANGED <<file, objects, con>>,
         pcF' # "connect" \/ UNCHANGED <<pcF, sockfd>>,
         pcF' # "socket" => pcF' = pcF \/ pcF # "socket",
         pcF' = "socket" => pcF \in {"socket", "connect"}
  PROVE  DescriptorsOK'
  BY DEF DescriptorsOK, ConSocket

LEMMA QuietPresented ==
  ASSUME LocalInv, Presented, UNCHANGED <<file, objects, con>>,
         pcF' \in {"recv", "ask"} => pcF \in {"recv", "ask"},
         pcT \in {"unborn", "present"} => pcT' \in {"unborn", "present"},
         \A s \in Servers :
           up[s] = "dead" \/ session[s] # "none" \/ wire[s] # <<>> =>
             up'[s] = "dead" \/ session'[s] # "none" \/ wire'[s] # <<>>
  PROVE  Presented'
<1>1. pcF \in {"recv", "ask"} /\ con # 0 => ServerOfCon \in Servers
  BY DEF LocalInv, ConOK
<1>2. ServerOfCon' = ServerOfCon
  BY DEF ServerOfCon
<1>. QED
  BY <1>1, <1>2 DEF Presented

(* What waits still waits when packets are put behind it. *)
LEMMA WaitsGrows ==
  ASSUME LocalInv, NEW command, command.server \in Servers, Waits(command),
         NEW packet \in WirePackets,
         \A s \in Servers : wire'[s] = wire[s] \/ wire'[s] = Append(wire[s], packet)
  PROVE  \E j \in 1 .. Len(wire'[command.server]) :
           /\ wire'[command.server][j] = Packet("SEND", command.n)
           /\ session[command.server] = "none" => j > 1
<1> DEFINE s == command.server
<1>1. PICK j \in 1 .. Len(wire[s]) : /\ wire[s][j] = Packet("SEND", command.n)
                                     /\ session[s] = "none" => j > 1
  BY DEF Waits
<1>2. wire[s] \in Seq(WirePackets)
  BY WireSequences
<1>3. wire'[s] = wire[s] \/ wire'[s] = Append(wire[s], packet)
  OBVIOUS
<1> HIDE DEF s
<1>4. CASE wire'[s] = wire[s]
  BY <1>1, <1>4 DEF s
<1>5. CASE wire'[s] = Append(wire[s], packet)
  <2>1. j \in 1 .. Len(wire'[s]) /\ wire'[s][j] = wire[s][j]
    BY <1>1, <1>2, <1>5, AppendGrows
  <2>. QED
    BY <1>1, <2>1 DEF s
<1>. QED
  BY <1>3, <1>4, <1>5

LEMMA GrowingSettled ==
  ASSUME LocalInv, SettledOK, NEW packet \in WirePackets, UNCHANGED <<serverVars, settled>>,
         \A s \in Servers : wire'[s] = wire[s] \/ wire'[s] = Append(wire[s], packet)
  PROVE  SettledOK'
<1>1. \A command \in settled : command.server \in Servers
  BY DEF LocalInv, TypeOK
<1>. QED
  BY <1>1, WaitsGrows DEF SettledOK, Waits, serverVars

(* A packet that is put on the wire, by whatever thread. *)
LEMMA DeliverSettled ==
  ASSUME LocalInv, SettledInv, NEW f, NEW packet \in WirePackets, Deliver(f, packet),
         UNCHANGED <<serverVars, settled>>
  PROVE  /\ SettledOK'
         /\ \A s \in Servers : wire[s] # <<>> => wire'[s] # <<>>
         /\ file[f] \in Servers => ~Open(file[f]) \/ wire'[file[f]] # <<>>
<1>1. /\ \A s \in Servers : wire'[s] = wire[s] \/ wire'[s] = Append(wire[s], packet)
      /\ file[f] \in Servers => \/ ~Open(file[f])
                                \/ wire'[file[f]] = Append(wire[file[f]], packet)
  BY Delivered
<1>2. SettledOK'
  BY <1>1, GrowingSettled DEF SettledInv
<1>3. \A s \in Servers : wire[s] \in Seq(WirePackets) /\ Append(wire[s], packet) # <<>>
  BY WireSequences, AppendGrows
<1>. QED
  BY <1>1, <1>2, <1>3

LEMMA PresentSettled ==
  ASSUME LocalInv, SettledInv, Present
  PROVE  SettledInv'
<1>1. UNCHANGED <<fromServerVars, file, serverVars, settled>>
  BY DEF Present
<1>2. DescriptorsOK'
  BY <1>1, QuietDescriptors DEF SettledInv, fromServerVars
<1>3. CASE RaisesSIGPIPE(objects[con].sockfd)
  <2>1. wire' = wire /\ pcT' = pcT
    BY <1>3 DEF Present
  <2>2. Presented'
    BY <1>1, <2>1, QuietPresented DEF SettledInv, fromServerVars, serverVars
  <2>3. SettledOK'
    BY <1>1, <2>1 DEF SettledInv, SettledOK, Waits, serverVars
  <2>. QED
    BY <1>2, <2>2, <2>3 DEF SettledInv
<1>4. CASE ~RaisesSIGPIPE(objects[con].sockfd)
  <2>1. Deliver(ConSocket, Packet("PROFILE", 0)) /\ Packet("PROFILE", 0) \in WirePackets
    BY <1>4 DEF Present, ConSocket, Packet, WirePackets
  <2>2. /\ SettledOK'
        /\ file[ConSocket] \in Servers => ~Open(file[ConSocket]) \/ wire'[file[ConSocket]] # <<>>
    BY <1>1, <2>1, DeliverSettled
  <2>3. pcF \in {"recv", "ask"} /\ con # 0 => ServerOfCon \in Servers
    BY DEF LocalInv, ConOK
  <2>4. /\ UNCHANGED <<pcF, con, up, session>>
        /\ ServerOfCon' = ServerOfCon /\ ServerOfCon = file[ConSocket]
    BY <1>1 DEF fromServerVars, serverVars, ServerOfCon, ConSocket
  <2>5. Presented'
    BY <2>2, <2>3, <2>4 DEF Presented, Open
  <2>. QED
    BY <1>2, <2>2, <2>5 DEF SettledInv
<1>. QED
  BY <1>3, <1>4

LEMMA LineSettled ==
  ASSUME LocalInv, SettledInv, Check \/ \E kind \in Kinds : ReadLine(kind)
  PROVE  SettledInv'
<1>1. UNCHANGED <<fromServerVars, file, serverVars, wire, settled>>
  BY DEF Check, ReadLine
<1>2. pcT \notin {"unborn", "present"}
  BY DEF Check, ReadLine
<1>3. DescriptorsOK'
  BY <1>1, QuietDescriptors DEF SettledInv, fromServerVars
<1>4. Presented'
  BY <1>1, <1>2, QuietPresented DEF SettledInv, fromServerVars, serverVars
<1>5. SettledOK'
  BY <1>1 DEF SettledInv, SettledOK, Waits, serverVars
<1>. QED
  BY <1>3, <1>4, <1>5 DEF SettledInv

(* A packet that is counted as settled goes to the server of con, if it is open
   still, and there is a presentation before it. *)
LEMMA PutSettled ==
  ASSUME LocalInv, SettledInv, NothingBehindClose, Running, Put
  PROVE  SettledInv'
<1> DEFINE f == objects[taken].sockfd
           packet == Packet("SEND", line.n)
<1>1. pcT = "put" /\ UNCHANGED <<line, taken, fromServerVars, file, serverVars>>
  BY DEF Put
<1>2. DescriptorsOK'
  BY <1>1, QuietDescriptors DEF SettledInv, fromServerVars
<1>3. CASE RaisesSIGPIPE(f)
  <2>1. wire' = wire /\ settled' = settled
    BY <1>3 DEF Put
  <2>2. Presented'
    BY <1>1, <2>1, QuietPresented DEF SettledInv, fromServerVars, serverVars
  <2>3. SettledOK'
    BY <1>1, <2>1 DEF SettledInv, SettledOK, Waits, serverVars
  <2>. QED
    BY <1>2, <2>2, <2>3 DEF SettledInv
<1>4. CASE ~RaisesSIGPIPE(f)
  <2> DEFINE new == [n |-> line.n, server |-> ServerOfCon]
  <2>1. /\ Deliver(f, packet)
        /\ settled' = IF pcF = "recv" /\ up[ServerOfCon] = "listening"
                      THEN settled \cup {new} ELSE settled
    BY <1>4 DEF Put
  <2>2. packet \in WirePackets
    BY DEF LocalInv, TypeOK, Packet, WirePackets
  <2>3. /\ \A s \in Servers : wire'[s] = wire[s] \/ wire'[s] = Append(wire[s], packet)
        /\ file[f] \in Servers => \/ ~Open(file[f])
                                  \/ wire'[file[f]] = Append(wire[file[f]], packet)
    BY <2>1, Delivered
  <2>4. \A s \in Servers : wire[s] # <<>> => wire'[s] # <<>>
    BY <2>2, <2>3, WireSequences, AppendGrows
  <2>5. Presented'
    BY <1>1, <2>4, QuietPresented DEF SettledInv, fromServerVars, serverVars
  <2>6. \A command \in settled :
          \/ up[command.server] = "dead" \/ session[command.server] = "refused"
          \/ Contains(carried, command.n) \/ Waits(command)
    BY DEF SettledInv, SettledOK
  <2>7. ASSUME NEW command \in settled, Waits(command)
        PROVE  \E j \in 1 .. Len(wire'[command.server]) :
                 /\ wire'[command.server][j] = Packet("SEND", command.n)
                 /\ session[command.server] = "none" => j > 1
    <3>1. command.server \in Servers
      BY DEF LocalInv, TypeOK
    <3>. QED
      BY <2>2, <2>3, <2>7, <3>1, WaitsGrows
  <2>8. ASSUME pcF = "recv", up[ServerOfCon] = "listening", session[ServerOfCon] # "refused"
        PROVE  \E j \in 1 .. Len(wire'[ServerOfCon]) :
                 /\ wire'[ServerOfCon][j] = packet
                 /\ session[ServerOfCon] = "none" => j > 1
    <3>1. ServerOfCon \in Servers /\ con # 0 /\ taken \in 1 .. Len(objects)
      BY <1>1, <2>8 DEF LocalInv, ConOK, TypeOK
    <3>2. f = ConSocket \/ file[f] = Unconnected
      BY <3>1 DEF SettledInv, DescriptorsOK
    <3>3. file[f] = ServerOfCon
      BY <1>4, <3>2 DEF RaisesSIGPIPE, ServerOfCon, ConSocket
    <3>8. Open(ServerOfCon)
      BY <2>8, <3>1 DEF Open, NothingBehindClose, LocalInv, TypeOK
    <3>4. wire'[ServerOfCon] = Append(wire[ServerOfCon], packet)
      BY <2>3, <3>1, <3>3, <3>8
    <3>5. session[ServerOfCon] = "none" => wire[ServerOfCon] # <<>>
      BY <1>1, <2>8, <3>1 DEF SettledInv, Presented
    <3> DEFINE n == Len(wire[ServerOfCon])
    <3>6. /\ n \in Nat /\ (wire[ServerOfCon] # <<>> => n > 0)
          /\ Len(wire'[ServerOfCon]) = n + 1
          /\ wire'[ServerOfCon][n + 1] = packet
      BY <2>2, <3>1, <3>4, WireSequences, AppendGrows
    <3> HIDE DEF n
    <3>7. n + 1 \in 1 .. Len(wire'[ServerOfCon]) /\ (session[ServerOfCon] = "none" => n + 1 > 1)
      BY <3>5, <3>6
    <3>. QED
      BY <3>6, <3>7
  <2> HIDE DEF f
  <2>9. SettledOK'
    <3>1. ASSUME NEW command \in settled'
          PROVE  \/ up[command.server] = "dead" \/ session[command.server] = "refused"
                 \/ Contains(carried, command.n)
                 \/ \E j \in 1 .. Len(wire'[command.server]) :
                      /\ wire'[command.server][j] = Packet("SEND", command.n)
                      /\ session[command.server] = "none" => j > 1
      <4>1. CASE command \in settled
        BY <2>6, <2>7, <4>1
      <4>2. CASE command \notin settled
        <5>1. command = new /\ pcF = "recv" /\ up[ServerOfCon] = "listening"
          BY <2>1, <4>2
        <5>2. command.n = line.n /\ command.server = ServerOfCon
          BY <5>1
        <5>. QED
          BY <2>8, <5>1, <5>2
      <4>. QED
        BY <4>1, <4>2
    <3>. QED
      BY <1>1, <3>1 DEF SettledOK, Waits, serverVars
  <2>. QED
    BY <1>2, <2>5, <2>9 DEF SettledInv
<1>. QED
  BY <1>3, <1>4

(* The end of the input and an interrupt. *)
LEMMA EndSettled ==
  ASSUME LocalInv, SettledInv, EndOfInput \/ Interrupt
  PROVE  SettledInv'
<1>1. UNCHANGED <<toServerVars, fromServerVars, file, serverVars, settled>>
  BY DEF EndOfInput, Interrupt
<1>2. wire' = wire \/ Deliver(objects[con].sockfd, Packet("CLOSE_CONN", 0))
  BY DEF EndOfInput, Interrupt
<1>3. DescriptorsOK'
  BY <1>1, QuietDescriptors DEF SettledInv, fromServerVars
<1>4. SettledOK' /\ \A s \in Servers : wire[s] # <<>> => wire'[s] # <<>>
  <2>1. CASE wire' = wire
    BY <1>1, <2>1 DEF SettledInv, SettledOK, Waits, serverVars
  <2>2. CASE Deliver(objects[con].sockfd, Packet("CLOSE_CONN", 0))
    <3>1. Packet("CLOSE_CONN", 0) \in WirePackets
      BY DEF Packet, WirePackets
    <3>. QED
      BY <1>1, <2>2, <3>1, DeliverSettled
  <2>. QED
    BY <1>2, <2>1, <2>2
<1>5. Presented'
  BY <1>1, <1>4, QuietPresented DEF SettledInv, fromServerVars, toServerVars, serverVars
<1>. QED
  BY <1>3, <1>4, <1>5 DEF SettledInv

(* Steps of fromServer: it may lose the descriptor of con, never another. *)
LEMMA ReceiveSettled ==
  ASSUME LocalInv, SettledInv, Receive
  PROVE  SettledInv'
<1>1. /\ pcF = "recv" /\ pcF' \in {"recv", "ask"}
      /\ UNCHANGED <<toServerVars, sockfd, objects, con, file, serverVars, wire, settled>>
  BY DEF Receive
<1>2. DescriptorsOK'
  BY <1>1, QuietDescriptors DEF SettledInv
<1>3. Presented'
  BY <1>1, QuietPresented DEF SettledInv, toServerVars, serverVars
<1>4. SettledOK'
  BY <1>1 DEF SettledInv, SettledOK, Waits, serverVars
<1>. QED
  BY <1>2, <1>3, <1>4 DEF SettledInv

LEMMA AskSettled ==
  ASSUME LocalInv, SettledInv, Ask
  PROVE  SettledInv'
<1>1. /\ pcF = "ask"
      /\ UNCHANGED <<toServerVars, sockfd, con, serverVars, wire, settled>>
  BY DEF Ask
<1>2. SettledOK'
  BY <1>1 DEF SettledInv, SettledOK, Waits, serverVars
<1>0. \/ pcF' = "recv" /\ UNCHANGED <<objects, file>>
      \/ /\ pcF' = "socket"
         /\ objects' = IF con = 0 THEN objects ELSE [objects EXCEPT ![con].closed = TRUE]
         /\ file' = IF con = 0 THEN file ELSE [file EXCEPT ![ConSocket] = Free]
  BY DEF Ask, ConSocket
<1>3. CASE pcF' = "recv"
  <2>1. pcF' = "recv" /\ UNCHANGED <<objects, file>>
    BY <1>0, <1>3
  <2>2. DescriptorsOK'
    BY <1>1, <2>1, QuietDescriptors DEF SettledInv
  <2>3. Presented'
    BY <1>1, <2>1, QuietPresented DEF SettledInv, toServerVars, serverVars
  <2>. QED
    BY <1>2, <2>2, <2>3 DEF SettledInv
<1>4. CASE pcF' # "recv"
  <2>1. /\ pcF' = "socket"
        /\ objects' = IF con = 0 THEN objects ELSE [objects EXCEPT ![con].closed = TRUE]
        /\ file' = IF con = 0 THEN file ELSE [file EXCEPT ![ConSocket] = Free]
    BY <1>0, <1>4
  <2>2. Presented'
    BY <2>1 DEF Presented
  <2>3. CASE con = 0
    <3>1. UNCHANGED <<objects, con, file>>
      BY <1>1, <2>1, <2>3
    <3>2. DescriptorsOK'
      BY <2>1, <2>3, <3>1 DEF SettledInv, DescriptorsOK, ConSocket
    <3>. QED
      BY <1>2, <2>2, <3>2 DEF SettledInv
  <2>4. CASE con # 0
    <3>1. /\ Len(objects') = Len(objects)
          /\ \A j \in 1 .. Len(objects) : objects'[j].sockfd = objects[j].sockfd
          /\ con \in 1 .. Len(objects)
      <4>1. objects \in Seq(Objects) /\ con \in 1 .. Len(objects)
        BY <2>4 DEF LocalInv, TypeOK, Objects
      <4>2. objects' = [objects EXCEPT ![con] = [objects[con] EXCEPT !.closed = TRUE]]
        BY <2>1, <2>4
      <4>3. [objects[con] EXCEPT !.closed = TRUE].sockfd = objects[con].sockfd
        BY <4>1 DEF Objects
      <4>. QED
        BY <4>1, <4>2, <4>3
    <3>2. ConSocket' = ConSocket /\ ConSocket \in Descriptors
      BY <1>1, <2>4, <3>1, SocketOfConnection DEF ConSocket, LocalInv, TypeOK
    <3>3. /\ file'[ConSocket] = Free
          /\ \A f \in Descriptors : f # ConSocket => file'[f] = file[f]
      BY <2>1, <2>4, <3>2 DEF LocalInv, TypeOK
    <3>4. \A j \in 1 .. Len(objects) : objects[j].sockfd \in Descriptors
      BY SocketOfObject
    <3>5. \A j \in 1 .. Len(objects') :
            objects'[j].sockfd = ConSocket' \/ file'[objects'[j].sockfd] = Unconnected
      BY <3>1, <3>2, <3>3, <3>4 DEF SettledInv, DescriptorsOK
    <3>6. \A f, g \in Descriptors :
            f < g /\ file'[f] = Free /\ file'[g] # Free => f = ConSocket
      BY <3>3 DEF SettledInv, DescriptorsOK
    <3>7. \A f \in Descriptors : f < ConSocket => file'[f] # Free
      BY <2>4, <3>2, <3>3 DEF SettledInv, DescriptorsOK, Descriptors
    <3>8. con' = Len(objects')
      BY <1>1, <3>1 DEF SettledInv, DescriptorsOK
    <3>9. DescriptorsOK'
      BY <1>1, <2>1, <2>4, <3>2, <3>3, <3>5, <3>6, <3>7, <3>8 DEF DescriptorsOK
    <3>. QED
      BY <1>2, <2>2, <3>9 DEF SettledInv
  <2>. QED
    BY <1>2, <2>2, <2>3, <2>4 DEF SettledInv
<1>. QED
  BY <1>3, <1>4

LEMMA SocketSettled ==
  ASSUME LocalInv, SettledInv, Socket
  PROVE  SettledInv'
<1>1. /\ pcF = "socket"
      /\ UNCHANGED <<toServerVars, objects, con, serverVars, wire, settled>>
  BY DEF Socket
<1>2. SettledOK'
  BY <1>1 DEF SettledInv, SettledOK, Waits, serverVars
<1>3. CASE FreeDescriptors = {}
  <2>1. UNCHANGED <<pcF, sockfd, file>>
    BY <1>3 DEF Socket
  <2>2. DescriptorsOK'
    BY <1>1, <2>1, QuietDescriptors DEF SettledInv
  <2>3. Presented'
    BY <1>1, <2>1 DEF Presented
  <2>. QED
    BY <1>2, <2>2, <2>3 DEF SettledInv
<1>4. CASE FreeDescriptors # {}
  <2> DEFINE low == Lowest
  <2>1. pcF' = "connect" /\ sockfd' = low /\ file' = [file EXCEPT ![low] = Unconnected]
    BY <1>4 DEF Socket
  <2>2. low \in FreeDescriptors /\ \A g \in FreeDescriptors : low <= g
    BY <1>4, LowestIsFree
  <2> HIDE DEF low
  <2>3. /\ low \in Descriptors /\ file[low] = Free
        /\ \A g \in Descriptors : file[g] = Free => low <= g
    BY <2>2 DEF FreeDescriptors
  <2>4. file'[low] = Unconnected /\ \A f \in Descriptors : f # low => file'[f] = file[f]
    BY <2>1, <2>3 DEF LocalInv, TypeOK
  <2>5. ConSocket' = ConSocket /\ (con # 0 => ConSocket \in Descriptors)
    BY <1>1, SocketOfConnection DEF ConSocket, LocalInv, TypeOK
  <2>6. Free # Unconnected /\ Descriptors \subseteq Int
    BY DEF Free, Unconnected, Descriptors
  <2>7. con # 0 /\ file[ConSocket] = Free => low = ConSocket
    <3> SUFFICES ASSUME con # 0, file[ConSocket] = Free PROVE low = ConSocket
      OBVIOUS
    <3>1. low <= ConSocket
      BY <2>3, <2>5
    <3>2. ~(low < ConSocket)
      BY <2>3 DEF SettledInv, DescriptorsOK
    <3>. QED
      <4>1. low \in Int /\ ConSocket \in Int
        BY <2>3, <2>5, <2>6
      <4>. QED
        BY <3>1, <3>2, <4>1
  <2>8. \A f \in Descriptors : file'[f] = Free => f # low /\ file[f] = Free
    BY <2>4, <2>6
  <2>9. con # 0 => file'[ConSocket] = Unconnected
    <3> SUFFICES ASSUME con # 0 PROVE file'[ConSocket] = Unconnected
      OBVIOUS
    <3>1. file[ConSocket] \in {Free, Unconnected}
      BY <1>1 DEF SettledInv, DescriptorsOK
    <3>. QED
      BY <2>4, <2>5, <2>7, <3>1
  <2>10. \A j \in 1 .. Len(objects) :
           objects[j].sockfd = ConSocket \/ file'[objects[j].sockfd] = Unconnected
    <3> TAKE j \in 1 .. Len(objects)
    <3>1. objects[j].sockfd \in Descriptors
      BY SocketOfObject
    <3>2. objects[j].sockfd = ConSocket \/ file[objects[j].sockfd] = Unconnected
      BY DEF SettledInv, DescriptorsOK
    <3>. QED
      BY <2>4, <3>1, <3>2
  <2>11. \A f, g \in Descriptors : f < g /\ file'[f] = Free /\ file'[g] # Free => con # 0 /\ f = ConSocket
    <3> SUFFICES ASSUME NEW f \in Descriptors, NEW g \in Descriptors,
                        f < g, file'[f] = Free, file'[g] # Free
                 PROVE  con # 0 /\ f = ConSocket
      OBVIOUS
    <3>1. f # low /\ file[f] = Free /\ low <= f
      BY <2>3, <2>8
    <3>2. g # low
      BY <2>3, <2>6, <3>1
    <3>3. file[g] # Free
      BY <2>4, <3>2
    <3>. QED
      BY <3>1, <3>3 DEF SettledInv, DescriptorsOK
  <2>12. con # 0 => \A f \in Descriptors : f < ConSocket => file'[f] # Free
    BY <2>8 DEF SettledInv, DescriptorsOK
  <2>13. DescriptorsOK'
    BY <1>1, <2>1, <2>4, <2>5, <2>6, <2>9, <2>10, <2>11, <2>12 DEF SettledInv, DescriptorsOK
  <2>14. Presented'
    BY <2>1 DEF Presented
  <2>. QED
    BY <1>2, <2>13, <2>14 DEF SettledInv
<1>. QED
  BY <1>3, <1>4

LEMMA ConnectSettled ==
  ASSUME LocalInv, SettledInv, Connect
  PROVE  SettledInv'
<1>1. /\ pcF = "connect"
      /\ UNCHANGED <<sockfd, serverVars, wire, settled>>
  BY DEF Connect
<1>2. SettledOK'
  BY <1>1 DEF SettledInv, SettledOK, Waits, serverVars
<1>3. CASE Listening # {}
  <2>0. PICK s \in Servers : file' = [file EXCEPT ![sockfd] = s]
    BY <1>3 DEF Connect, Listening
  <2>1. /\ objects' = Append(objects, NewConnection(sockfd))
        /\ con' = Len(objects')
        /\ pcF' = AfterConnect
        /\ pcT' = IF pcT = "unborn" THEN "present" ELSE pcT
    BY <1>3 DEF Connect
  <2>2. /\ Len(objects) \in Nat /\ Len(objects') = Len(objects) + 1
        /\ objects'[Len(objects) + 1] = NewConnection(sockfd)
        /\ \A j \in 1 .. Len(objects) : objects'[j] = objects[j]
        /\ \A j \in 1 .. Len(objects) + 1 : j \in 1 .. Len(objects) \/ j = Len(objects) + 1
    <3>1. objects \in Seq(Objects) /\ NewConnection(sockfd) \in Objects
      BY DEF LocalInv, TypeOK, Objects, NewConnection
    <3>. QED
      BY <2>1, <3>1
  <2>3. con' # 0 /\ ConSocket' = sockfd
    BY <2>1, <2>2 DEF ConSocket, NewConnection
  <2>4. s # Free /\ s # Unconnected /\ sockfd \in Descriptors
    BY DEF LocalInv, TypeOK, Servers, Free, Unconnected
  <2>5. file'[sockfd] = s /\ \A f \in Descriptors : f # sockfd => file'[f] = file[f]
    BY <2>0, <2>4 DEF LocalInv, TypeOK
  <2>6. /\ file[sockfd] = Unconnected /\ Free # Unconnected
        /\ con # 0 => file[ConSocket] = Unconnected
    BY <1>1 DEF SettledInv, DescriptorsOK, Free, Unconnected
  <2>7. \A f, g \in Descriptors : f < g /\ file[f] = Free => file[g] = Free
    BY <2>6 DEF SettledInv, DescriptorsOK
  <2>8. \A j \in 1 .. Len(objects') :
          objects'[j].sockfd = sockfd \/ file'[objects'[j].sockfd] = Unconnected
    <3> TAKE j \in 1 .. Len(objects')
    <3>1. CASE j = Len(objects) + 1
      BY <2>2, <3>1 DEF NewConnection
    <3>2. CASE j \in 1 .. Len(objects)
      <4>1. objects'[j].sockfd = objects[j].sockfd /\ objects[j].sockfd \in Descriptors
        BY <2>2, <3>2, SocketOfObject
      <4>2. con # 0
        BY <2>2, <3>2 DEF SettledInv, DescriptorsOK
      <4>3. file[objects[j].sockfd] = Unconnected
        BY <2>6, <3>2, <4>2 DEF SettledInv, DescriptorsOK
      <4>. QED
        BY <2>5, <4>1, <4>3
    <3>. QED
      BY <2>2, <3>1, <3>2
  <2>9. \A f, g \in Descriptors : f < g /\ file'[f] = Free => file'[g] = Free
    BY <2>4, <2>5, <2>6, <2>7
  <2>10. \A f \in Descriptors : f < sockfd => file'[f] # Free
    BY <2>4, <2>5, <2>9
  <2>11. pcF' \in {"recv", "ok"} /\ (pcF' = "recv" => pcT' = "present")
    BY <2>1 DEF AfterConnect
  <2>12. DescriptorsOK'
    BY <1>1, <2>1, <2>3, <2>4, <2>5, <2>8, <2>9, <2>10, <2>11 DEF DescriptorsOK
  <2>13. Presented'
    BY <2>11 DEF Presented
  <2>. QED
    BY <1>2, <2>12, <2>13 DEF SettledInv
<1>4. CASE Listening = {}
  <2>1. pcF' = "socket" /\ UNCHANGED <<file, objects, con>>
    BY <1>4 DEF Connect, AfterRefusal
  <2>2. DescriptorsOK'
    BY <1>1, <2>1, QuietDescriptors DEF SettledInv
  <2>3. Presented'
    BY <2>1 DEF Presented
  <2>. QED
    BY <1>2, <2>2, <2>3 DEF SettledInv
<1>. QED
  BY <1>3, <1>4

LEMMA SendOKSettled ==
  ASSUME LocalInv, SettledInv, SendOK
  PROVE  SettledInv'
<1>1. /\ pcF = "ok"
      /\ UNCHANGED <<toServerVars, sockfd, objects, con, file, serverVars, settled>>
  BY DEF SendOK, fromServerVars
<1>2. CASE RaisesSIGPIPE(objects[con].sockfd)
  <2>1. UNCHANGED <<wire, pcF>>
    BY <1>2 DEF SendOK
  <2>2. DescriptorsOK'
    BY <1>1, <2>1, QuietDescriptors DEF SettledInv
  <2>3. Presented' /\ SettledOK'
    BY <1>1, <2>1 DEF SettledInv, Presented, SettledOK, Waits, serverVars
  <2>. QED
    BY <2>2, <2>3 DEF SettledInv
<1>3. CASE ~RaisesSIGPIPE(objects[con].sockfd)
  <2>1. pcF' = "recv" /\ Deliver(ConSocket, Packet("OK", 0)) /\ Packet("OK", 0) \in WirePackets
    BY <1>3 DEF SendOK, ConSocket, Packet, WirePackets
  <2>2. /\ SettledOK'
        /\ file[ConSocket] \in Servers => ~Open(file[ConSocket]) \/ wire'[file[ConSocket]] # <<>>
    BY <1>1, <2>1, DeliverSettled
  <2>3. ServerOfCon \in Servers
    BY <1>1 DEF LocalInv, ConOK
  <2>4. /\ UNCHANGED <<up, session>>
        /\ ServerOfCon' = ServerOfCon /\ ServerOfCon = file[ConSocket]
    BY <1>1 DEF serverVars, ServerOfCon, ConSocket
  <2>5. Presented'
    BY <2>2, <2>3, <2>4 DEF Presented, Open
  <2>6. DescriptorsOK'
    BY <1>1, <2>1, QuietDescriptors DEF SettledInv
  <2>. QED
    BY <2>2, <2>5, <2>6 DEF SettledInv
<1>. QED
  BY <1>2, <1>3

(* Steps of the servers that take nothing from the wire. *)
LEMMA ServerSettled ==
  ASSUME LocalInv, SettledInv, UNCHANGED <<clientVars, session, carried, wire>>,
         \A s \in Servers : up[s] = "dead" => up'[s] = "dead"
  PROVE  SettledInv'
<1>1. UNCHANGED <<pcT, pcF, sockfd, objects, con, file, settled>>
  BY DEF clientVars, toServerVars, fromServerVars
<1>2. DescriptorsOK'
  BY <1>1, QuietDescriptors DEF SettledInv
<1>3. Presented'
  BY <1>1, QuietPresented DEF SettledInv
<1>4. \A command \in settled : command.server \in Servers
  BY DEF LocalInv, TypeOK
<1>5. SettledOK'
  BY <1>1, <1>4 DEF SettledInv, SettledOK, Waits
<1>. QED
  BY <1>2, <1>3, <1>5 DEF SettledInv

LEMMA NameSettled ==
  ASSUME LocalInv, OrderInv, SettledInv, NEW a \in Addresses, Name(a)
  PROVE  SettledInv'
<1>1. /\ UNCHANGED <<clientVars, session, carried, wire>>
      /\ primaryServer < LastServer /\ primaryServer' = primaryServer + 1
      /\ \E u \in {"naming", "named"} : up' = [up EXCEPT ![primaryServer'] = u]
  BY DEF Name
<1>2. primaryServer + 1 \in Servers /\ primaryServer + 1 > primaryServer
  BY <1>1 DEF LocalInv, TypeOK, Servers
<1>3. up[primaryServer + 1] = "off"
  BY <1>2 DEF OrderInv, OnePrimary
<1>4. \A s \in Servers : up[s] = "dead" => up'[s] = "dead"
  BY <1>1, <1>2, <1>3 DEF LocalInv, TypeOK
<1>. QED
  BY <1>1, <1>4, ServerSettled

LEMMA ListenSettled ==
  ASSUME LocalInv, SettledInv, NEW s \in Servers, Named(s) \/ Listen(s)
  PROVE  SettledInv'
<1>1. /\ UNCHANGED <<clientVars, session, carried, wire>>
      /\ up[s] # "dead" /\ \E u \in {"named", "listening"} : up' = [up EXCEPT ![s] = u]
  BY DEF Named, Listen
<1>2. \A r \in Servers : up[r] = "dead" => up'[r] = "dead"
  BY <1>1 DEF LocalInv, TypeOK
<1>. QED
  BY <1>1, <1>2, ServerSettled

(* A server's end is closed with commands on their way only if it dies or
   refuses the login: nothing comes behind a CLOSE_CONN. *)
LEMMA CloseSettled ==
  ASSUME LocalInv, SettledInv, NothingBehindClose,
         NEW s \in Servers, Crash(s) \/ Refuse(s) \/ Leave(s)
  PROVE  SettledInv'
<1>1. UNCHANGED clientVars /\ UNCHANGED carried /\ wire' = [wire EXCEPT ![s] = <<>>]
  BY DEF Crash, Refuse, Leave, CloseServerEnd
<1>2. /\ \A r \in Servers : r # s => up'[r] = up[r] /\ session'[r] = session[r] /\ wire'[r] = wire[r]
      /\ \A r \in Servers : up[r] = "dead" => up'[r] = "dead"
      /\ \/ up'[s] = "dead" /\ session' = session
         \/ session'[s] = "refused"
         \/ session'[s] = "left" /\ wire[s] # <<>> /\ Head(wire[s]).cmd = "CLOSE_CONN"
            /\ session[s] = "on"
  BY <1>1 DEF Crash, Refuse, Leave, Reads, LocalInv, TypeOK
<1>3. UNCHANGED <<pcT, pcF, sockfd, objects, con, file, settled>>
  BY <1>1 DEF clientVars, toServerVars, fromServerVars
<1>4. DescriptorsOK'
  BY <1>3, QuietDescriptors DEF SettledInv
<1>5. Presented'
  BY <1>2, <1>3, QuietPresented DEF SettledInv
<1>6. ASSUME NEW command \in settled, command.server = s, Waits(command)
      PROVE  up'[s] = "dead" \/ session'[s] = "refused"
  <2>1. PICK j \in 1 .. Len(wire[s]) : wire[s][j] = Packet("SEND", command.n)
    BY <1>6 DEF Waits
  <2>2. wire[s] # <<>> /\ Head(wire[s]).cmd = "CLOSE_CONN" => Len(wire[s]) = 1 /\ j = 1
    <3>1. wire[s] \in Seq(WirePackets)
      BY WireSequences
    <3>2. wire[s] # <<>> => Head(wire[s]) = wire[s][1] /\ Len(wire[s]) \in Nat /\ Len(wire[s]) >= 1
      BY <3>1
    <3>3. wire[s] # <<>> /\ Head(wire[s]).cmd = "CLOSE_CONN"
            => 1 \in 1 .. Len(wire[s]) /\ wire[s][1].cmd = "CLOSE_CONN"
      BY <3>2
    <3>4. wire[s] # <<>> /\ Head(wire[s]).cmd = "CLOSE_CONN" => 1 = Len(wire[s])
      BY <3>3 DEF NothingBehindClose
    <3>5. \A k \in 1 .. 1 : k = 1
      OBVIOUS
    <3>. QED
      BY <3>4, <3>5
  <2>3. ~(wire[s] # <<>> /\ Head(wire[s]).cmd = "CLOSE_CONN")
    BY <2>1, <2>2, WireSequences DEF Packet
  <2>. QED
    BY <1>2, <2>3
<1>7. SettledOK'
  <2>1. \A command \in settled : command.server \in Servers
    BY DEF LocalInv, TypeOK
  <2>2. ASSUME NEW command \in settled
        PROVE  \/ up'[command.server] = "dead" \/ session'[command.server] = "refused"
               \/ Contains(carried', command.n) \/ Waits(command)'
    <3>1. CASE command.server = s
      <4>1. session[s] = "refused" => up'[s] = "dead" \/ session'[s] = "refused"
        BY <1>2
      <4>. QED
        BY <1>1, <1>2, <1>6, <2>1, <3>1, <4>1 DEF SettledInv, SettledOK
    <3>2. CASE command.server # s
      BY <1>1, <1>2, <2>1, <3>2 DEF SettledInv, SettledOK, Waits
    <3>. QED
      BY <3>1, <3>2
  <2>. QED
    BY <1>3, <2>2 DEF SettledOK
<1>. QED
  BY <1>4, <1>5, <1>7 DEF SettledInv

LEMMA ContainsAppend ==
  ASSUME NEW S, NEW q \in Seq(S), NEW e \in S
  PROVE  /\ Contains(Append(q, e), e)
         /\ \A d : Contains(q, d) => Contains(Append(q, e), d)
<1>1. DOMAIN q = 1 .. Len(q) /\ DOMAIN Append(q, e) = 1 .. Len(q) + 1
  OBVIOUS
<1>. QED
  BY <1>1, AppendGrows DEF Contains

LEMMA TailShifts ==
  ASSUME NEW S, NEW q \in Seq(S), q # <<>>
  PROVE  /\ Head(q) = q[1] /\ Head(q) \in S
         /\ Len(Tail(q)) = Len(q) - 1 /\ Len(q) \in Nat
         /\ \A j \in 1 .. Len(q) : j > 1 =>
              j - 1 \in 1 .. Len(Tail(q)) /\ Tail(q)[j - 1] = q[j]
<1>1. Len(q) \in Nat /\ Len(q) >= 1 /\ Head(q) = q[1] /\ q[1] \in S
  OBVIOUS
<1>2. Len(Tail(q)) = Len(q) - 1 /\ \A k \in 1 .. Len(q) - 1 : Tail(q)[k] = q[k + 1]
  OBVIOUS
<1>3. ASSUME NEW j \in 1 .. Len(q), j > 1
      PROVE  j - 1 \in 1 .. Len(q) - 1 /\ (j - 1) + 1 = j
  BY <1>1, <1>3
<1>. QED
  BY <1>1, <1>2, <1>3

(* The head of the wire is taken: it was no settled command if the server did
   not know whose connection this is, and is carried out if it did. *)
LEMMA ProcessSettled ==
  ASSUME LocalInv, SettledInv, NEW s \in Servers, Process(s)
  PROVE  SettledInv'
<1> DEFINE packet == Head(wire[s])
<1>1. /\ up[s] = "listening" /\ wire[s] # <<>> /\ session[s] \in {"none", "on"}
      /\ wire' = [wire EXCEPT ![s] = Tail(@)]
      /\ session' = [session EXCEPT ![s] = "on"]
      /\ carried' = IF session[s] = "on" /\ packet.cmd = "SEND"
                    THEN Append(carried, packet.n) ELSE carried
      /\ UNCHANGED <<clientVars, primaryServer, up, reset>>
  BY DEF Process, Reads, Open
<1>2. /\ session'[s] = "on" /\ wire'[s] = Tail(wire[s])
      /\ \A r \in Servers : r # s => session'[r] = session[r] /\ wire'[r] = wire[r]
  BY <1>1 DEF LocalInv, TypeOK
<1>3. UNCHANGED <<pcT, pcF, sockfd, objects, con, file, settled, up>>
  BY <1>1 DEF clientVars, toServerVars, fromServerVars
<1>4. wire[s] \in Seq(WirePackets)
  BY WireSequences
<1>5. /\ packet = wire[s][1] /\ packet \in WirePackets /\ Len(wire'[s]) = Len(wire[s]) - 1
      /\ Len(wire[s]) \in Nat
      /\ \A j \in 1 .. Len(wire[s]) : j > 1 =>
           j - 1 \in 1 .. Len(wire'[s]) /\ wire'[s][j - 1] = wire[s][j]
  <2> DEFINE q == wire[s]
  <2>1. q # <<>> /\ q \in Seq(WirePackets) /\ wire'[s] = Tail(q) /\ packet = Head(q)
    BY <1>1, <1>2, <1>4
  <2> HIDE DEF q, packet
  <2>2. /\ packet = q[1] /\ packet \in WirePackets
        /\ Len(wire'[s]) = Len(q) - 1 /\ Len(q) \in Nat
        /\ \A j \in 1 .. Len(q) : j > 1 =>
             j - 1 \in 1 .. Len(wire'[s]) /\ wire'[s][j - 1] = q[j]
    BY <2>1, TailShifts
  <2>. QED
    BY <2>2 DEF q
<1> HIDE DEF packet
<1>6. DescriptorsOK'
  BY <1>3, QuietDescriptors DEF SettledInv
<1>7. Presented'
  BY <1>2, <1>3, QuietPresented DEF SettledInv
<1>8. carried \in Seq(Nat) /\ packet.n \in Nat
  BY <1>5 DEF LocalInv, TypeOK, WirePackets
<1>9. \A n : Contains(carried, n) => Contains(carried', n)
  BY <1>1, <1>8, ContainsAppend
<1>10. ASSUME NEW command \in settled
       PROVE  \/ up[command.server] = "dead" \/ session'[command.server] = "refused"
              \/ Contains(carried', command.n)
              \/ \E j \in 1 .. Len(wire'[command.server]) :
                   /\ wire'[command.server][j] = Packet("SEND", command.n)
                   /\ session'[command.server] = "none" => j > 1
  <2>1. command.server \in Servers
    BY DEF LocalInv, TypeOK
  <2>2. CASE Waits(command) /\ command.server = s
    <3>1. PICK j \in 1 .. Len(wire[s]) : /\ wire[s][j] = Packet("SEND", command.n)
                                         /\ session[s] = "none" => j > 1
      BY <2>2 DEF Waits
    <3>2. CASE j > 1
      <4>1. j - 1 \in 1 .. Len(wire'[s]) /\ wire'[s][j - 1] = Packet("SEND", command.n)
        BY <1>5, <3>1, <3>2
      <4>. QED
        BY <1>2, <2>2, <4>1
    <3>3. CASE j = 1
      <4>1. packet = Packet("SEND", command.n) /\ session[s] = "on"
        BY <1>1, <1>5, <3>1, <3>3
      <4>2. carried' = Append(carried, command.n) /\ command.n \in Nat
        BY <1>1, <1>8, <4>1 DEF Packet
      <4>. QED
        BY <1>8, <4>2, ContainsAppend
    <3>. QED
      BY <3>2, <3>3
  <2>3. CASE Waits(command) /\ command.server # s
    BY <1>2, <2>1, <2>3 DEF Waits
  <2>4. CASE ~Waits(command)
    <3>1. session[command.server] = "refused" => session'[command.server] = "refused"
      BY <1>1, <1>2, <2>1
    <3>. QED
      BY <1>9, <2>4, <3>1 DEF SettledInv, SettledOK
  <2>. QED
    BY <2>2, <2>3, <2>4
<1>11. SettledOK'
  BY <1>3, <1>10 DEF SettledOK, Waits
<1>. QED
  BY <1>6, <1>7, <1>11 DEF SettledInv

LEMMA NextSettled ==
  LocalInv /\ OrderInv /\ SettledInv /\ NothingBehindClose /\ [Next]_vars => SettledInv'
<1> SUFFICES ASSUME LocalInv, OrderInv, SettledInv, NothingBehindClose, [Next]_vars PROVE SettledInv'
  OBVIOUS
<1>1. CASE ToServer
  BY <1>1, PresentSettled, LineSettled, PutSettled DEF ToServer
<1>2. CASE User
  BY <1>2, LineSettled, EndSettled DEF User
<1>3. CASE FromServer
  BY <1>3, ReceiveSettled, AskSettled, SocketSettled, ConnectSettled, SendOKSettled DEF FromServer
<1>4. ASSUME NEW a \in Addresses, Name(a) PROVE SettledInv'
  BY <1>4, NameSettled
<1>5. ASSUME NEW s \in Servers, Named(s) \/ Listen(s) \/ Crash(s) \/ Serve(s) PROVE SettledInv'
  BY <1>5, ListenSettled, CloseSettled, ProcessSettled DEF Serve
<1>6. CASE UNCHANGED vars
  <2>1. UNCHANGED <<clientVars, session, carried, wire, up>>
    BY <1>6 DEF vars, clientVars, serverVars
  <2>. QED
    BY <2>1, ServerSettled
<1>. QED
  BY <1>1, <1>2, <1>3, <1>4, <1>5, <1>6 DEF Next

LEMMA InitClose == Init => NothingBehindClose
<1> SUFFICES ASSUME Init PROVE NothingBehindClose
  OBVIOUS
<1>1. \A s \in Servers : wire[s] = <<>> /\ session[s] = "none" /\ Len(<<>>) = 0
  BY DEF Init
<1>. QED
  BY <1>1 DEF NothingBehindClose

(* While the program runs no CLOSE_CONN is on its way; a step of it that puts
   one there ends it. *)
LEMMA ClientClose ==
  ASSUME LocalInv, NothingBehindClose, Running, UNCHANGED session, NEW packet \in WirePackets,
         \A s \in Servers : wire'[s] = wire[s] \/ wire'[s] = Append(wire[s], packet),
         packet.cmd = "CLOSE_CONN" => ~Running'
  PROVE  NothingBehindClose'
<1> SUFFICES ASSUME NEW s \in Servers, NEW i \in 1 .. Len(wire'[s]), wire'[s][i].cmd = "CLOSE_CONN"
             PROVE  i = Len(wire'[s]) /\ ~Running'
  BY DEF NothingBehindClose
<1>1. wire[s] \in Seq(WirePackets)
  BY WireSequences
<1>2. \A k \in 1 .. Len(wire[s]) : wire[s][k].cmd # "CLOSE_CONN"
  BY DEF NothingBehindClose
<1>3. wire'[s] = Append(wire[s], packet)
  BY <1>2
<1>4. /\ Len(wire'[s]) = Len(wire[s]) + 1 /\ Len(wire[s]) \in Nat
      /\ wire'[s][Len(wire[s]) + 1] = packet
      /\ \A k \in 1 .. Len(wire[s]) : wire'[s][k] = wire[s][k]
  BY <1>1, <1>3, AppendGrows
<1>5. \A k \in 1 .. Len(wire[s]) + 1 : k \in 1 .. Len(wire[s]) \/ k = Len(wire[s]) + 1
  BY <1>4
<1>6. i = Len(wire[s]) + 1
  BY <1>2, <1>4, <1>5
<1>. QED
  BY <1>4, <1>6

LEMMA NextClose == LocalInv /\ NothingBehindClose /\ [Next]_vars => NothingBehindClose'
<1> SUFFICES ASSUME LocalInv, NothingBehindClose, [Next]_vars PROVE NothingBehindClose'
  OBVIOUS
<1>1. /\ Packet("PROFILE", 0) \in WirePackets /\ Packet("OK", 0) \in WirePackets
      /\ Packet("SEND", line.n) \in WirePackets /\ Packet("CLOSE_CONN", 0) \in WirePackets
  BY DEF Packet, WirePackets, LocalInv, TypeOK
<1>2. \A f, packet : Deliver(f, packet) =>
        \A s \in Servers : wire'[s] = wire[s] \/ wire'[s] = Append(wire[s], packet)
  BY Delivered
<1>3. CASE ToServer \/ FromServer
  <2>1. Running /\ UNCHANGED session
    BY <1>3 DEF ToServer, FromServer, Present, Check, Put, Receive, Ask, Socket, Connect, SendOK,
                serverVars
  <2>2. \/ UNCHANGED wire
        \/ \E f : Deliver(f, Packet("PROFILE", 0)) \/ Deliver(f, Packet("OK", 0))
                  \/ Deliver(f, Packet("SEND", line.n))
    BY <1>3 DEF ToServer, FromServer, Present, Check, Put, Receive, Ask, Socket, Connect, SendOK
  <2>3. \E packet \in WirePackets :
          /\ packet.cmd # "CLOSE_CONN"
          /\ \A s \in Servers : wire'[s] = wire[s] \/ wire'[s] = Append(wire[s], packet)
    BY <1>1, <1>2, <2>2 DEF Packet
  <2>. QED
    BY <2>1, <2>3, ClientClose
<1>4. CASE User
  <2>1. Running /\ UNCHANGED session
    BY <1>4 DEF User, ReadLine, EndOfInput, Interrupt, serverVars
  <2>2. UNCHANGED wire \/ (~Running' /\ \E f : Deliver(f, Packet("CLOSE_CONN", 0)))
    BY <1>4 DEF User, ReadLine, EndOfInput, Interrupt, Running
  <2>3. CASE UNCHANGED wire
    BY <1>1, <2>1, <2>3, ClientClose DEF Packet
  <2>4. CASE ~Running' /\ \E f : Deliver(f, Packet("CLOSE_CONN", 0))
    BY <1>1, <1>2, <2>1, <2>4, ClientClose
  <2>. QED
    BY <2>2, <2>3, <2>4
<1>5. ASSUME UNCHANGED <<status, wire, session>> PROVE NothingBehindClose'
  BY <1>5 DEF NothingBehindClose, Running
<1>6. ASSUME NEW s \in Servers, Crash(s) \/ Refuse(s) \/ Leave(s) PROVE NothingBehindClose'
  <2>1. status' = status /\ wire' = [wire EXCEPT ![s] = <<>>]
    BY <1>6 DEF Crash, Refuse, Leave, CloseServerEnd, clientVars
  <2>2. /\ wire'[s] = <<>> /\ \A r \in Servers : r # s => wire'[r] = wire[r]
        /\ Len(<<>>) = 0
    BY <2>1 DEF LocalInv, TypeOK
  <2>3. \A r \in Servers : session'[r] = "left" => ~Running
    <3>1. \A r \in Servers : session'[r] = "left" => session[r] = "left" \/ (r = s /\ Leave(s))
      BY <1>6 DEF Crash, Refuse, Leave, LocalInv, TypeOK
    <3>2. Leave(s) => ~Running
      <4> SUFFICES ASSUME Leave(s) PROVE ~Running
        OBVIOUS
      <4>1. wire[s] \in Seq(WirePackets) /\ wire[s] # <<>> /\ Head(wire[s]).cmd = "CLOSE_CONN"
        BY WireSequences DEF Leave, Reads
      <4>2. 1 \in 1 .. Len(wire[s]) /\ wire[s][1].cmd = "CLOSE_CONN"
        BY <4>1
      <4>. QED
        BY <4>2 DEF NothingBehindClose
    <3>. QED
      BY <3>1, <3>2 DEF NothingBehindClose
  <2>. QED
    BY <2>1, <2>2, <2>3 DEF NothingBehindClose, Running
<1>7. ASSUME NEW s \in Servers, Process(s) PROVE NothingBehindClose'
  <2>1. /\ status' = status /\ wire' = [wire EXCEPT ![s] = Tail(wire[s])] /\ wire[s] # <<>>
        /\ session' = [session EXCEPT ![s] = "on"]
    BY <1>7 DEF Process, Reads, clientVars
  <2>2. /\ wire'[s] = Tail(wire[s]) /\ \A r \in Servers : r # s => wire'[r] = wire[r]
        /\ \A r \in Servers : session'[r] = "left" => session[r] = "left"
    BY <2>1 DEF LocalInv, TypeOK
  <2>3. wire[s] \in Seq(WirePackets)
    BY WireSequences
  <2>4. /\ Len(wire'[s]) = Len(wire[s]) - 1 /\ Len(wire[s]) \in Nat
        /\ \A i \in 1 .. Len(wire[s]) - 1 : wire'[s][i] = wire[s][i + 1]
    <3> DEFINE q == wire[s]
    <3>1. q \in Seq(WirePackets) /\ q # <<>> /\ wire'[s] = Tail(q)
      BY <2>1, <2>2, <2>3
    <3> HIDE DEF q
    <3>2. /\ Len(Tail(q)) = Len(q) - 1 /\ Len(q) \in Nat
          /\ \A i \in 1 .. Len(q) - 1 : Tail(q)[i] = q[i + 1]
      BY <3>1
    <3>. QED
      BY <3>1, <3>2 DEF q
  <2>5. ASSUME NEW i \in 1 .. Len(wire'[s]), wire'[s][i].cmd = "CLOSE_CONN"
        PROVE  i = Len(wire'[s]) /\ ~Running
    <3>1. i + 1 \in 1 .. Len(wire[s]) /\ wire[s][i + 1].cmd = "CLOSE_CONN"
      BY <2>4, <2>5
    <3>2. i + 1 = Len(wire[s]) /\ ~Running
      BY <3>1 DEF NothingBehindClose
    <3>. QED
      BY <2>4, <3>2
  <2>. QED
    BY <2>1, <2>2, <2>5 DEF NothingBehindClose, Running
<1>8. CASE \/ \E a \in Addresses : Name(a)
           \/ \E s \in Servers : Named(s) \/ Listen(s)
           \/ UNCHANGED vars
  <2>1. UNCHANGED <<status, wire, session>>
    BY <1>8 DEF Name, Named, Listen, clientVars, vars, serverVars
  <2>. QED
    BY <1>5, <2>1
<1>. QED
  BY <1>3, <1>4, <1>6, <1>7, <1>8 DEF Next, Serve

LEMMA WaitsOnWire == LocalInv /\ OrderInv /\ SettledInv => SettledIsCarriedOut
<1> SUFFICES ASSUME LocalInv, OrderInv, SettledInv, NEW command \in settled, Waits(command)
             PROVE  /\ Open(command.server)
                    /\ Contains(wire[command.server], Packet("SEND", command.n))
  BY DEF SettledInv, SettledOK, SettledIsCarriedOut
<1>1. command.server \in Servers
  BY DEF LocalInv, TypeOK
<1>2. wire[command.server] \in Seq(WirePackets)
  BY <1>1, WireSequences
<1>3. DOMAIN wire[command.server] = 1 .. Len(wire[command.server])
  BY <1>2
<1>4. wire[command.server] # <<>>
  BY <1>2 DEF Waits
<1>. QED
  BY <1>1, <1>3, <1>4 DEF Waits, Contains, OrderInv, WireOK

(* What the user types while the client is connected is lost only with the
   server, or with a login it refuses: never to the program itself, by way of
   a descriptor that was closed and opened again or as the first packet of a
   connection (client/main.cpp:62, 70), and never behind a CLOSE_CONN. *)
THEOREM SettledAlwaysCarriedOut == Spec => []SettledIsCarriedOut
<1>. QED
  BY AlwaysLocalInv, InitOrderInv, NextOrderInv, InitSettled, NextSettled, InitClose, NextClose,
     WaitsOnWire, PTL DEF Spec
=============================================================================
