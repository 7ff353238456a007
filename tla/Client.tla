------------------------------- MODULE Client -------------------------------
(***************************************************************************)
(* The client program (client/main.cpp) with the descriptors it owns       *)
(* (commons/Connection.cpp).  The thread toServer sends what the user      *)
(* types; the thread fromServer prints what arrives and, when the server   *)
(* is gone, asks the router for the new primary and replaces the global    *)
(* pointer con, which toServer reads without a lock.                       *)
(*                                                                         *)
(* Around it: servers that follow each other as primary, one at a time,    *)
(* each named to the router before it listens, a backup under an address   *)
(* of its own or the dead primary started again under the old one          *)
(* (Failover, Router), and what server/main.cpp makes of a connection: its *)
(* first packet only says whose it is, and it is closed when a login is    *)
(* refused.  What a server makes of a command is in TwitterServer.         *)
(***************************************************************************)
EXTENDS Integers, Sequences, FiniteSets, SequencesExt

CONSTANTS
  Addresses,    (* of the servers                                            *)
  LastServer,   (* bound: how often a server becomes primary                 *)
  MAX_FD,       (* descriptors the process may open besides the router's     *)
  MaxLines      (* bound: lines the user types                               *)

ASSUME BoundsAssumption ==
  LastServer \in Nat \ {0} /\ MAX_FD \in Nat \ {0} /\ MaxLines \in Nat

(* Addresses that are no server's: "random:primary"; an answer of the router
   on which stoi throws, empty or torn; a torn one where nobody listens. *)
Random == "random:primary"
NoPort == "no port"
Nowhere == "nowhere"

ASSUME AddressesAssumption == {Random, NoPort, Nowhere} \cap Addresses = {}

(* Runs of the server program, in the order in which they become primary: a
   server that is started again is another run under the same address.  The
   client connects to each run at most once. *)
Servers == 1 .. LastServer
Descriptors == 1 .. MAX_FD

VARIABLES
  status,             (* of the process                                      *)
  pcT, line, taken,   (* toServer: where it is, its line, the con it uses    *)
  pcF, sockfd,        (* fromServer (main, at first), the socket it connects *)
  primary,            (* the address con was last made for                   *)
  objects, con,       (* Connection objects ever made; the index of con      *)
  file,               (* what each descriptor is                             *)
  primaryServer, up,  (* the run the router names; what each run does        *)
  address,            (* the address of each run, once it is named           *)
  wire, reset,        (* packets on their way; servers that answered a reset *)
  session,            (* each server's view of its connection to this client *)
  carried,            (* history: commands the servers carried out           *)
  settled             (* history: commands sent outside a failover, where to *)

toServerVars == <<pcT, line, taken>>
fromServerVars == <<pcF, sockfd, primary, objects, con>>
serverVars == <<primaryServer, up, address, session, carried>>
vars == <<status, toServerVars, fromServerVars, file, serverVars, wire, reset, settled>>

(* Descriptors besides those of connections. *)
Free == -1
Unconnected == 0

Packet(cmd, n) == [cmd |-> cmd, n |-> n]   \* n: the number of a typed line

Init ==
  /\ status = "running"
  /\ pcT = "unborn" /\ line = [kind |-> "none", n |-> 0] /\ taken = 0
  /\ pcF = "ask" /\ sockfd = 1
  /\ primary = Random
  /\ objects = <<>> /\ con = 0
  /\ file = [f \in Descriptors |-> Free]
  /\ primaryServer = 0 /\ up = [s \in Servers |-> "off"]
  /\ address = [s \in 0 .. LastServer |-> NoPort]
  /\ wire = [s \in Servers |-> <<>>] /\ reset = {}
  /\ session = [s \in Servers |-> "none"]
  /\ carried = <<>> /\ settled = {}

Running == status = "running"
-----------------------------------------------------------------------------
(* The server's end of the connection has not been closed. *)
Open(s) == up[s] # "dead" /\ session[s] \in {"none", "on"}

(* Connection::sendMessage: send() on a descriptor, its result ignored.  On a
   closed one it fails; an open connection takes the packet; the first packet
   to a server that died or closed it is lost and answered by a reset. *)
Deliver(f, packet) ==
  LET s == file[f] IN
  /\ wire' = IF s \in Servers /\ Open(s) THEN [wire EXCEPT ![s] = Append(@, packet)] ELSE wire
  /\ reset' = IF s \in Servers /\ ~Open(s) THEN reset \cup {s} ELSE reset

(* The server's end is closed: what is on its way is lost, and answered by a
   reset if it had arrived and was not read. *)
CloseServerEnd(s, unread) ==
  /\ wire' = [wire EXCEPT ![s] = <<>>]
  /\ reset' = reset \/ (unread # <<>> /\ reset' = reset \cup {s})

(* On a socket that is not connected, and after a reset, send() raises
   SIGPIPE, which ends the process. *)
RaisesSIGPIPE(f) == file[f] = Unconnected \/ file[f] \in reset

IsClosed == con # 0 /\ objects[con].closed

ServerOfCon == file[objects[con].sockfd]

-----------------------------------------------------------------------------
(* toServer *)

(* sendPresentation *)
Present ==
  /\ pcT = "present"
  /\ IF RaisesSIGPIPE(objects[con].sockfd)
     THEN status' = "killed" /\ UNCHANGED <<wire, reset, pcT>>
     ELSE Deliver(objects[con].sockfd, Packet("PROFILE", 0)) /\ pcT' = "read" /\ UNCHANGED status
  /\ UNCHANGED <<line, taken, fromServerVars, file, serverVars, settled>>

(* A command; a line of another form or a message that is too long; the word
   FOLLOW or SEND alone. *)
Kinds == {"command", "rejected", "bare"}

ReadLine(kind) ==
  /\ pcT = "read" /\ line.n < MaxLines
  /\ line' = [kind |-> kind, n |-> line.n + 1]
  /\ pcT' = "check"
  /\ UNCHANGED <<status, taken, fromServerVars, file, serverVars, wire, reset, settled>>

(* The test of the loop, and what becomes of the line: a rejected one is
   tested again and again, no other is read; substr throws on a bare one. *)
Check ==
  /\ pcT = "check"
  /\ \/ IsClosed /\ pcT' = "ended" /\ UNCHANGED <<status, taken>>
     \/ ~IsClosed /\ line.kind = "bare" /\ status' = "aborted" /\ UNCHANGED <<pcT, taken>>
     \/ ~IsClosed /\ line.kind = "command" /\ pcT' = "put" /\ taken' = con /\ UNCHANGED status
  /\ UNCHANGED <<line, fromServerVars, file, serverVars, wire, reset, settled>>

(* Fault: the line is sent again if con has changed meanwhile. *)
AfterPutAgain == IF con # taken THEN "check" ELSE "read"

(* sendPacket does not throw: the catch around it is never entered. *)
AfterPut == "read"

Put ==
  LET f == objects[taken].sockfd IN
  /\ pcT = "put"
  /\ IF RaisesSIGPIPE(f)
     THEN status' = "killed" /\ UNCHANGED <<wire, reset, pcT, settled>>
     ELSE /\ Deliver(f, Packet("SEND", line.n))
          /\ pcT' = AfterPut
          /\ settled' = IF pcF = "recv" /\ up[ServerOfCon] = "listening"
                        THEN settled \cup {[n |-> line.n, server |-> ServerOfCon]}
                        ELSE settled
          /\ UNCHANGED status
  /\ UNCHANGED <<line, taken, fromServerVars, file, serverVars>>

(* The end of the input: CLOSE_CONN without a sender, and exit. *)
EndOfInput ==
  /\ pcT = "read"
  /\ Deliver(objects[con].sockfd, Packet("CLOSE_CONN", 0))
  /\ status' = IF RaisesSIGPIPE(objects[con].sockfd) THEN "killed" ELSE "exited"
  /\ UNCHANGED <<toServerVars, fromServerVars, file, serverVars, settled>>

(* interruptionHandler, in whatever thread, ends with SIGKILL; before the
   first connection it dereferences a null pointer. *)
Interrupt ==
  /\ IF con = 0 THEN UNCHANGED <<wire, reset>>
     ELSE Deliver(objects[con].sockfd, Packet("CLOSE_CONN", 0))
  /\ status' = "killed"
  /\ UNCHANGED <<toServerVars, fromServerVars, file, serverVars, settled>>

-----------------------------------------------------------------------------
(* fromServer.  Its loop test holds as long as the process lives: only it
   closes con, and replaces it before it comes back to the test. *)

(* receivePacket: CLOSE_CONN ends the program (what has arrived is read before
   a reset is noticed); recv returns 0, again and again, when the server has
   gone. *)
Receive ==
  /\ pcF = "recv"
  /\ \/ session[ServerOfCon] = "refused" /\ status' = "exited" /\ UNCHANGED pcF
     \/ session[ServerOfCon] # "refused" /\ up[ServerOfCon] = "dead" /\ pcF' = "ask" /\ UNCHANGED status
  /\ UNCHANGED <<toServerVars, sockfd, primary, objects, con, file, serverVars, wire, reset, settled>>

(* What GET_PRIMARY copies: while the string is being assigned, the address
   before, the new one, or bytes of both. *)
Answers ==
  IF primaryServer # 0 /\ up[primaryServer] = "naming"
  THEN {address[primaryServer - 1], address[primaryServer], NoPort, Nowhere}
  ELSE {address[primaryServer]}

(* updateConn: the answer of the router, and the old connection is closed if
   the address is another one. *)
Ask ==
  /\ pcF = "ask"
  /\ \E answer \in Answers :
       IF answer = primary
       THEN pcF' = "recv" /\ UNCHANGED <<primary, objects, file>>
       ELSE /\ pcF' = "socket"
            /\ primary' = answer
            /\ objects' = IF con = 0 THEN objects ELSE [objects EXCEPT ![con].closed = TRUE]
            /\ file' = IF con = 0 THEN file ELSE [file EXCEPT ![objects[con].sockfd] = Free]
  /\ UNCHANGED <<status, toServerVars, sockfd, con, serverVars, wire, reset, settled>>

FreeDescriptors == {f \in Descriptors : file[f] = Free}

(* socket() returns the lowest free number. *)
Lowest == CHOOSE f \in FreeDescriptors : \A g \in FreeDescriptors : f <= g

(* Connection::Connection, in the retry loop.  stoi throws on an address without
   a port, for ever; without a descriptor the program exits. *)
Socket ==
  /\ pcF = "socket" /\ primary # NoPort
  /\ IF FreeDescriptors = {} THEN status' = "exited" /\ UNCHANGED <<pcF, sockfd, file>>
     ELSE /\ pcF' = "connect" /\ sockfd' = Lowest
          /\ file' = [file EXCEPT ![sockfd'] = Unconnected]
          /\ UNCHANGED status
  /\ UNCHANGED <<toServerVars, primary, objects, con, serverVars, wire, reset, settled>>

(* Fault: the address is tried once. *)
AfterRefusalGiveUp == "ended"

AfterRefusal == "socket"

(* Fault: the object is used again and stays closed. *)
NewConnectionClosed(f) == [sockfd |-> f, closed |-> TRUE]

NewConnection(f) == [sockfd |-> f, closed |-> FALSE]

(* Fault: the presentation is left out. *)
AfterConnectSilent == "recv"

(* updateConn(true) sends OK, updateConn(false), in main, does not. *)
AfterConnect == IF pcT = "unborn" THEN "recv" ELSE "ok"

Listening == {s \in Servers : up[s] = "listening" /\ address[s] = primary}

(* connect() is refused until a server listens at the address: the constructor
   throws and its descriptor stays open.  main starts the threads after the
   first one. *)
Connect ==
  /\ pcF = "connect"
  /\ IF Listening # {}
     THEN /\ \E s \in Listening : file' = [file EXCEPT ![sockfd] = s]
          /\ objects' = Append(objects, NewConnection(sockfd))
          /\ con' = Len(objects')
          /\ pcF' = AfterConnect
          /\ pcT' = IF pcT = "unborn" THEN "present" ELSE pcT
     ELSE pcF' = AfterRefusal /\ UNCHANGED <<file, objects, con, pcT>>
  /\ UNCHANGED <<status, line, taken, sockfd, primary, serverVars, wire, reset, settled>>

SendOK ==
  /\ pcF = "ok"
  /\ IF RaisesSIGPIPE(objects[con].sockfd)
     THEN status' = "killed" /\ UNCHANGED <<wire, reset, pcF>>
     ELSE Deliver(objects[con].sockfd, Packet("OK", 0)) /\ pcF' = "recv" /\ UNCHANGED status
  /\ UNCHANGED <<toServerVars, sockfd, primary, objects, con, file, serverVars, settled>>

-----------------------------------------------------------------------------
(* The servers. *)
clientVars == <<status, toServerVars, fromServerVars, file, settled>>

(* The first server; the backup of a primary that died; or that primary,
   started again, to which the router returns its own address. *)
Name(a) ==
  /\ primaryServer < LastServer
  /\ primaryServer # 0 => up[primaryServer] = "dead"
  /\ primaryServer' = primaryServer + 1
  /\ address' = [address EXCEPT ![primaryServer'] = a]
  /\ up' = [up EXCEPT ![primaryServer'] = IF a = address[primaryServer] THEN "named" ELSE "naming"]
  /\ UNCHANGED <<clientVars, session, carried, wire, reset>>

(* The router has assigned the address; the server listens. *)
Named(s) ==
  /\ up[s] = "naming"
  /\ up' = [up EXCEPT ![s] = "named"]
  /\ UNCHANGED <<clientVars, primaryServer, address, session, carried, wire, reset>>

Listen(s) ==
  /\ up[s] = "named"
  /\ up' = [up EXCEPT ![s] = "listening"]
  /\ UNCHANGED <<clientVars, primaryServer, address, session, carried, wire, reset>>

(* Whatever ends it: a signal, or a first packet from a profile unknown to it. *)
Crash(s) ==
  /\ up[s] \in {"naming", "named", "listening"}
  /\ up' = [up EXCEPT ![s] = "dead"]
  /\ CloseServerEnd(s, wire[s])
  /\ UNCHANGED <<clientVars, primaryServer, address, session, carried>>

Reads(s) == up[s] = "listening" /\ Open(s) /\ wire[s] # <<>>

(* A PROFILE, the first packet or a later one, finds MAX_SESSIONS sessions:
   CLOSE_CONN is sent, the connection closed, and the thread ends. *)
Refuse(s) ==
  /\ Reads(s) /\ Head(wire[s]).cmd = "PROFILE"
  /\ session' = [session EXCEPT ![s] = "refused"]
  /\ CloseServerEnd(s, Tail(wire[s]))
  /\ UNCHANGED <<clientVars, primaryServer, up, address, carried>>

(* CLOSE_CONN on an open session: the loop ends and the connection is closed. *)
Leave(s) ==
  /\ Reads(s) /\ session[s] = "on" /\ Head(wire[s]).cmd = "CLOSE_CONN"
  /\ session' = [session EXCEPT ![s] = "left"]
  /\ CloseServerEnd(s, Tail(wire[s]))
  /\ UNCHANGED <<clientVars, primaryServer, up, address, carried>>

(* fromClient: any first packet is taken for a presentation; later ones are
   carried out. *)
Process(s) ==
  LET packet == Head(wire[s]) IN
  /\ Reads(s) /\ (session[s] = "on" => packet.cmd # "CLOSE_CONN")
  /\ session' = [session EXCEPT ![s] = "on"]
  /\ wire' = [wire EXCEPT ![s] = Tail(@)]
  /\ carried' = IF session[s] = "on" /\ packet.cmd = "SEND" THEN Append(carried, packet.n) ELSE carried
  /\ UNCHANGED <<clientVars, primaryServer, up, address, reset>>

Serve(s) == Refuse(s) \/ Leave(s) \/ Process(s)

-----------------------------------------------------------------------------
ToServer == Running /\ (Present \/ Check \/ Put)
User == Running /\ ((\E kind \in Kinds : ReadLine(kind)) \/ EndOfInput \/ Interrupt)
FromServer == Running /\ (Receive \/ Ask \/ Socket \/ Connect \/ SendOK)

Next ==
  \/ ToServer
  \/ User
  \/ FromServer
  \/ \E a \in Addresses : Name(a)
  \/ \E s \in Servers : Named(s) \/ Listen(s) \/ Crash(s) \/ Serve(s)

Spec == Init /\ [][Next]_vars

(* Both threads run on, and a server reads what it is sent.  Nothing makes the
   user type, a server die, or another one follow it. *)
FairSpec ==
  /\ Spec
  /\ WF_vars(ToServer) /\ WF_vars(FromServer)
  /\ \A s \in Servers : WF_vars(Serve(s))
-----------------------------------------------------------------------------
TypeOK ==
  /\ status \in {"running", "exited", "killed", "aborted"}
  /\ pcT \in {"unborn", "present", "read", "check", "put", "ended"}
  /\ line \in [kind : Kinds \cup {"none"}, n : 0 .. MaxLines]
  /\ pcF \in {"ask", "socket", "connect", "ok", "recv"}
  /\ sockfd \in Descriptors
  /\ primary \in Addresses \cup {Random, NoPort, Nowhere}
  /\ objects \in Seq([sockfd : Descriptors, closed : BOOLEAN])
  /\ con \in 0 .. Len(objects) /\ taken \in 0 .. Len(objects)
  /\ file \in [Descriptors -> Servers \cup {Free, Unconnected}]
  /\ primaryServer \in 0 .. LastServer
  /\ up \in [Servers -> {"off", "naming", "named", "listening", "dead"}]
  /\ address \in [0 .. LastServer -> Addresses \cup {NoPort}]
  /\ wire \in [Servers -> Seq([cmd : {"PROFILE", "OK", "SEND", "CLOSE_CONN"}, n : 0 .. MaxLines])]
  /\ reset \subseteq Servers
  /\ session \in [Servers -> {"none", "on", "left", "refused"}]
  /\ carried \in Seq(0 .. MaxLines)
  /\ settled \subseteq [n : 1 .. MaxLines, server : Servers]

(* What the user types is carried out at most once and in the order it was
   typed, whichever servers take it: a packet that went to a server that died
   is never sent again, and no packet overtakes another through a descriptor
   that was closed and opened again (client/main.cpp:62, 70, 121). *)
CommandsInOrder ==
  \A m, n \in DOMAIN carried : m < n => carried[m] < carried[n]

(* Commands are lost only around a failover or a refused login.  One that is
   sent while fromServer waits on a connection to a living server reaches that
   server and is carried out there, unless the server dies, or refuses a
   PROFILE of this client, before it has read the command; it is not taken for a
   presentation (server/main.cpp:54), it is not sent on what has become of an
   earlier connection's descriptor, and it is never behind a CLOSE_CONN. *)
SettledIsCarriedOut ==
  \A command \in settled :
    \/ Contains(carried, command.n)
    \/ Open(command.server) /\ Contains(wire[command.server], Packet("SEND", command.n))
    \/ up[command.server] = "dead" \/ session[command.server] = "refused"

(* toServer gives up for good (client/main.cpp:131) only if it looks at con
   after fromServer has closed it and before it has replaced it. *)
SenderEndsInGap ==
  [][pcT # "ended" /\ pcT' = "ended" => pcF \in {"socket", "connect"}]_vars

(* The connection con is up and the server knows whose it is. *)
Connected ==
  /\ pcF = "recv" /\ up[ServerOfCon] = "listening" /\ session[ServerOfCon] = "on"

Serving == primaryServer # 0 /\ up[primaryServer] = "listening"

(* The primary is not the run con leads to, and has the same address: the
   comparison of client/main.cpp:52 never lets con be replaced. *)
Stranded ==
  /\ pcF \in {"recv", "ask"} /\ con # 0
  /\ ServerOfCon # primaryServer /\ primary = address[primaryServer]

(* Once a primary has come to stay, after however many died, the program comes
   to rest: it has ended (a refused login, SIGPIPE, an address where nobody
   listens has used up the descriptors), or it is connected to the primary,
   which knows whose connection it is.  It spins for ever in two cases only: it
   was given an answer without a port, before there was a primary or torn, and
   never asks again; or the primary was started again under the address that
   the client is connected to. *)
Settles == <>[]Serving => <>[](~Running \/ Connected \/ primary = NoPort \/ Stranded)
=============================================================================
