------------------------------ MODULE Failover ------------------------------
(***************************************************************************)
(* Which servers act as primary: main() of every server (server/main.cpp), *)
(* receiveAlive's promotion of a backup, and the router they ask.  Servers *)
(* may be killed and started again; the router stays up.                   *)
(*                                                                         *)
(* A server opens one connection to the router when it starts and one when *)
(* it is promoted, so a connection is <<purpose, number of the start>>.    *)
(* The kernel closes a killed server's connections: its backups notice,    *)
(* and what it asked the router is still answered.                         *)
(***************************************************************************)
EXTENDS Naturals, FiniteSets

CONSTANTS
  Servers,    (* the servers, each named by its address                     *)
  Clients,    (* client programs, which ask the router for the primary      *)
  empty, torn, none,
  MaxStarts,  (* bound: how often servers are started, restarts included    *)
  MaxCrashes  (* bound: how many servers are killed                         *)

ASSUME ServersAssumption == IsFiniteSet(Servers) /\ none \notin Servers
ASSUME BoundsAssumption == MaxStarts \in Nat /\ MaxCrashes \in Nat

VARIABLES
  state,      (* where each server is in main()                             *)
  watched,    (* the primary a backup is connected to                       *)
  starts,     (* how many servers were started                              *)
  number,     (* the number of each server's last start                     *)
  crashes,    (* how many servers were killed                               *)
  primaryServer, hasPrimary, m, assigning, mixed, pc, question, answer

Connections == ({"start", "promotion"} \X (1 .. MaxStarts)) \cup ({"client"} \X Clients)

(* none is neither a connection nor a question nor an answer.                *)
ASSUME NoneAssumption ==
  none \notin Connections \cup
    ({"SET_PRIMARY_IF_NOT_EXISTS", "SET_PRIMARY", "GET_PRIMARY", "OK"}
       \X (Servers \cup {empty, torn, none}))

Router == INSTANCE Router WITH Conns <- Connections, Addresses <- Servers

serverVars == <<state, watched, starts, number, crashes>>
routerVars == <<primaryServer, hasPrimary, m, assigning, mixed, pc, question, answer>>
vars == <<serverVars, routerVars>>

States == {"off", "starting", "connecting", "backup", "orphan", "promoting",
           "primary", "serving"}

StartConn(s) == <<"start", number[s]>>
PromotionConn(s) == <<"promotion", number[s]>>

Init ==
  /\ state = [s \in Servers |-> "off"]
  /\ watched = [s \in Servers |-> none]
  /\ starts = 0
  /\ number = [s \in Servers |-> 0]
  /\ crashes = 0
  /\ Router!Init

Move(s, from, to) == state[s] = from /\ state' = [state EXCEPT ![s] = to]

(* main, up to the answer of the router. *)
Start(s) ==
  /\ starts < MaxStarts
  /\ Move(s, "off", "starting")
  /\ starts' = starts + 1
  /\ number' = [number EXCEPT ![s] = starts']
  /\ Router!Ask(<<"start", starts'>>, "SET_PRIMARY_IF_NOT_EXISTS", s)
  /\ UNCHANGED <<watched, crashes>>

(* The router answered OK, or the server's own address. *)
StartAsPrimary(s) ==
  /\ Move(s, "starting", "primary")
  /\ \/ \E a \in Servers \cup {empty, torn} : Router!Answered(StartConn(s), "OK", a)
     \/ Router!Answered(StartConn(s), "SET_PRIMARY", s)
  /\ UNCHANGED <<watched, starts, number, crashes>>

StartAsBackup(s) ==
  /\ Move(s, "starting", "connecting")
  /\ \E a \in (Servers \ {s}) \cup {empty, torn} :
       /\ Router!Answered(StartConn(s), "SET_PRIMARY", a)
       /\ watched' = [watched EXCEPT ![s] = a]
  /\ UNCHANGED <<starts, number, crashes>>

Serving == {s \in Servers : state[s] = "serving"}

(* The connection to the primary and SET_BACKUP; main catches nothing, so a
   server that finds nobody listening ends. *)
ConnectToPrimary(s) ==
  /\ \/ watched[s] \in Serving /\ Move(s, "connecting", "backup") /\ UNCHANGED watched
     \/ /\ watched[s] \notin Serving
        /\ Move(s, "connecting", "off")
        /\ watched' = [watched EXCEPT ![s] = none]
  /\ UNCHANGED <<starts, number, crashes, routerVars>>

(* receiveAlive's catch: the backup tells the router that it is primary. *)
Promote(s) ==
  /\ Move(s, "orphan", "promoting")
  /\ Router!Ask(PromotionConn(s), "SET_PRIMARY", s)
  /\ UNCHANGED <<watched, starts, number, crashes>>

AnyAnswer(c) ==
  \E cmd \in {"OK", "SET_PRIMARY"}, a \in Servers \cup {empty, torn} :
    Router!Answered(c, cmd, a)

(* Fault: receiveAlive's loop goes on after the catch, and receivePacket
   throws again on the connection to the dead primary. *)
PromotedLoops(s) ==
  /\ Move(s, "promoting", "orphan")
  /\ AnyAnswer(PromotionConn(s))
  /\ UNCHANGED <<watched, starts, number, crashes>>

(* receiveAlive ends with any answer, and main, which had joined it, goes on. *)
Promoted(s) ==
  /\ Move(s, "promoting", "primary")
  /\ AnyAnswer(PromotionConn(s))
  /\ UNCHANGED <<watched, starts, number, crashes>>

(* new Server(port), and the loop that accepts clients and backups. *)
Listen(s) ==
  /\ Move(s, "primary", "serving")
  /\ UNCHANGED <<watched, starts, number, crashes, routerVars>>

(* A server is killed; recv returns 0 at those that back it up. *)
Crash(s) ==
  /\ crashes < MaxCrashes
  /\ state[s] # "off"
  /\ crashes' = crashes + 1
  /\ state' = [t \in Servers |->
                 IF t = s THEN "off"
                 ELSE IF state[t] = "backup" /\ watched[t] = s THEN "orphan"
                 ELSE state[t]]
  /\ watched' = [t \in Servers |->
                   IF t = s \/ (state[t] = "backup" /\ watched[t] = s) THEN none
                   ELSE watched[t]]
  /\ UNCHANGED <<starts, number, routerVars>>

(* A client asks for the primary. *)
AskPrimary(k) ==
  /\ answer[<<"client", k>>] = none
  /\ Router!Ask(<<"client", k>>, "GET_PRIMARY", none)
  /\ UNCHANGED serverVars

Proceed(s) ==
  \/ StartAsPrimary(s)
  \/ StartAsBackup(s)
  \/ ConnectToPrimary(s)
  \/ Promote(s)
  \/ Promoted(s)
  \/ Listen(s)

RouterStep(c) == Router!Handle(c) /\ UNCHANGED serverVars

Next ==
  \/ \E s \in Servers : Start(s) \/ Proceed(s) \/ Crash(s)
  \/ \E k \in Clients : AskPrimary(k)
  \/ \E c \in Connections : RouterStep(c)

Spec == Init /\ [][Next]_vars

(* A running program and the router's threads take the steps they can take;
   nobody has to start, kill or ask. *)
Fairness ==
  /\ \A s \in Servers : WF_vars(Proceed(s))
  /\ \A c \in Connections : WF_vars(RouterStep(c))

FairSpec == Spec /\ Fairness
-----------------------------------------------------------------------------
TypeOK ==
  /\ state \in [Servers -> States]
  /\ watched \in [Servers -> Servers \cup {empty, torn, none}]
  /\ starts \in 0..MaxStarts
  /\ number \in [Servers -> 0..MaxStarts]
  /\ crashes \in 0..MaxCrashes
  /\ Router!TypeOK

ActsAsPrimary(s) == state[s] \in {"primary", "serving"}

(* However the servers race to start, until one of them is killed at most
   one takes itself for the primary: the mutex of the router decides, and a
   server that ended because its primary was not listening yet and starts
   again does not change that. *)
OnePrimaryUntilCrash ==
  crashes = 0 =>
    \A s, t \in Servers : ActsAsPrimary(s) /\ ActsAsPrimary(t) => s = t

(* The unguarded SET_PRIMARY is the only thing that can spoil the address of
   an answer to a server: until one is killed, a server that is told to be a
   backup is told the address of the one that was told OK. *)
BackupsAgreeUntilCrash ==
  crashes = 0 =>
    \A s \in Servers : state[s] \in {"connecting", "backup"} =>
      /\ watched[s] \in Servers
      /\ \A t \in Servers : ActsAsPrimary(t) => watched[s] = t

(* A server that asks the router gets on: it is not left waiting for an
   answer by a mutex that another thread of the router never gives back. *)
EveryServerAnswered ==
  \A s \in Servers : state[s] \in {"starting", "promoting"} ~>
                       state[s] \notin {"starting", "promoting"}

(* A backup whose primary was killed takes over. *)
BackupTakesOver == \A s \in Servers : state[s] = "orphan" ~> state[s] \in {"serving", "off"}

(* After the last crash clients are eventually sent to a server that serves
   them, if there is one: several backups may have promoted themselves, but
   the one that the router names is among them, unless two unguarded
   assignments mixed their addresses. *)
RouterFindsService == <>[](Serving = {} \/ primaryServer \in Serving \cup {torn})

(* server/main.cpp:358 takes the router's answer for the truth: a server
   that is told its own address, and goes on as primary, is the only one. *)
OwnAddressMeansPrimary ==
  [][\A s \in Servers : StartAsPrimary(s) => \A t \in Servers : ~ActsAsPrimary(t)]_vars
=============================================================================
