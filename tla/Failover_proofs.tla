--------------------------- MODULE Failover_proofs ---------------------------
(***************************************************************************)
(* Proofs about Failover, for any number of servers, clients of the        *)
(* router, starts and kills: until a server is killed, at most one acts as *)
(* primary and every backup was told its address.                          *)
(***************************************************************************)
EXTENDS Failover, TLAPS

Addresses == Servers \cup {empty, torn}
SetQuestions == {"SET_PRIMARY_IF_NOT_EXISTS", "SET_PRIMARY"} \X Servers
GetQuestion == <<"GET_PRIMARY", none>>
Answers == {"OK", "SET_PRIMARY"} \X Addresses

(* What waits on a connection: only clients ask for the primary. *)
Messages ==
  /\ question \in [Connections -> SetQuestions \cup {GetQuestion, none}]
  /\ \A c \in Connections : question[c] = GetQuestion => c[1] = "client"
  /\ answer \in [Connections -> Answers \cup {none}]

(* Whoever runs was started, and so has its two connections. *)
Started == \A s \in Servers : state[s] # "off" => number[s] # 0

Types == TypeOK /\ Messages /\ Started

-----------------------------------------------------------------------------
(* What holds until a server is killed.                                     *)

(* Nobody has lost a primary, so nobody promotes itself. *)
NoPromotion == \A s \in Servers : state[s] \notin {"orphan", "promoting"}

(* Every start has a number, and with it a connection, of its own. *)
Numbered ==
  /\ \A s \in Servers : number[s] <= starts
  /\ \A s, t \in Servers : number[s] = number[t] /\ number[s] # 0 => s = t
  /\ \A n \in 1..MaxStarts :
       n > starts => question[<<"start", n>>] = none /\ answer[<<"start", n>>] = none

(* A question that is not a client's is that of a server which is starting
   and waits for the answer. *)
Asking ==
  \A c \in Connections :
    question[c] \in SetQuestions =>
      \E s \in Servers :
        /\ state[s] = "starting"
        /\ c = StartConn(s)
        /\ question[c] = <<"SET_PRIMARY_IF_NOT_EXISTS", s>>
        /\ answer[c] = none

(* Whoever is past its question holds the mutex. *)
UnderMutex ==
  \A c \in Connections : pc[c] # "receive" => m = c /\ question[c] \in SetQuestions

(* The router's string is assigned once, to the address of the first server
   that took the mutex. *)
AssignedOnce ==
  /\ assigning = {} => mixed = {}
  /\ \A c \in Connections : pc[c] = "assign" => ~hasPrimary /\ mixed = {question[c][2]}
  /\ \A c \in Connections :
       pc[c] = "answer" /\ ~hasPrimary => primaryServer = question[c][2]
  /\ hasPrimary => primaryServer \in Servers

(* Every answer to a server names that address, and OK goes to it alone. *)
AnswersNamePrimary ==
  \A s \in Servers :
    state[s] = "starting" /\ answer[StartConn(s)] # none =>
      /\ hasPrimary
      /\ answer[StartConn(s)][2] = primaryServer
      /\ answer[StartConn(s)][1] = "OK" => s = primaryServer

(* So do the roles the servers took. *)
Roles ==
  \A s \in Servers :
    /\ ActsAsPrimary(s) => hasPrimary /\ s = primaryServer
    /\ state[s] \in {"connecting", "backup"} => hasPrimary /\ watched[s] = primaryServer

Calm ==
  /\ NoPromotion /\ Numbered /\ Asking
  /\ UnderMutex /\ AssignedOnce /\ AnswersNamePrimary /\ Roles

IInv == Types /\ (crashes = 0 => Calm)

-----------------------------------------------------------------------------
(* Types and messages.                                                      *)

(* Which connections there are. *)
LEMMA ConnectionFacts ==
  /\ \A n \in 1..MaxStarts : <<"start", n>> \in Connections /\ <<"promotion", n>> \in Connections
  /\ \A k \in Clients : <<"client", k>> \in Connections
  BY DEF Connections

(* none is not one of the messages. *)
LEMMA MessagesNotNone ==
  /\ none \notin SetQuestions /\ none # GetQuestion /\ none \notin Answers
  /\ GetQuestion \notin SetQuestions
  /\ none \notin Connections
  BY NoneAssumption DEF SetQuestions, GetQuestion, Answers, Addresses

(* Asking and reading the answer keep the router's types. *)
LEMMA AskTypes ==
  ASSUME Types, NEW c \in Connections, NEW cmd, NEW a, Router!Ask(c, cmd, a),
         \/ <<cmd, a>> \in SetQuestions
         \/ <<cmd, a>> = GetQuestion /\ c[1] = "client"
  PROVE  Router!TypeOK' /\ Messages'
  <1>1. question' = [question EXCEPT ![c] = <<cmd, a>>] /\ question[c] = none
    BY DEF Router!Ask
  <1>2. UNCHANGED <<primaryServer, hasPrimary, m, assigning, mixed, pc, answer>>
    BY DEF Router!Ask
  <1>3. a \in Servers \cup {none}
    BY DEF SetQuestions, GetQuestion
  <1>4. Router!TypeOK'
    BY <1>1, <1>2, <1>3 DEF Types, TypeOK, Router!TypeOK, Messages
  <1>5. Messages'
    BY <1>1, <1>2, MessagesNotNone DEF Types, Messages
  <1> QED BY <1>4, <1>5

LEMMA AnsweredTypes ==
  ASSUME Types, NEW c \in Connections, NEW cmd, NEW a, Router!Answered(c, cmd, a)
  PROVE  Router!TypeOK' /\ Messages'
  BY DEF Router!Answered, Types, TypeOK, Messages, Router!TypeOK

(* The answer of a thread of the router. *)
LEMMA AnswerWithTypes ==
  ASSUME Types, NEW c \in Connections, NEW cmd \in {"OK", "SET_PRIMARY"},
         Router!AnswerWith(c, cmd)
  PROVE  /\ Messages'
         /\ pc' = [pc EXCEPT ![c] = "receive"]
         /\ \A d \in Connections : question'[d] = none \/ question'[d][2] \in Servers \cup {none}
         /\ \A d \in Connections : answer'[d] = none \/ answer'[d][2] \in Addresses
  <1>1. PICK a \in Router!Copies : answer' = [answer EXCEPT ![c] = <<cmd, a>>]
    BY DEF Router!AnswerWith
  <1>2. a \in Addresses
    BY DEF Router!Copies, Types, TypeOK, Router!TypeOK, Addresses
  <1>3. question' = [question EXCEPT ![c] = none] /\ pc' = [pc EXCEPT ![c] = "receive"]
    BY DEF Router!AnswerWith
  <1>4. <<cmd, a>> \in Answers
    BY <1>2 DEF Answers
  <1> QED
    BY <1>1, <1>2, <1>3, <1>4, MessagesNotNone
    DEF Types, TypeOK, Router!TypeOK, Messages, Addresses

LEMMA HandleTypes ==
  ASSUME Types, NEW c \in Connections, Router!Handle(c)
  PROVE  Router!TypeOK' /\ Messages'
  <1> USE DEF Types, TypeOK, Router!TypeOK
  <1>1. CASE Router!SetPrimaryIfNotExists(c) \/ Router!SetPrimary(c)
    <2>1. question[c] \in SetQuestions /\ question[c][2] \in Servers
      BY <1>1, MessagesNotNone
      DEF Router!SetPrimaryIfNotExists, Router!SetPrimary, Router!Asks, Messages,
          SetQuestions, GetQuestion
    <2>2. Messages'
      BY <1>1 DEF Router!SetPrimaryIfNotExists, Router!SetPrimary, Messages
    <2>3. Router!TypeOK'
      BY <1>1, <2>1 DEF Router!SetPrimaryIfNotExists, Router!SetPrimary, Router!BeginAssign,
                        Router!Asks
    <2> QED BY <2>2, <2>3
  <1>2. CASE Router!EndAssign(c)
    <2>1. primaryServer' \in Servers \cup {empty, torn} /\ mixed' \subseteq Servers
      BY <1>2 DEF Router!EndAssign
    <2>2. Router!TypeOK' /\ Messages'
      BY <1>2, <2>1 DEF Router!EndAssign, Messages
    <2> QED BY <2>2
  <1>3. CASE Router!GetPrimary(c)
    <2>1. pc[c] = "receive" /\ Router!AnswerWith(c, "SET_PRIMARY")
      BY <1>3 DEF Router!GetPrimary, Router!Asks
    <2> QED
      BY <1>3, <2>1, AnswerWithTypes DEF Router!GetPrimary, Addresses
  <1>4. CASE Router!AnswerSetPrimary(c)
    <2>1. pc[c] = "answer" /\ Router!AnswerWith(c, "OK")
      BY <1>4 DEF Router!AnswerSetPrimary
    <2> QED
      BY <1>4, <2>1, AnswerWithTypes DEF Router!AnswerSetPrimary, Addresses
  <1>5. CASE Router!AnswerIfNotExists(c)
    <2>1. PICK cmd \in {"OK", "SET_PRIMARY"} : Router!AnswerWith(c, cmd)
      BY <1>5 DEF Router!AnswerIfNotExists
    <2>2. pc[c] = "answer"
      BY <1>5 DEF Router!AnswerIfNotExists
    <2> QED
      BY <1>5, <2>1, <2>2, AnswerWithTypes DEF Router!AnswerIfNotExists, Addresses
  <1> QED
    BY <1>1, <1>2, <1>3, <1>4, <1>5 DEF Router!Handle

LEMMA TypesInit == Init => Types
  <1> SUFFICES ASSUME Init PROVE Types
    OBVIOUS
  <1>1. Router!Init
    BY DEF Init
  <1>2. Router!TypeOK /\ Messages
    BY <1>1, MessagesNotNone DEF Router!Init, Router!TypeOK, Messages
  <1>3. TypeOK /\ Started
    BY <1>2, BoundsAssumption DEF Init, TypeOK, Started, States
  <1> QED BY <1>2, <1>3 DEF Types

(* An action that leaves the router alone. *)
LEMMA QuietTypes ==
  ASSUME Types, UNCHANGED routerVars
  PROVE  Router!TypeOK' /\ Messages'
  BY DEF routerVars, Types, TypeOK, Router!TypeOK, Messages

(* A server that runs has its connections. *)
LEMMA OwnConnections ==
  ASSUME Types, NEW s \in Servers, state[s] # "off"
  PROVE  StartConn(s) \in Connections /\ PromotionConn(s) \in Connections
  BY ConnectionFacts DEF Types, TypeOK, Started, StartConn, PromotionConn

(* The servers' part of Types. *)
ServerTypes ==
  /\ state \in [Servers -> States]
  /\ watched \in [Servers -> Servers \cup {empty, torn, none}]
  /\ starts \in 0..MaxStarts
  /\ number \in [Servers -> 0..MaxStarts]
  /\ crashes \in 0..MaxCrashes
  /\ Started

LEMMA TypesNext == Types /\ [Next]_vars => Types'
  <1> SUFFICES ASSUME Types, [Next]_vars PROVE Types'
    OBVIOUS
  <1>0. ServerTypes
    BY DEF Types, TypeOK, ServerTypes
  <1>a. ASSUME ServerTypes', Router!TypeOK', Messages' PROVE Types'
    BY <1>a DEF Types, TypeOK, ServerTypes
  <1>1. ASSUME NEW s \in Servers, Start(s) PROVE Types'
    <2> DEFINE c == <<"start", starts'>>
    <2>a. starts' \in 1..MaxStarts
      BY <1>0, <1>1, BoundsAssumption DEF Start, ServerTypes
    <2>1. starts' \in 1..MaxStarts /\ c \in Connections
      BY <2>a, ConnectionFacts
    <2>2. Router!Ask(c, "SET_PRIMARY_IF_NOT_EXISTS", s)
      BY <1>1 DEF Start
    <2>3. <<"SET_PRIMARY_IF_NOT_EXISTS", s>> \in SetQuestions
      BY DEF SetQuestions
    <2> HIDE DEF c
    <2>4. Router!TypeOK' /\ Messages'
      BY <2>1, <2>2, <2>3, AskTypes
    <2>5. ServerTypes'
      BY <1>0, <1>1, <2>1 DEF Start, Move, ServerTypes, Started, States
    <2> QED BY <1>a, <2>4, <2>5
  <1>2. ASSUME NEW s \in Servers, StartAsPrimary(s) PROVE Types'
    <2>1. ServerTypes'
      BY <1>0, <1>2 DEF StartAsPrimary, Move, ServerTypes, Started, States
    <2>2. StartConn(s) \in Connections
      BY <1>2, OwnConnections DEF StartAsPrimary, Move
    <2>3. PICK cmd \in {"OK", "SET_PRIMARY"}, a \in Addresses :
             Router!Answered(StartConn(s), cmd, a)
      BY <1>2 DEF StartAsPrimary, Addresses
    <2> QED BY <1>a, <2>1, <2>2, <2>3, AnsweredTypes
  <1>3. ASSUME NEW s \in Servers, StartAsBackup(s) PROVE Types'
    <2>1. ServerTypes'
      BY <1>0, <1>3 DEF StartAsBackup, Move, ServerTypes, Started, States
    <2>2. StartConn(s) \in Connections
      BY <1>3, OwnConnections DEF StartAsBackup, Move
    <2>3. PICK a \in Addresses : Router!Answered(StartConn(s), "SET_PRIMARY", a)
      BY <1>3 DEF StartAsBackup, Addresses
    <2> QED BY <1>a, <2>1, <2>2, <2>3, AnsweredTypes
  <1>4. ASSUME NEW s \in Servers, ConnectToPrimary(s) PROVE Types'
    <2>1. ServerTypes'
      BY <1>0, <1>4 DEF ConnectToPrimary, Move, ServerTypes, Started, States
    <2> QED BY <1>a, <1>4, <2>1, QuietTypes DEF ConnectToPrimary
  <1>5. ASSUME NEW s \in Servers, Promote(s) PROVE Types'
    <2>1. ServerTypes'
      BY <1>0, <1>5 DEF Promote, Move, ServerTypes, Started, States
    <2>2. PromotionConn(s) \in Connections
      BY <1>5, OwnConnections DEF Promote, Move
    <2>3. Router!Ask(PromotionConn(s), "SET_PRIMARY", s)
      BY <1>5 DEF Promote
    <2>4. <<"SET_PRIMARY", s>> \in SetQuestions
      BY DEF SetQuestions
    <2> QED BY <1>a, <2>1, <2>2, <2>3, <2>4, AskTypes
  <1>6. ASSUME NEW s \in Servers, Promoted(s) PROVE Types'
    <2>1. ServerTypes'
      BY <1>0, <1>6 DEF Promoted, Move, ServerTypes, Started, States
    <2>2. PromotionConn(s) \in Connections
      BY <1>6, OwnConnections DEF Promoted, Move
    <2>3. PICK cmd \in {"OK", "SET_PRIMARY"}, a \in Addresses :
             Router!Answered(PromotionConn(s), cmd, a)
      BY <1>6 DEF Promoted, AnyAnswer, Addresses
    <2> QED BY <1>a, <2>1, <2>2, <2>3, AnsweredTypes
  <1>7. ASSUME NEW s \in Servers, Listen(s) PROVE Types'
    <2>1. ServerTypes'
      BY <1>0, <1>7 DEF Listen, Move, ServerTypes, Started, States
    <2> QED BY <1>a, <1>7, <2>1, QuietTypes DEF Listen
  <1>8. ASSUME NEW s \in Servers, Crash(s) PROVE Types'
    <2>1. ServerTypes'
      BY <1>0, <1>8, BoundsAssumption DEF Crash, ServerTypes, Started, States
    <2> QED BY <1>a, <1>8, <2>1, QuietTypes DEF Crash
  <1>9. ASSUME NEW k \in Clients, AskPrimary(k) PROVE Types'
    <2> DEFINE c == <<"client", k>>
    <2>1. c \in Connections /\ c[1] = "client"
      BY ConnectionFacts
    <2>2. Router!Ask(c, "GET_PRIMARY", none)
      BY <1>9 DEF AskPrimary
    <2> HIDE DEF c
    <2>3. Router!TypeOK' /\ Messages'
      BY <2>1, <2>2, AskTypes DEF GetQuestion
    <2>4. ServerTypes'
      BY <1>0, <1>9 DEF AskPrimary, serverVars, ServerTypes, Started
    <2> QED BY <1>a, <2>3, <2>4
  <1>10. ASSUME NEW c \in Connections, RouterStep(c) PROVE Types'
    <2>1. Router!TypeOK' /\ Messages'
      BY <1>10, HandleTypes DEF RouterStep
    <2>2. ServerTypes'
      BY <1>0, <1>10 DEF RouterStep, serverVars, ServerTypes, Started
    <2> QED BY <1>a, <2>1, <2>2
  <1>11. CASE UNCHANGED vars
    <2>1. ServerTypes'
      BY <1>0, <1>11 DEF vars, serverVars, ServerTypes, Started
    <2> QED BY <1>a, <1>11, <2>1, QuietTypes DEF vars
  <1> QED
    BY <1>1, <1>2, <1>3, <1>4, <1>5, <1>6, <1>7, <1>8, <1>9, <1>10, <1>11
    DEF Next, Proceed

(* Every variable of the servers and the router keeps its type, however
   often servers are killed and started again. *)
THEOREM TypeCorrect == Spec => []TypeOK
  <1>1. Types => TypeOK
    BY DEF Types
  <1> QED BY <1>1, TypesInit, TypesNext, PTL DEF Spec

-----------------------------------------------------------------------------
(* Until a server is killed.                                                *)

LEMMA CalmInit == Init => Calm
  <1> SUFFICES ASSUME Init PROVE Calm
    OBVIOUS
  <1>1. /\ primaryServer = empty /\ hasPrimary = FALSE /\ assigning = {} /\ mixed = {}
        /\ \A c \in Connections : pc[c] = "receive" /\ question[c] = none /\ answer[c] = none
    BY DEF Init, Router!Init
  <1>2. NoPromotion /\ AnswersNamePrimary /\ Roles
    BY DEF Init, NoPromotion, AnswersNamePrimary, Roles, ActsAsPrimary
  <1>3. Numbered
    <2>1. starts = 0 /\ \A s \in Servers : number[s] = 0
      BY DEF Init
    <2>2. \A s \in Servers : number[s] <= starts
      BY <2>1
    <2>3. \A n \in 1..MaxStarts :
             question[<<"start", n>>] = none /\ answer[<<"start", n>>] = none
      BY <1>1, ConnectionFacts
    <2> QED BY <2>1, <2>2, <2>3 DEF Numbered
  <1>4. Asking /\ UnderMutex /\ AssignedOnce
    BY <1>1, MessagesNotNone DEF Asking, UnderMutex, AssignedOnce
  <1> QED BY <1>2, <1>3, <1>4 DEF Calm

(* What the connection of a server that starts holds while it has no answer. *)
LEMMA Waits ==
  ASSUME Types, Calm, NEW c \in Connections, question[c] \in SetQuestions
  PROVE  \E s \in Servers :
           /\ state[s] = "starting" /\ c = StartConn(s)
           /\ question[c] = <<"SET_PRIMARY_IF_NOT_EXISTS", s>> /\ answer[c] = none
           /\ \A t \in Servers : state[t] = "starting" /\ StartConn(t) = c => t = s
  <1>1. PICK s \in Servers : /\ state[s] = "starting" /\ c = StartConn(s)
                             /\ question[c] = <<"SET_PRIMARY_IF_NOT_EXISTS", s>>
                             /\ answer[c] = none
    BY DEF Calm, Asking
  <1>2. ASSUME NEW t \in Servers, state[t] = "starting", StartConn(t) = c PROVE t = s
    BY <1>1, <1>2 DEF StartConn, Calm, Numbered, Types, Started
  <1> QED BY <1>1, <1>2

(* A connection of a start that was answered has no question. *)
LEMMA AnsweredAsksNot ==
  ASSUME Types, Calm, NEW s \in Servers, state[s] = "starting",
         answer[StartConn(s)] # none
  PROVE  question[StartConn(s)] = none
  <1>1. StartConn(s) \in Connections
    BY OwnConnections
  <1>2. question[StartConn(s)] \notin SetQuestions
    BY <1>1, Waits
  <1>3. question[StartConn(s)] # GetQuestion
    BY <1>1 DEF Types, Messages, StartConn
  <1> QED BY <1>1, <1>2, <1>3 DEF Types, Messages

(* Start: the connection is new. *)
LEMMA StartCalm ==
  ASSUME Types, Calm, NEW s \in Servers, Start(s)
  PROVE  Calm'
  <1> DEFINE c == <<"start", starts'>>
  <1>1. starts' = starts + 1 /\ starts' \in 1..MaxStarts /\ starts \in Nat
    BY BoundsAssumption DEF Start, Types, TypeOK
  <1>2. c \in Connections
    BY <1>1, ConnectionFacts
  <1>3. /\ question' = [question EXCEPT ![c] = <<"SET_PRIMARY_IF_NOT_EXISTS", s>>]
        /\ UNCHANGED <<primaryServer, hasPrimary, m, assigning, mixed, pc, answer, watched>>
        /\ state[s] = "off" /\ state' = [state EXCEPT ![s] = "starting"]
        /\ number' = [number EXCEPT ![s] = starts']
    BY DEF Start, Router!Ask, Move
  <1>4. answer[c] = none
    BY <1>1 DEF Calm, Numbered
  <1>5. \A t \in Servers : number[t] \in Nat /\ number[t] <= starts
    BY DEF Calm, Numbered, Types, TypeOK
  <1>6. NoPromotion' /\ Roles'
    BY <1>3 DEF Calm, NoPromotion, Roles, ActsAsPrimary, Types, TypeOK
  <1>7. Numbered'
    <2>1. \A t \in Servers : number'[t] <= starts'
      BY <1>1, <1>3, <1>5 DEF Types, TypeOK
    <2>2. \A t, u \in Servers : number'[t] = number'[u] /\ number'[t] # 0 => t = u
      BY <1>1, <1>3, <1>5 DEF Types, TypeOK, Calm, Numbered
    <2>3. ASSUME NEW n \in 1..MaxStarts, n > starts'
          PROVE  question'[<<"start", n>>] = none /\ answer'[<<"start", n>>] = none
      <3>1. n > starts /\ <<"start", n>> # c
        BY <1>1, <2>3
      <3> HIDE DEF c
      <3> QED BY <1>3, <3>1, ConnectionFacts DEF Calm, Numbered, Types, Messages
    <2> QED BY <2>1, <2>2, <2>3 DEF Numbered
  <1>8. \A t \in Servers : t # s => StartConn(t)' = StartConn(t) /\ StartConn(t) # c
    BY <1>1, <1>3, <1>5 DEF StartConn, Types, TypeOK
  <1>9. StartConn(s)' = c
    BY <1>3 DEF StartConn, Types, TypeOK
  <1> HIDE DEF c
  <1>10. Asking'
    <2> SUFFICES ASSUME NEW d \in Connections, question'[d] \in SetQuestions
                 PROVE  \E t \in Servers :
                          /\ state'[t] = "starting" /\ d = StartConn(t)'
                          /\ question'[d] = <<"SET_PRIMARY_IF_NOT_EXISTS", t>>
                          /\ answer'[d] = none
      BY DEF Asking
    <2>1. CASE d = c
      BY <1>2, <1>3, <1>4, <1>9, <2>1 DEF Types, TypeOK, Messages
    <2>2. CASE d # c
      <3>1. question'[d] = question[d] /\ answer'[d] = answer[d]
        BY <1>3, <2>2 DEF Types, Messages
      <3>2. PICK t \in Servers : /\ state[t] = "starting" /\ d = StartConn(t)
                                 /\ question[d] = <<"SET_PRIMARY_IF_NOT_EXISTS", t>>
                                 /\ answer[d] = none
        BY <3>1 DEF Calm, Asking
      <3>3. t # s
        BY <1>3, <3>2
      <3> QED BY <1>3, <1>8, <3>1, <3>2, <3>3 DEF Types, TypeOK
    <2> QED BY <2>1, <2>2
  <1>11. \A d \in Connections : pc[d] # "receive" => question'[d] = question[d]
    <2>1. question[c] = none
      BY DEF Start, Router!Ask, c
    <2> QED BY <1>3, <2>1, MessagesNotNone DEF Calm, UnderMutex, Types, Messages
  <1>12. UnderMutex' /\ AssignedOnce'
    BY <1>3, <1>11 DEF Calm, UnderMutex, AssignedOnce
  <1>13. AnswersNamePrimary'
    <2> SUFFICES ASSUME NEW t \in Servers, state'[t] = "starting", answer'[StartConn(t)'] # none
                 PROVE  /\ hasPrimary'
                        /\ answer'[StartConn(t)'][2] = primaryServer'
                        /\ answer'[StartConn(t)'][1] = "OK" => t = primaryServer'
      BY DEF AnswersNamePrimary
    <2>1. t # s
      BY <1>3, <1>4, <1>9
    <2> QED BY <1>3, <1>8, <2>1 DEF Calm, AnswersNamePrimary, Types, TypeOK
  <1> QED
    BY <1>6, <1>7, <1>10, <1>12, <1>13 DEF Calm

(* Reading the answer: what the router holds stays, and the server's
   connection has served its purpose. *)
LEMMA AnswerReadCalm ==
  ASSUME Types, Calm, NEW s \in Servers, NEW new \in {"primary", "connecting"}, NEW cmd, NEW a,
         state[s] = "starting", state' = [state EXCEPT ![s] = new],
         Router!Answered(StartConn(s), cmd, a), <<cmd, a>> \in Answers,
         UNCHANGED <<starts, number>>
  PROVE  /\ NoPromotion' /\ Numbered' /\ Asking' /\ UnderMutex' /\ AssignedOnce'
         /\ AnswersNamePrimary'
         /\ hasPrimary' = hasPrimary /\ primaryServer' = primaryServer
         /\ hasPrimary /\ a = primaryServer /\ (cmd = "OK" => s = primaryServer)
  <1> DEFINE c == StartConn(s)
  <1>1. c \in Connections
    BY OwnConnections
  <1>2. /\ answer[c] = <<cmd, a>> /\ answer[c] # none
        /\ answer' = [answer EXCEPT ![c] = none]
        /\ UNCHANGED <<primaryServer, hasPrimary, m, assigning, mixed, pc, question>>
    BY MessagesNotNone DEF Router!Answered
  <1>3. question[c] = none
    BY <1>2, AnsweredAsksNot
  <1>4. hasPrimary /\ a = primaryServer /\ (cmd = "OK" => s = primaryServer)
    BY <1>2 DEF Calm, AnswersNamePrimary
  <1>5. \A d \in Connections : answer'[d] = IF d = c THEN none ELSE answer[d]
    BY <1>2 DEF Types, Messages
  <1>6. /\ state'[s] = new
        /\ \A t \in Servers : t # s => state'[t] = state[t]
        /\ \A t \in Servers : StartConn(t)' = StartConn(t)
    BY DEF Types, TypeOK, StartConn
  <1> HIDE DEF c
  <1>7. NoPromotion'
    BY <1>6 DEF Calm, NoPromotion
  <1>8. Numbered'
    <2>1. ASSUME NEW n \in 1..MaxStarts, n > starts
          PROVE  question'[<<"start", n>>] = none /\ answer'[<<"start", n>>] = none
      BY <1>2, <1>5, <2>1, ConnectionFacts DEF Calm, Numbered
    <2> QED BY <2>1 DEF Calm, Numbered
  <1>9. Asking'
    <2> SUFFICES ASSUME NEW d \in Connections, question[d] \in SetQuestions
                 PROVE  \E t \in Servers :
                          /\ state'[t] = "starting" /\ d = StartConn(t)'
                          /\ question[d] = <<"SET_PRIMARY_IF_NOT_EXISTS", t>>
                          /\ answer'[d] = none
      BY <1>2 DEF Asking
    <2>1. PICK t \in Servers : /\ state[t] = "starting" /\ d = StartConn(t)
                               /\ question[d] = <<"SET_PRIMARY_IF_NOT_EXISTS", t>>
                               /\ answer[d] = none
      BY DEF Calm, Asking
    <2>2. t # s
      BY <1>2, <2>1 DEF c
    <2> QED BY <1>5, <1>6, <2>1, <2>2
  <1>10. UnderMutex' /\ AssignedOnce'
    BY <1>2 DEF Calm, UnderMutex, AssignedOnce
  <1>11. AnswersNamePrimary'
    <2> SUFFICES ASSUME NEW t \in Servers, state'[t] = "starting", answer'[StartConn(t)'] # none
                 PROVE  /\ hasPrimary
                        /\ answer'[StartConn(t)'][2] = primaryServer
                        /\ answer'[StartConn(t)'][1] = "OK" => t = primaryServer
      BY <1>2 DEF AnswersNamePrimary
    <2>1. t # s
      BY <1>6
    <2>2. state[t] = "starting" /\ StartConn(t) \in Connections
      BY <1>6, <2>1, OwnConnections
    <2>3. answer'[StartConn(t)'] = answer[StartConn(t)] /\ answer[StartConn(t)] # none
      BY <1>5, <1>6, <2>2
    <2> QED BY <2>2, <2>3 DEF Calm, AnswersNamePrimary
  <1> QED
    BY <1>2, <1>4, <1>7, <1>8, <1>9, <1>10, <1>11

(* A server that does not talk to the router goes on. *)
LEMMA GoesOnCalm ==
  ASSUME Types, Calm, UNCHANGED <<starts, number, routerVars>>, Roles',
         \A t \in Servers : state'[t] = state[t]
                            \/ /\ state[t] # "starting"
                               /\ state'[t] \in {"off", "backup", "serving"}
  PROVE  Calm'
  <1>1. UNCHANGED <<starts, number, question, answer, pc, m, assigning, mixed, hasPrimary, primaryServer>>
    BY DEF routerVars
  <1>2. NoPromotion' /\ Numbered' /\ UnderMutex' /\ AssignedOnce'
    BY <1>1 DEF Calm, NoPromotion, Numbered, UnderMutex, AssignedOnce
  <1>3. \A t \in Servers : StartConn(t)' = StartConn(t)
    BY <1>1 DEF StartConn
  <1>4. \A t \in Servers : state'[t] = "starting" <=> state[t] = "starting"
    OBVIOUS
  <1>5. Asking' /\ AnswersNamePrimary'
    BY <1>1, <1>3, <1>4 DEF Calm, Asking, AnswersNamePrimary
  <1> QED BY <1>2, <1>5 DEF Calm

LEMMA ServerCalm ==
  ASSUME Types, Calm, NEW s \in Servers, Proceed(s)
  PROVE  Calm'
  <1>1. CASE StartAsPrimary(s)
    <2>1. PICK cmd \in {"OK", "SET_PRIMARY"}, a \in Addresses :
            /\ Router!Answered(StartConn(s), cmd, a)
            /\ cmd = "SET_PRIMARY" => a = s
      BY <1>1 DEF StartAsPrimary, Addresses
    <2>2. <<cmd, a>> \in Answers
      BY DEF Answers
    <2>3. /\ state[s] = "starting" /\ state' = [state EXCEPT ![s] = "primary"]
          /\ UNCHANGED <<watched, starts, number>>
      BY <1>1 DEF StartAsPrimary, Move
    <2>4. /\ NoPromotion' /\ Numbered' /\ Asking' /\ UnderMutex' /\ AssignedOnce'
          /\ AnswersNamePrimary'
          /\ hasPrimary' = hasPrimary /\ primaryServer' = primaryServer
          /\ hasPrimary /\ a = primaryServer /\ (cmd = "OK" => s = primaryServer)
      BY <2>1, <2>2, <2>3, AnswerReadCalm
    <2>5. Roles'
      BY <2>1, <2>3, <2>4 DEF Calm, Roles, ActsAsPrimary, Types, TypeOK
    <2> QED BY <2>4, <2>5 DEF Calm
  <1>2. CASE StartAsBackup(s)
    <2>1. PICK cmd \in {"OK", "SET_PRIMARY"}, a \in Addresses :
            /\ Router!Answered(StartConn(s), cmd, a)
            /\ watched' = [watched EXCEPT ![s] = a]
      BY <1>2 DEF StartAsBackup, Addresses
    <2>2. <<cmd, a>> \in Answers
      BY DEF Answers
    <2>3. PICK new \in {"primary", "connecting"} :
            /\ new = "connecting"
            /\ state[s] = "starting" /\ state' = [state EXCEPT ![s] = new]
            /\ UNCHANGED <<starts, number>>
      BY <1>2 DEF StartAsBackup, Move
    <2>4. /\ NoPromotion' /\ Numbered' /\ Asking' /\ UnderMutex' /\ AssignedOnce'
          /\ AnswersNamePrimary'
          /\ hasPrimary' = hasPrimary /\ primaryServer' = primaryServer
          /\ hasPrimary /\ a = primaryServer /\ (cmd = "OK" => s = primaryServer)
      BY <2>1, <2>2, <2>3, AnswerReadCalm
    <2>5. Roles'
      BY <2>1, <2>3, <2>4 DEF Calm, Roles, ActsAsPrimary, Types, TypeOK
    <2> QED BY <2>4, <2>5 DEF Calm
  <1>3. CASE ConnectToPrimary(s)
    <2>1. UNCHANGED <<starts, number, routerVars>> /\ state[s] = "connecting"
      BY <1>3 DEF ConnectToPrimary, Move
    <2>2. /\ \/ state' = [state EXCEPT ![s] = "backup"] /\ watched' = watched
             \/ /\ state' = [state EXCEPT ![s] = "off"]
                /\ watched' = [watched EXCEPT ![s] = none]
      BY <1>3 DEF ConnectToPrimary, Move
    <2>3. Roles'
      BY <2>1, <2>2 DEF routerVars, Calm, Roles, ActsAsPrimary, Types, TypeOK
    <2> QED BY <2>1, <2>2, <2>3, GoesOnCalm DEF Types, TypeOK
  <1>4. CASE Listen(s)
    <2>1. /\ UNCHANGED <<watched, starts, number, routerVars>> /\ state[s] = "primary"
          /\ state' = [state EXCEPT ![s] = "serving"]
      BY <1>4 DEF Listen, Move
    <2>2. Roles'
      BY <2>1 DEF routerVars, Calm, Roles, ActsAsPrimary, Types, TypeOK
    <2> QED BY <2>1, <2>2, GoesOnCalm DEF Types, TypeOK
  <1>5. ~Promote(s) /\ ~Promoted(s)
    BY DEF Promote, Promoted, Move, Calm, NoPromotion
  <1> QED
    BY <1>1, <1>2, <1>3, <1>4, <1>5 DEF Proceed

LEMMA ClientCalm ==
  ASSUME Types, Calm, NEW k \in Clients, AskPrimary(k)
  PROVE  Calm'
  <1> DEFINE c == <<"client", k>>
  <1>1. c \in Connections /\ c[1] = "client"
    BY ConnectionFacts
  <1>2. /\ question[c] = none
        /\ question' = [question EXCEPT ![c] = GetQuestion]
        /\ UNCHANGED <<primaryServer, hasPrimary, m, assigning, mixed, pc, answer>>
        /\ UNCHANGED <<state, watched, starts, number>>
    BY DEF AskPrimary, Router!Ask, GetQuestion, serverVars
  <1>3. \A n \in 1..MaxStarts : <<"start", n>> # c
    OBVIOUS
  <1>4. \A t \in Servers : StartConn(t)' = StartConn(t)
    BY <1>2 DEF StartConn
  <1> HIDE DEF c
  <1>5. \A d \in Connections : d # c => question'[d] = question[d]
    BY <1>2 DEF Types, Messages
  <1>6. question'[c] = GetQuestion /\ question'[c] \notin SetQuestions
    BY <1>1, <1>2, MessagesNotNone DEF Types, Messages
  <1>7. pc[c] = "receive"
    BY <1>1, <1>2, MessagesNotNone DEF Calm, UnderMutex
  <1>8. NoPromotion' /\ Roles' /\ AnswersNamePrimary'
    BY <1>2, <1>4 DEF Calm, NoPromotion, Roles, ActsAsPrimary, AnswersNamePrimary
  <1>9. Numbered'
    BY <1>2, <1>3, <1>5, ConnectionFacts DEF Calm, Numbered
  <1>10. Asking'
    BY <1>2, <1>4, <1>5, <1>6 DEF Calm, Asking
  <1>11. UnderMutex' /\ AssignedOnce'
    BY <1>2, <1>5, <1>7 DEF Calm, UnderMutex, AssignedOnce
  <1> QED
    BY <1>8, <1>9, <1>10, <1>11 DEF Calm

(* A step of the router that sends no answer. *)
LEMMA RouterKeeps ==
  ASSUME Types, Calm, NEW c \in Connections, UNCHANGED serverVars,
         UNCHANGED <<question, answer, hasPrimary>>,
         hasPrimary => primaryServer' = primaryServer
  PROVE  NoPromotion' /\ Numbered' /\ Asking' /\ AnswersNamePrimary' /\ Roles'
  <1>1. UNCHANGED <<state, watched, starts, number>>
    BY DEF serverVars
  <1>2. \A t \in Servers : StartConn(t)' = StartConn(t)
    BY <1>1 DEF StartConn
  <1>3. NoPromotion' /\ Numbered' /\ Asking'
    BY <1>1, <1>2 DEF Calm, NoPromotion, Numbered, Asking
  <1>4. AnswersNamePrimary' /\ Roles'
    BY <1>1, <1>2 DEF Calm, AnswersNamePrimary, Roles, ActsAsPrimary
  <1> QED BY <1>3, <1>4

(* Who takes the mutex finds everybody else at the start of its loop. *)
LEMMA LockCalm ==
  ASSUME Types, Calm, NEW c \in Connections, Router!SetPrimaryIfNotExists(c),
         UNCHANGED serverVars
  PROVE  Calm'
  <1>1. /\ question[c] \in SetQuestions /\ pc[c] = "receive" /\ m = none /\ m' = c
        /\ UNCHANGED <<primaryServer, hasPrimary, question, answer>>
    BY MessagesNotNone
    DEF Router!SetPrimaryIfNotExists, Router!Asks, Types, Messages, GetQuestion
  <1>2. \A d \in Connections : pc[d] = "receive"
    BY <1>1, MessagesNotNone DEF Calm, UnderMutex
  <1>3. assigning = {} /\ mixed = {}
    BY <1>2 DEF Types, TypeOK, Router!TypeOK, Calm, AssignedOnce
  <1>4. pc \in [Connections -> {"receive", "assign", "answer"}]
    BY DEF Types, TypeOK, Router!TypeOK
  <1>5. \/ /\ ~hasPrimary /\ pc' = [pc EXCEPT ![c] = "assign"]
           /\ assigning' = {c} /\ mixed' = {question[c][2]}
        \/ /\ hasPrimary /\ pc' = [pc EXCEPT ![c] = "answer"]
           /\ assigning' = {} /\ mixed' = {}
    BY <1>3 DEF Router!SetPrimaryIfNotExists, Router!BeginAssign
  <1>6. UnderMutex' /\ AssignedOnce'
    BY <1>1, <1>2, <1>4, <1>5 DEF Calm, UnderMutex, AssignedOnce
  <1> QED
    BY <1>1, <1>6, RouterKeeps DEF Calm

LEMMA AssignedCalm ==
  ASSUME Types, Calm, NEW c \in Connections, Router!EndAssign(c), UNCHANGED serverVars
  PROVE  Calm'
  <1>1. /\ pc[c] = "assign" /\ pc' = [pc EXCEPT ![c] = "answer"]
        /\ UNCHANGED <<hasPrimary, m, question, answer>>
    BY DEF Router!EndAssign
  <1>2. /\ pc \in [Connections -> {"receive", "assign", "answer"}]
        /\ assigning \subseteq Connections
        /\ \A d \in Connections : pc[d] = "assign" <=> d \in assigning
    BY DEF Types, TypeOK, Router!TypeOK
  <1>3. m = c /\ ~hasPrimary /\ mixed = {question[c][2]}
    BY <1>1 DEF Calm, UnderMutex, AssignedOnce
  <1>4. \A d \in Connections : d # c => pc[d] = "receive"
    BY <1>3 DEF Calm, UnderMutex
  <1>5. assigning \ {c} = {}
    BY <1>2, <1>4
  <1>7. assigning' = {} /\ mixed' = {} /\ primaryServer' = question[c][2]
    <2>1. assigning' = {}
      BY <1>5 DEF Router!EndAssign
    <2>2. /\ mixed' = {}
          /\ primaryServer' \in IF \E a \in mixed : mixed = {a} THEN mixed ELSE mixed \cup {torn}
      BY <2>1 DEF Router!EndAssign
    <2> QED BY <1>3, <2>1, <2>2
  <1>8. UnderMutex' /\ AssignedOnce'
    BY <1>1, <1>2, <1>3, <1>4, <1>7 DEF Calm, UnderMutex, AssignedOnce
  <1> QED
    BY <1>1, <1>3, <1>8, RouterKeeps DEF Calm

(* GET_PRIMARY: an answer to a client. *)
LEMMA ClientAnsweredCalm ==
  ASSUME Types, Calm, NEW c \in Connections, Router!GetPrimary(c), UNCHANGED serverVars
  PROVE  Calm'
  <1>1. question[c] = GetQuestion /\ c[1] = "client" /\ pc[c] = "receive"
    <2>1. question[c] # none /\ question[c][1] = "GET_PRIMARY" /\ pc[c] = "receive"
      BY DEF Router!GetPrimary, Router!Asks
    <2> QED BY <2>1 DEF Types, Messages, SetQuestions
  <1>2. PICK a : answer' = [answer EXCEPT ![c] = a]
    BY DEF Router!GetPrimary, Router!AnswerWith
  <1>3. /\ question' = [question EXCEPT ![c] = none]
        /\ pc' = [pc EXCEPT ![c] = "receive"]
        /\ UNCHANGED <<primaryServer, hasPrimary, m, assigning, mixed>>
        /\ UNCHANGED <<state, watched, starts, number>>
    BY DEF Router!GetPrimary, Router!AnswerWith, serverVars
  <1>4. /\ question'[c] \notin SetQuestions
        /\ \A d \in Connections : d # c => question'[d] = question[d] /\ answer'[d] = answer[d]
        /\ pc' = pc
    BY <1>1, <1>2, <1>3, MessagesNotNone DEF Types, TypeOK, Router!TypeOK, Messages
  <1>5. \A t \in Servers : StartConn(t)' = StartConn(t) /\ StartConn(t) # c
    BY <1>1, <1>3 DEF StartConn
  <1>6. \A n \in 1..MaxStarts : <<"start", n>> # c
    BY <1>1
  <1>7. NoPromotion' /\ Roles'
    BY <1>3 DEF Calm, NoPromotion, Roles, ActsAsPrimary
  <1>8. Numbered'
    BY <1>3, <1>4, <1>6, ConnectionFacts DEF Calm, Numbered
  <1>9. Asking'
    BY <1>3, <1>4, <1>5 DEF Calm, Asking
  <1>10. UnderMutex' /\ AssignedOnce'
    BY <1>1, <1>3, <1>4 DEF Calm, UnderMutex, AssignedOnce
  <1>11. AnswersNamePrimary'
    <2> SUFFICES ASSUME NEW t \in Servers, state[t] = "starting", answer'[StartConn(t)] # none
                 PROVE  /\ hasPrimary
                        /\ answer'[StartConn(t)][2] = primaryServer
                        /\ answer'[StartConn(t)][1] = "OK" => t = primaryServer
      BY <1>3, <1>5 DEF AnswersNamePrimary
    <2>1. StartConn(t) \in Connections /\ StartConn(t) # c
      BY <1>5, OwnConnections
    <2> QED BY <1>4, <2>1 DEF Calm, AnswersNamePrimary
  <1> QED
    BY <1>7, <1>8, <1>9, <1>10, <1>11 DEF Calm

(* The answer to a server, still under the mutex. *)
LEMMA ServerAnsweredCalm ==
  ASSUME Types, Calm, NEW c \in Connections, Router!AnswerIfNotExists(c), UNCHANGED serverVars
  PROVE  Calm'
  <1> DEFINE cmd == IF hasPrimary THEN "SET_PRIMARY" ELSE "OK"
  <1>1. /\ pc[c] = "answer" /\ m = c /\ hasPrimary' = TRUE /\ m' = none
        /\ UNCHANGED <<primaryServer, assigning, mixed>>
        /\ UNCHANGED <<state, watched, starts, number>>
        /\ question' = [question EXCEPT ![c] = none]
        /\ pc' = [pc EXCEPT ![c] = "receive"]
    BY DEF Router!AnswerIfNotExists, Router!AnswerWith, serverVars
  <1>2. /\ pc \in [Connections -> {"receive", "assign", "answer"}]
        /\ assigning \subseteq Connections
        /\ \A d \in Connections : pc[d] = "assign" <=> d \in assigning
    BY DEF Types, TypeOK, Router!TypeOK
  <1>3. \A d \in Connections : d # c => pc[d] = "receive"
    BY <1>1 DEF Calm, UnderMutex
  <1>4. assigning = {} /\ mixed = {}
    BY <1>1, <1>2, <1>3 DEF Calm, AssignedOnce
  <1>5. answer' = [answer EXCEPT ![c] = <<cmd, primaryServer>>]
    BY <1>4 DEF Router!AnswerIfNotExists, Router!AnswerWith, Router!Copies
  <1>6. question[c] \in SetQuestions
    BY <1>1 DEF Calm, UnderMutex
  <1>7. PICK s \in Servers :
          /\ state[s] = "starting" /\ c = StartConn(s)
          /\ question[c] = <<"SET_PRIMARY_IF_NOT_EXISTS", s>> /\ answer[c] = none
          /\ \A t \in Servers : state[t] = "starting" /\ StartConn(t) = c => t = s
    BY <1>6, Waits
  <1>8. /\ ~hasPrimary => primaryServer = s
        /\ primaryServer \in Servers
    BY <1>1, <1>7 DEF Calm, AssignedOnce
  <1> HIDE DEF cmd
  <1>9. /\ question'[c] = none
        /\ answer'[c] = <<cmd, primaryServer>>
        /\ \A d \in Connections : d # c => question'[d] = question[d] /\ answer'[d] = answer[d]
        /\ \A d \in Connections : pc'[d] = "receive"
    BY <1>1, <1>2, <1>3, <1>5 DEF Types, Messages
  <1>10. \A t \in Servers : StartConn(t)' = StartConn(t)
    BY <1>1 DEF StartConn
  <1>11. NoPromotion' /\ Roles'
    BY <1>1 DEF Calm, NoPromotion, Roles, ActsAsPrimary
  <1>12. Numbered'
    <2>1. number[s] <= starts /\ number[s] \in Nat /\ starts \in Nat
      BY DEF Calm, Numbered, Types, TypeOK
    <2>2. ASSUME NEW n \in 1..MaxStarts, n > starts PROVE <<"start", n>> # c
      BY <1>7, <2>1, <2>2 DEF StartConn
    <2> QED BY <1>1, <1>9, <2>2, ConnectionFacts DEF Calm, Numbered
  <1>13. Asking'
    BY <1>1, <1>9, <1>10, MessagesNotNone DEF Calm, Asking
  <1>14. UnderMutex' /\ AssignedOnce'
    BY <1>1, <1>4, <1>8, <1>9 DEF UnderMutex, AssignedOnce
  <1>15. AnswersNamePrimary'
    <2> SUFFICES ASSUME NEW t \in Servers, state[t] = "starting", answer'[StartConn(t)] # none
                 PROVE  /\ answer'[StartConn(t)][2] = primaryServer
                        /\ answer'[StartConn(t)][1] = "OK" => t = primaryServer
      BY <1>1, <1>10 DEF AnswersNamePrimary
    <2>1. StartConn(t) \in Connections
      BY OwnConnections
    <2>2. CASE StartConn(t) = c
      <3>1. t = s
        BY <1>7, <2>2
      <3>2. cmd = "OK" => ~hasPrimary
        BY DEF cmd
      <3> QED BY <1>8, <1>9, <2>2, <3>1, <3>2
    <2>3. CASE StartConn(t) # c
      BY <1>9, <2>1, <2>3 DEF Calm, AnswersNamePrimary
    <2> QED BY <2>2, <2>3
  <1> QED
    BY <1>11, <1>12, <1>13, <1>14, <1>15 DEF Calm

LEMMA RouterCalm ==
  ASSUME Types, Calm, NEW c \in Connections, RouterStep(c)
  PROVE  Calm'
  <1>1. UNCHANGED serverVars /\ Router!Handle(c)
    BY DEF RouterStep
  <1>2. ~Router!SetPrimary(c)
    <2> SUFFICES ASSUME Router!SetPrimary(c) PROVE FALSE
      OBVIOUS
    <2>1. question[c] \in SetQuestions /\ question[c][1] = "SET_PRIMARY"
      BY DEF Router!SetPrimary, Router!Asks, Types, Messages, GetQuestion
    <2> QED BY <2>1, Waits
  <1>3. ~Router!AnswerSetPrimary(c)
    BY DEF Router!AnswerSetPrimary, Calm, UnderMutex
  <1> QED
    BY <1>1, <1>2, <1>3, LockCalm, AssignedCalm, ClientAnsweredCalm, ServerAnsweredCalm
    DEF Router!Handle

(* Only a kill ends the calm. *)
LEMMA CalmNext ==
  ASSUME Types, Calm, [Next]_vars, crashes = 0, crashes' = 0
  PROVE  Calm'
  <1>1. CASE UNCHANGED vars
    BY <1>1 DEF vars, serverVars, routerVars, Calm, NoPromotion, Numbered, Asking,
                UnderMutex, AssignedOnce, AnswersNamePrimary, Roles, StartConn, ActsAsPrimary
  <1>2. ASSUME NEW s \in Servers PROVE ~Crash(s)
    BY DEF Crash
  <1> QED
    BY <1>1, <1>2, StartCalm, ServerCalm, ClientCalm, RouterCalm DEF Next

LEMMA Invariant == Spec => []IInv
  <1>1. Init => IInv
    BY TypesInit, CalmInit DEF IInv
  <1>2. IInv /\ [Next]_vars => IInv'
    <2> SUFFICES ASSUME IInv, [Next]_vars, crashes' = 0 PROVE Calm'
      BY TypesNext DEF IInv
    <2>1. crashes = 0
      <3>1. crashes \in Nat
        BY DEF IInv, Types, TypeOK
      <3>2. ASSUME NEW s \in Servers, Crash(s) PROVE crashes' = crashes + 1
        BY <3>2 DEF Crash
      <3>3. CASE UNCHANGED crashes
        BY <3>3
      <3>4. ASSUME NEW s \in Servers, Start(s) \/ Proceed(s) PROVE UNCHANGED crashes
        BY <3>4 DEF Start, Proceed, StartAsPrimary, StartAsBackup, ConnectToPrimary, Promote,
                    Promoted, Listen
      <3>5. ASSUME NEW k \in Clients, AskPrimary(k) PROVE UNCHANGED crashes
        BY <3>5 DEF AskPrimary, serverVars
      <3>6. ASSUME NEW c \in Connections, RouterStep(c) PROVE UNCHANGED crashes
        BY <3>6 DEF RouterStep, serverVars
      <3>7. UNCHANGED vars => UNCHANGED crashes
        BY DEF vars, serverVars
      <3>8. \/ UNCHANGED crashes
            \/ \E s \in Servers : Crash(s)
        BY <3>4, <3>5, <3>6, <3>7 DEF Next
      <3> QED
        BY <3>1, <3>2, <3>3, <3>8
    <2> QED BY <2>1, CalmNext DEF IInv
  <1> QED BY <1>1, <1>2, PTL DEF Spec

(* However the servers race to start, until one of them is killed at most
   one takes itself for the primary. *)
THEOREM OnePrimary == Spec => []OnePrimaryUntilCrash
  <1>1. IInv => OnePrimaryUntilCrash
    BY DEF IInv, Calm, Roles, OnePrimaryUntilCrash
  <1> QED BY <1>1, Invariant, PTL

(* Until a server is killed, every backup watches the server that acts as
   primary: the router's string is never spoilt and never assigned again. *)
THEOREM BackupsAgree == Spec => []BackupsAgreeUntilCrash
  <1>1. IInv => BackupsAgreeUntilCrash
    BY DEF IInv, Calm, Roles, AssignedOnce, BackupsAgreeUntilCrash
  <1> QED BY <1>1, Invariant, PTL
=============================================================================
