---------------------------- MODULE TwitterServer ---------------------------
(***************************************************************************)
(* The primary server as its clients see it: main()'s accept loop, one     *)
(* fromClient thread per connection (server/main.cpp), the profile map     *)
(* (ProfilesManager.cpp) behind the controller's lock, and the sockets     *)
(* (ClientConnection.cpp).  The server has no backups, so sendToBackups    *)
(* loops over an empty list and changes nothing.                           *)
(*                                                                         *)
(* A thread is named after its connection.  A step ends where a thread     *)
(* takes or gives up the controller's lock or a profile's mutex, or where  *)
(* it waits for its client.  The lock itself is ProfileAccessController,   *)
(* used here through the discipline it implements: readers = {} and at     *)
(* most one writer whenever a step of the profile map begins.              *)
(***************************************************************************)
EXTENDS Profile, FiniteSets

CONSTANTS
  ProfileIds,    (* profile names clients use                               *)
  Conns,         (* connections accepted in a behaviour                     *)
  nullptr,       (* no profile, no thread                                   *)
  MAX_SESSIONS,  (* ProfilesManager.h: 2                                    *)
  MaxCommands,   (* bound: commands one client sends after PROFILE          *)
  MaxLosses      (* bound: clients that go away without a CLOSE_CONN        *)

ASSUME ConnsAssumption == IsFiniteSet(Conns) /\ nullptr \notin Conns
ASSUME ProfileIdsAssumption == nullptr \notin ProfileIds
ASSUME nullptrAssumption ==   \* no Profile object is at nullptr
  nullptr \notin [sessions_on : Int, sessions : Seq(Conns),
                  followers : Seq(ProfileIds), inbox : Seq({"SEND", "CLOSE_CONN"} \X Nat)]
ASSUME MAX_SESSIONSAssumption == MAX_SESSIONS \in Nat \ {0}
ASSUME BoundsAssumption == MaxCommands \in Nat /\ MaxLosses \in Nat

VARIABLES
  profiles,   (* the map: each name's Profile object, or nullptr            *)
  stateFile,  (* state.json: each known profile's followers                 *)
  writer,     (* the thread inside the controller's write section           *)
  i,          (* the writer's index in sendToFollowersOf                    *)
  lastTweet,  (* tweets numbered in the order their fan-out began           *)
  pc,         (* where each thread is                                       *)
  who,        (* the profile a connection presented                         *)
  target,     (* the payload of the FOLLOW being processed                  *)
  budget,     (* commands each client may still send                        *)
  sent,       (* packets handed to send() on each connection                *)
  peer,       (* the client's end of each connection                        *)
  alive,      (* the server process has not been killed                     *)
  parked      (* history: <<p, packet>> that once went to p's inbox          *)

mapVars == <<profiles, stateFile, writer, i, lastTweet, parked>>
netVars == <<sent, peer, alive>>
vars == <<mapVars, netVars, pc, who, target, budget>>

Locations == {"unborn", "first", "create", "inc", "hello", "fetch", "receive",
              "follow", "send", "fan", "rejected", "ended"}

(* Packets the server sends: a command and, for a tweet, its number. *)
Tweet(n) == <<"SEND", n>>
HELLO == <<"SEND", 0>>
CLOSE_CONN == <<"CLOSE_CONN", 0>>

Known == {p \in ProfileIds : profiles[p] # nullptr}

(* ProfilesManager::toJsonFile *)
Snapshot(map) ==
  [p \in {q \in ProfileIds : map[q] # nullptr} |-> map[p].followers]

Goto(c, from, to) == pc[c] = from /\ pc' = [pc EXCEPT ![c] = to]

(* ProfileAccessController grants a write section, or a read section that
   is over within the step. *)
LockFree == writer = nullptr

Init ==
  /\ profiles = [p \in ProfileIds |-> nullptr]
  /\ stateFile = nullptr      \* fromJsonFile is not called: its content is unknown
  /\ writer = nullptr
  /\ i = 0
  /\ lastTweet = 0
  /\ pc = [c \in Conns |-> "unborn"]
  /\ who = [c \in Conns |-> nullptr]
  /\ target = [c \in Conns |-> nullptr]
  /\ budget = [c \in Conns |-> MaxCommands]
  /\ sent = [c \in Conns |-> <<>>]
  /\ peer = [c \in Conns |-> "open"]
  /\ alive = TRUE
  /\ parked = {}

-----------------------------------------------------------------------------
(* ClientConnection::sendPacket of some packets on some connections.  The
   result of send() is ignored.  The first packet to a client that has gone
   is lost and answered by a reset; from then on a send may raise SIGPIPE,
   which the server leaves at its default and which kills the process. *)
MayKill(cs, packets) ==
  \E c \in cs : \/ peer[c] = "reset" /\ packets # <<>>
                \/ peer[c] = "gone" /\ Len(packets) > 1

Send(cs, packets) ==
  /\ sent' = [c \in Conns |-> IF c \in cs THEN sent[c] \o packets ELSE sent[c]]
  /\ peer' = [c \in Conns |-> IF c \in cs /\ peer[c] = "gone" /\ packets # <<>>
                              THEN "reset" ELSE peer[c]]
  /\ alive' \in IF MayKill(cs, packets) THEN BOOLEAN ELSE {TRUE}

(* A client closes its socket or dies.  What it had sent can still be read. *)
PeerClose(c) ==
  /\ pc[c] \notin {"unborn", "ended", "rejected"}
  /\ peer[c] = "open"
  /\ Cardinality({d \in Conns : peer[d] # "open"}) < MaxLosses
  /\ peer' = [peer EXCEPT ![c] = "gone"]
  /\ UNCHANGED <<mapVars, sent, alive, pc, who, target, budget>>

-----------------------------------------------------------------------------
(* main: waitClient, then a thread for the connection. *)
Accept(c) ==
  /\ Goto(c, "unborn", "first")
  /\ UNCHANGED <<mapVars, netVars, who, target, budget>>

(* receiveProfileCmd reads PROFILE and asks for the write lock. *)
FirstPacketProfile(c) ==
  /\ Goto(c, "first", "create")
  /\ \E p \in ProfileIds : who' = [who EXCEPT ![c] = p]
  /\ UNCHANGED <<mapVars, netVars, target, budget>>

(* The client was gone before it sent PROFILE: recv returns nothing, the
   zeroed packet has neither command nor sender, getProfileById("") is
   nullptr, and updateSessionsOn locks a mutex inside it. *)
FirstPacketEmpty(c) ==
  /\ pc[c] = "first"
  /\ peer[c] # "open"
  /\ LockFree
  /\ alive' = FALSE
  /\ UNCHANGED <<mapVars, sent, peer, pc, who, target, budget>>

(* createProfileIfNotExists, from requestWrite to the end of its test, in
   the three ways it can turn out. *)
CreateNew(c) ==
  /\ LockFree
  /\ Goto(c, "create", "inc")
  /\ profiles[who[c]] = nullptr
  /\ profiles' = [profiles EXCEPT ![who[c]] = NewProfile]
  /\ stateFile' = Snapshot(profiles')
  /\ writer' = c
  /\ UNCHANGED <<netVars, i, lastTweet, parked, who, target, budget>>

(* Fault: the number of sessions is not tested. *)
CreateFoundUntested(c) ==
  /\ LockFree
  /\ Goto(c, "create", "inc")
  /\ profiles[who[c]] # nullptr
  /\ writer' = c
  /\ UNCHANGED <<netVars, profiles, stateFile, i, lastTweet, parked, who, target, budget>>

CreateFound(c) ==
  /\ LockFree
  /\ Goto(c, "create", "inc")
  /\ profiles[who[c]] # nullptr
  /\ profiles[who[c]].sessions_on # MAX_SESSIONS
  /\ writer' = c
  /\ UNCHANGED <<netVars, profiles, stateFile, i, lastTweet, parked, who, target, budget>>

(* The thread sends CLOSE_CONN, closes the connection and calls
   pthread_exit: releaseWrite is never reached. *)
CreateRefused(c) ==
  /\ LockFree
  /\ Goto(c, "create", "rejected")
  /\ profiles[who[c]] # nullptr
  /\ profiles[who[c]].sessions_on = MAX_SESSIONS
  /\ Send({c}, <<CLOSE_CONN>>)
  /\ writer' = c
  /\ UNCHANGED <<profiles, stateFile, i, lastTweet, parked, who, target, budget>>

(* incSessionsOn under the profile's mutex, then releaseWrite. *)
IncSessions(c) ==
  /\ Goto(c, "inc", "hello")
  /\ profiles' = [profiles EXCEPT ![who[c]] = incSessionsOn(@, c)]
  /\ writer' = nullptr
  /\ UNCHANGED <<netVars, stateFile, i, lastTweet, parked, who, target, budget>>

(* Fault: the thread does not fetch the inbox. *)
SendHelloOnly(c) ==
  /\ Goto(c, "hello", "receive")
  /\ Send({c}, <<HELLO>>)
  /\ UNCHANGED <<mapVars, who, target, budget>>

SendHello(c) ==
  /\ Goto(c, "hello", "fetch")
  /\ Send({c}, <<HELLO>>)
  /\ UNCHANGED <<mapVars, who, target, budget>>

(* fetchInboxContent: every packet goes to every session of the profile,
   all under the profile's mutex. *)
FetchInbox(c) ==
  LET profile == profiles[who[c]] IN
  /\ Goto(c, "fetch", "receive")
  /\ Send(ToSet(profile.sessions), profile.inbox)
  /\ profiles' = [profiles EXCEPT ![who[c]] = emptied(@)]
  /\ UNCHANGED <<stateFile, writer, i, lastTweet, parked, who, target, budget>>

-----------------------------------------------------------------------------
(* fromClient's loop: the next packet is whatever the client sent. *)
ReceiveCommand(c, to) ==
  /\ Goto(c, "receive", to)
  /\ budget[c] > 0
  /\ budget' = [budget EXCEPT ![c] = @ - 1]

ReceiveFollow(c) ==
  /\ ReceiveCommand(c, "follow")
  /\ \E p \in ProfileIds : target' = [target EXCEPT ![c] = p]
  /\ UNCHANGED <<mapVars, netVars, who>>

ReceiveSend(c) ==
  /\ ReceiveCommand(c, "send")
  /\ UNCHANGED <<mapVars, netVars, who, target>>

(* CLOSE_CONN: decSessionsOn, then the loop ends and the socket is closed. *)
ReceiveClose(c) ==
  /\ Goto(c, "receive", "ended")
  /\ profiles' = [profiles EXCEPT ![who[c]] = decSessionsOn(@, c)]
  /\ UNCHANGED <<netVars, stateFile, writer, i, lastTweet, parked, who, target, budget>>

(* Fault: the new follower is not written to state.json. *)
AddFollowerUnsaved(c) ==
  LET followed == target[c] IN
  /\ LockFree
  /\ Goto(c, "follow", "receive")
  /\ followed \in Known /\ ~follows(profiles[followed], who[c])
  /\ target' = [target EXCEPT ![c] = nullptr]
  /\ profiles' = [profiles EXCEPT ![followed] = addFollower(@, who[c])]
  /\ UNCHANGED <<netVars, stateFile, writer, i, lastTweet, parked, who, budget>>

(* addFollowerTo, from requestWrite to releaseWrite. *)
AddFollower(c) ==
  LET followed == target[c]
      new == /\ followed # who[c]
             /\ followed \in Known
             /\ ~follows(profiles[followed], who[c])
  IN
  /\ LockFree
  /\ Goto(c, "follow", "receive")
  /\ target' = [target EXCEPT ![c] = nullptr]
  /\ \/ /\ new
        /\ profiles' = [profiles EXCEPT ![followed] = addFollower(@, who[c])]
        /\ stateFile' = Snapshot(profiles')
     \/ ~new /\ UNCHANGED <<profiles, stateFile>>
  /\ UNCHANGED <<netVars, writer, i, lastTweet, parked, who, budget>>

(* sendToFollowersOf: requestWrite, one follower after the other, each under
   its own mutex, and releaseWrite. *)
StartFanOut(c) ==
  /\ LockFree
  /\ Goto(c, "send", "fan")
  /\ writer' = c
  /\ i' = 1
  /\ lastTweet' = lastTweet + 1
  /\ UNCHANGED <<netVars, profiles, stateFile, parked, who, target, budget>>

Follower(c) == profiles[who[c]].followers[i]

(* Fault: the loop ends before the last follower. *)
MoreFollowersOffByOne(c) == pc[c] = "fan" /\ i < Len(profiles[who[c]].followers)

MoreFollowers(c) == pc[c] = "fan" /\ i <= Len(profiles[who[c]].followers)

SendToFollower(c) ==
  /\ MoreFollowers(c)
  /\ ~keepsPacket(profiles[Follower(c)])
  /\ Send(ToSet(profiles[Follower(c)].sessions), <<Tweet(lastTweet)>>)
  /\ i' = i + 1
  /\ UNCHANGED <<profiles, stateFile, writer, lastTweet, parked, pc, who, target, budget>>

InsertInInbox(c) ==
  /\ MoreFollowers(c)
  /\ keepsPacket(profiles[Follower(c)])
  /\ profiles' = [profiles EXCEPT ![Follower(c)] = insertPacket(@, Tweet(lastTweet))]
  /\ parked' = parked \cup {<<Follower(c), Tweet(lastTweet)>>}
  /\ i' = i + 1
  /\ UNCHANGED <<netVars, stateFile, writer, lastTweet, pc, who, target, budget>>

(* Fault: sendToFollowersOf returns without releaseWrite. *)
EndFanOutUnreleased(c) ==
  /\ ~MoreFollowers(c)
  /\ Goto(c, "fan", "receive")
  /\ i' = 0
  /\ UNCHANGED <<netVars, profiles, stateFile, writer, lastTweet, parked, who, target, budget>>

EndFanOut(c) ==
  /\ ~MoreFollowers(c)
  /\ Goto(c, "fan", "receive")
  /\ writer' = nullptr
  /\ i' = 0
  /\ UNCHANGED <<netVars, profiles, stateFile, lastTweet, parked, who, target, budget>>

-----------------------------------------------------------------------------
(* What a thread does without its client. *)
Create(c) == CreateNew(c) \/ CreateFound(c) \/ CreateRefused(c) \/ IncSessions(c)
Welcome(c) == SendHello(c) \/ FetchInbox(c)
FanOut(c) == StartFanOut(c) \/ SendToFollower(c) \/ InsertInInbox(c) \/ EndFanOut(c)
Run(c) == alive /\ (Create(c) \/ Welcome(c) \/ AddFollower(c) \/ FanOut(c))

(* What it does when a packet, or the loss of the client, reaches it. *)
Receive(c) == alive /\ ( \/ Accept(c) \/ FirstPacketProfile(c) \/ FirstPacketEmpty(c)
                         \/ ReceiveFollow(c) \/ ReceiveSend(c) \/ ReceiveClose(c) )

Next == \E c \in Conns : Run(c) \/ Receive(c) \/ (alive /\ PeerClose(c))

Spec == Init /\ [][Next]_vars

(* A server thread that can take its next step takes it; clients owe nothing. *)
FairSpec == Spec /\ \A c \in Conns : WF_vars(Run(c))
-----------------------------------------------------------------------------
Packets == {HELLO, CLOSE_CONN} \cup {Tweet(n) : n \in 1..lastTweet}

ProfileOK(profile) ==
  /\ profile.sessions_on \in 0..MAX_SESSIONS
  /\ profile.sessions \in Seq(Conns)
  /\ profile.followers \in Seq(ProfileIds)
  /\ profile.inbox \in Seq(Packets)

TypeOK ==
  /\ \A p \in ProfileIds : profiles[p] # nullptr => ProfileOK(profiles[p])
  /\ stateFile # nullptr => DOMAIN stateFile \subseteq ProfileIds
  /\ writer \in Conns \cup {nullptr}
  /\ i \in Nat
  /\ lastTweet \in Nat
  /\ pc \in [Conns -> Locations]
  /\ who \in [Conns -> ProfileIds \cup {nullptr}]
  /\ target \in [Conns -> ProfileIds \cup {nullptr}]
  /\ budget \in [Conns -> 0..MaxCommands]
  /\ sent \in [Conns -> Seq(Packets)]
  /\ peer \in [Conns -> {"open", "gone", "reset"}]
  /\ alive \in BOOLEAN
  /\ parked \subseteq (Known \X Packets)

(* The threads that opened a session for p and have not yet closed it. *)
SessionThreads(p) ==
  {c \in Conns : who[c] = p /\ pc[c] \in {"hello", "fetch", "receive", "follow", "send", "fan"}}

(* sessions_on, the vector it mirrors and the threads that entered
   themselves there agree at every moment, although incSessionsOn runs
   inside the write section and decSessionsOn outside it. *)
SessionsAgree ==
  \A p \in Known :
    /\ profiles[p].sessions_on = Len(profiles[p].sessions)
    /\ ToSet(profiles[p].sessions) = SessionThreads(p)
    /\ Len(profiles[p].sessions) = Cardinality(SessionThreads(p))

(* createProfileIfNotExists tests sessions_on in one step and increments it
   in a later one, with sessions closing in between that take no lock of the
   map: the limit MAX_SESSIONS of a profile is never passed. *)
MaxSessions ==
  \A p \in ProfileIds : Cardinality(SessionThreads(p)) <= MAX_SESSIONS

(* A tweet that waits in an inbox while its owner is online waits for a
   thread that has yet to call fetchInboxContent: it is never left there by
   a login that overlaps the fan-out. *)
InboxHasFetcher ==
  \A p \in Known :
    profiles[p].inbox # <<>> /\ profiles[p].sessions_on > 0 =>
      \E c \in SessionThreads(p) : pc[c] \in {"hello", "fetch"}

(* No connection is sent a tweet twice, and a tweet in an inbox has been
   sent to none of its owner's connections: the two ways to reach a
   follower, directly and through the inbox, exclude each other. *)
SentOnce ==
  \A c \in Conns :
    /\ \A j, k \in DOMAIN sent[c] : j # k => sent[c][j] # sent[c][k]
    /\ who[c] \in Known =>
         ToSet(sent[c]) \cap ToSet(profiles[who[c]].inbox) = {}

(* Every packet that once went to an inbox is still there or was handed to a
   connection of its owner. *)
NothingLost ==
  \A e \in parked :
    \/ Contains(profiles[e[1]].inbox, e[2])
    \/ \E c \in Conns : who[c] = e[1] /\ Contains(sent[c], e[2])

(* On a connection a tweet comes after a younger one only if it went through
   the inbox and the younger one did not: a login between incSessionsOn and
   fetchInboxContent.  Tweets that took the same way keep their order. *)
OnlyInboxOvertaken ==
  \A c \in Conns : \A j, k \in DOMAIN sent[c] :
    LET first == sent[c][j]
        second == sent[c][k]
    IN  j < k /\ first[2] > second[2] /\ second # HELLO /\ second # CLOSE_CONN =>
          <<who[c], second>> \in parked /\ <<who[c], first>> \notin parked

(* Outside the write section, state.json holds the profiles and followers
   of the map. *)
StateFileCurrent ==
  LockFree /\ Known # {} => stateFile = Snapshot(profiles)

(* A command the server has read is carried out, and so is a PROFILE. *)
EveryCommandHandled ==
  \A c \in Conns :
    pc[c] \in {"create", "follow", "send", "fan"} ~>
      pc[c] \in {"receive", "rejected", "hello"} \/ ~alive

(* A profile that comes online empties its inbox: a packet parked between
   two sessions reaches the second one. *)
HasMail(p) ==
  IF p \in Known THEN profiles[p].inbox # <<>> /\ profiles[p].sessions_on > 0 ELSE FALSE

EmptyInbox(p) == IF p \in Known THEN profiles[p].inbox = <<>> ELSE TRUE

InboxDrained == \A p \in ProfileIds : HasMail(p) ~> EmptyInbox(p) \/ ~alive

(* What the server amounts to for those who follow: Delivery.  The fan-out is
   many steps, sessions open and close during it, and what it left in an inbox
   is fetched later by any of them; yet each follower is reached by each tweet
   once, on all the sessions of one moment. *)
Online == {c \in Conns : pc[c] \in {"hello", "fetch", "receive", "follow", "send", "fan"}}
Author == IF writer # nullptr /\ pc[writer] = "fan" THEN who[writer] ELSE nullptr
FollowersOf(p) == IF p \in Known THEN ToSet(profiles[p].followers) ELSE {}
Numbers(packets) == {packets[j][2] : j \in DOMAIN packets} \ {0}
Mailbox(p) == IF p \in Known THEN Numbers(profiles[p].inbox) ELSE {}

D == INSTANCE Delivery WITH
       Profiles <- ProfileIds, none <- nullptr, MaxSessions <- MAX_SESSIONS,
       owner <- who, online <- Online, author <- Author, last <- lastTweet,
       followers <- [p \in ProfileIds |-> FollowersOf(p)],
       mailbox <- [p \in ProfileIds |-> Mailbox(p)],
       received <- [c \in Conns |-> Numbers(sent[c])]

EachFollowerOnce == D!Spec
=============================================================================
