----------------------------- MODULE Replication ----------------------------
(***************************************************************************)
(* A primary server, its backups and the clients that move to a backup     *)
(* when the primary is killed (server/main.cpp).  A thread of the primary  *)
(* carries a command out under the lock of the profile map and forwards it *)
(* to the backups afterwards, without a lock; a backup applies what it is  *)
(* sent with the same processPacket, a null connection and the profile     *)
(* that the packet names as its sender.                                    *)
(*                                                                         *)
(* TwitterServer has the steps inside one command.  Here a command is one  *)
(* step, and so is handing it to one backup: what matters is the order in  *)
(* which the commands of several threads reach each copy of the map.       *)
(***************************************************************************)
EXTENDS Profile, FiniteSets

CONSTANTS
  ProfileIds,
  Clients,       (* client programs; a thread is named after its client     *)
  profileOf,     (* the profile each client is started with                 *)
  Backups,       (* servers started while the primary runs                  *)
  primary,       (* the first primary                                       *)
  nullptr,       (* no profile, no connection, no server, no packet         *)
  MAX_SESSIONS,  (* ProfilesManager.h: 2                                    *)
  types,         (* bound: the commands each client's user types            *)
  MaxInputs      (* bound: packets each client sends, OK left out           *)

Servers == Backups \cup {primary}
Threads == Clients \cup Backups   \* a backup has a thread on the primary, too

ASSUME ThreadsAssumption ==
  /\ IsFiniteSet(Threads)
  /\ Clients \cap Backups = {}
  /\ primary \notin Threads
  /\ nullptr \notin Threads \cup ProfileIds \cup {primary}
ASSUME nullptrAssumption ==   \* neither a Profile object nor a Packet is at nullptr
  nullptr \notin
    [sessions_on : Int, sessions : Seq(Clients \cup {nullptr}),
     followers : Seq(ProfileIds), inbox : Seq(Clients \X Nat)]
    \cup [cmd : {"PROFILE", "FOLLOW", "SEND", "CLOSE_CONN", "BACKUP_PROPAGATION"},
          payload : ProfileIds \cup (Clients \X Nat) \cup Seq(Backups) \cup {nullptr},
          sender : ProfileIds \cup {nullptr}, client : Clients \cup {nullptr}]
ASSUME profileOfAssumption == profileOf \in [Clients -> ProfileIds]
ASSUME typesAssumption == types \in [Clients -> SUBSET {"FOLLOW", "SEND", "CLOSE_CONN"}]
ASSUME BoundsAssumption == MAX_SESSIONS \in Nat \ {0} /\ MaxInputs \in [Clients -> Nat]

VARIABLES
  up,                  (* what each server is doing                         *)
  profiles,            (* each server's map: name to Profile or nullptr     *)
  leaked,              (* servers whose write lock is never released        *)
  listBackups,         (* each server's vector of backups                   *)
  electionServerList,  (* each server's list of server addresses            *)
  queue,               (* packets on their way to a backup                  *)
  link,                (* the backup's end of its connection to the primary *)
  pc,                  (* where each thread is                              *)
  at,                  (* the server a client is connected to               *)
  packet, i,           (* sendToBackups: what a thread forwards, its index  *)
  inputs,              (* packets each client has sent                      *)
  early,               (* history: backups that joined an empty map         *)
  counted,             (* history: clients whose login each server counted  *)
  raced                (* history: what overlapping commands have touched   *)

mapVars == <<profiles, leaked, counted>>
listVars == <<listBackups, electionServerList, early>>
netVars == <<queue, link>>
threadVars == <<pc, at, packet, i>>
vars == <<up, mapVars, listVars, netVars, threadVars, inputs, raced>>

Locations == {"out", "joining", "idle", "forward", "fetch", "closing", "ended"}

(* commons/Packet.h, with the client it comes from; BACKUP_PROPAGATION and a
   PROFILE name no sender. *)
Packet(cmd, payload, sender, client) ==
  [cmd |-> cmd, payload |-> payload, sender |-> sender, client |-> client]

KnownAt(s) == {p \in ProfileIds : profiles[s][p] # nullptr}

EmptyMap == [p \in ProfileIds |-> nullptr]

Init ==
  /\ up = [s \in Servers |-> IF s = primary THEN "serving" ELSE "off"]
  /\ profiles = [s \in Servers |-> EmptyMap]
  /\ leaked = {}
  /\ listBackups = [s \in Servers |-> <<>>]
  /\ electionServerList = [s \in Servers |-> <<>>]
  /\ queue = [b \in Backups |-> <<>>]
  /\ link = [b \in Backups |-> "open"]
  /\ pc = [t \in Threads |-> "out"]
  /\ at = [k \in Clients |-> primary]
  /\ packet = [t \in Threads |-> nullptr]
  /\ i = [t \in Threads |-> 1]
  /\ inputs = [k \in Clients |-> 0]
  /\ early = {}
  /\ counted = [s \in Servers |-> {}]
  /\ raced = {}

-----------------------------------------------------------------------------
(* What a command makes of a profile map. *)

(* Fault: the login of a null connection is not counted. *)
createProfileUncounted(map, p, conn) ==
  [map EXCEPT ![p] = IF conn = nullptr
                     THEN updateSessionsOn(IF @ = nullptr THEN NewProfile ELSE @, conn)
                     ELSE incSessionsOn(IF @ = nullptr THEN NewProfile ELSE @, conn)]

createProfileIfNotExists(map, p, conn) ==
  [map EXCEPT ![p] = incSessionsOn(IF @ = nullptr THEN NewProfile ELSE @, conn)]

(* Its other outcome: CLOSE_CONN to conn, and pthread_exit with the lock held. *)
refuses(map, p) == map[p] # nullptr /\ map[p].sessions_on = MAX_SESSIONS

addFollowerTo(map, followed, follower) ==
  IF followed # follower /\ map[followed] # nullptr /\ ~follows(map[followed], follower)
  THEN [map EXCEPT ![followed] = addFollower(@, follower)]
  ELSE map

sendToFollowersOf(map, author, tweet) ==
  [p \in ProfileIds |->
     IF follows(map[author], p) /\ keepsPacket(map[p]) THEN insertPacket(map[p], tweet)
     ELSE map[p]]

processPacket(map, conn, pkt) ==
  CASE pkt.cmd = "PROFILE"    -> createProfileIfNotExists(map, pkt.payload, conn)
    [] pkt.cmd = "FOLLOW"     -> addFollowerTo(map, pkt.payload, pkt.sender)
    [] pkt.cmd = "SEND"       -> sendToFollowersOf(map, pkt.sender, pkt.payload)
    [] pkt.cmd = "CLOSE_CONN" -> [map EXCEPT ![pkt.sender] = decSessionsOn(@, conn)]
    [] OTHER                  -> map

(* The clients whose logins a server has counted, after a packet (history). *)
countedAfter(clients, pkt) ==
  IF pkt.cmd = "PROFILE" THEN clients \cup {pkt.client} ELSE clients

(* The profiles whose objects a command reads or changes; nullptr stands for
   the list of addresses. *)
Touches(pkt) ==
  CASE pkt.cmd = "PROFILE"            -> {pkt.payload}
    [] pkt.cmd = "FOLLOW"             -> {pkt.payload, pkt.sender}
    [] pkt.cmd = "CLOSE_CONN"         -> {profileOf[pkt.client]}
    [] pkt.cmd = "SEND"               ->
         {pkt.sender} \cup ToSet(profiles[primary][pkt.sender].followers)
    [] pkt.cmd = "BACKUP_PROPAGATION" -> {nullptr}

(* Commands that have been carried out and not yet been forwarded. *)
Overlapping(pkt) ==
  {t \in Threads : packet[t] # nullptr /\ Touches(packet[t]) \cap Touches(pkt) # {}}

-----------------------------------------------------------------------------
ServerOf(t) == IF t \in Clients THEN at[t] ELSE primary

(* Fault: PROFILE is not forwarded. *)
StartForwardNoProfile(t, pkt) ==
  LET kept == IF pkt.cmd = "PROFILE" THEN [pkt EXCEPT !.cmd = "ALIVE"] ELSE pkt IN
  /\ pc' = [pc EXCEPT ![t] = IF pkt.cmd = "CLOSE_CONN" THEN "closing" ELSE "forward"]
  /\ packet' = [packet EXCEPT ![t] = kept]
  /\ i' = [i EXCEPT ![t] = 1]
  /\ UNCHANGED raced

(* sendToBackups: the thread t has pkt to forward and starts at the front. *)
StartForward(t, pkt) ==
  /\ pc' = [pc EXCEPT ![t] = IF pkt.cmd = "CLOSE_CONN" THEN "closing" ELSE "forward"]
  /\ packet' = [packet EXCEPT ![t] = pkt]
  /\ i' = [i EXCEPT ![t] = 1]
  /\ raced' = IF ServerOf(t) = primary
              THEN raced \cup UNION {Touches(packet[o]) \cup Touches(pkt) : o \in Overlapping(pkt)}
              ELSE raced

Forwarding(t) == pc[t] \in {"forward", "closing"} /\ up[ServerOf(t)] = "serving"

(* A thread is inside a push_back on the vectors of the primary: another one
   that walks or grows them may read memory that was freed. *)
Joining == {b \in Backups : pc[b] = "joining"}

(* The process s ends: its memory and its threads are gone, and its clients
   are left with a connection that is. *)
Death(s) ==
  /\ up' = [up EXCEPT ![s] = "dead"]
  /\ profiles' = [profiles EXCEPT ![s] = EmptyMap]
  /\ leaked' = leaked \ {s}
  /\ counted' = [counted EXCEPT ![s] = {}]
  /\ listBackups' = [listBackups EXCEPT ![s] = <<>>]
  /\ electionServerList' = [electionServerList EXCEPT ![s] = <<>>]
  /\ early' = early \ {s}
  /\ packet' = [t \in Threads |-> IF ServerOf(t) = s THEN nullptr ELSE packet[t]]
  /\ i' = [t \in Threads |-> IF ServerOf(t) = s THEN 1 ELSE i[t]]
  /\ pc' = [t \in Threads |->
               IF ServerOf(t) # s \/ pc[t] = "out" THEN pc[t]
               ELSE IF t \in Backups \/ pc[t] \in {"closing", "ended"} THEN "ended"
               ELSE "idle"]
  /\ UNCHANGED <<at, inputs, raced>>

NextBackup(t) == listBackups[ServerOf(t)][i[t]]

MoreBackups(t) == Forwarding(t) /\ i[t] <= Len(listBackups[ServerOf(t)])

(* The next backup is handed the packet; to one that has died it is lost and
   answered by a reset. *)
Forward(t) ==
  LET b == NextBackup(t) IN
  /\ MoreBackups(t)
  /\ i' = [i EXCEPT ![t] = @ + 1]
  /\ \/ up[b] # "dead" /\ queue' = [queue EXCEPT ![b] = Append(@, packet[t])] /\ UNCHANGED link
     \/ up[b] = "dead" /\ link' = [link EXCEPT ![b] = "reset"] /\ UNCHANGED queue
  /\ UNCHANGED <<up, mapVars, listVars, pc, at, packet, inputs, raced>>

(* The vector is read while it grows, or send raises SIGPIPE after a reset:
   either may kill the server. *)
ForwardDies(t) ==
  /\ MoreBackups(t)
  /\ (ServerOf(t) = primary /\ Joining # {}) \/ link[NextBackup(t)] = "reset"
  /\ Death(ServerOf(t))
  /\ UNCHANGED netVars

(* The walk is over.  A client's thread says hello and fetches the inbox after
   PROFILE, waits after other commands, and ends after CLOSE_CONN. *)
EndForward(t) ==
  /\ Forwarding(t) /\ ~MoreBackups(t)
  /\ i' = [i EXCEPT ![t] = 1]
  /\ packet' = [packet EXCEPT ![t] = nullptr]
  /\ pc' = [pc EXCEPT ![t] =
              CASE t \in Backups \/ pc[t] = "closing" -> "ended"
                [] packet[t].cmd = "PROFILE"           -> "fetch"
                [] OTHER                               -> "idle"]
  /\ UNCHANGED <<up, mapVars, listVars, netVars, at, inputs, raced>>

-----------------------------------------------------------------------------
Input(k) == inputs[k] < MaxInputs[k] /\ inputs' = [inputs EXCEPT ![k] = @ + 1]

(* A thread carries out what its client sent, and has to forward it. *)
CarryOut(k, pkt) ==
  LET s == at[k] IN
  /\ up[s] = "serving"
  /\ Input(k)
  /\ profiles' = [profiles EXCEPT ![s] = processPacket(@, k, pkt)]
  /\ counted' = [counted EXCEPT ![s] = countedAfter(@, pkt)]
  /\ StartForward(k, pkt)
  /\ UNCHANGED <<up, leaked, listVars, netVars, at>>

(* PROFILE, the first packet of a connection. *)
Login(k) ==
  /\ pc[k] = "out"
  /\ at[k] \notin leaked
  /\ ~refuses(profiles[at[k]], profileOf[k])
  /\ CarryOut(k, Packet("PROFILE", profileOf[k], nullptr, k))

LoginRefused(k) ==
  /\ pc[k] = "out"
  /\ at[k] \notin leaked
  /\ up[at[k]] = "serving"
  /\ refuses(profiles[at[k]], profileOf[k])
  /\ Input(k)
  /\ leaked' = leaked \cup {at[k]}
  /\ pc' = [pc EXCEPT ![k] = "ended"]
  /\ UNCHANGED <<up, profiles, counted, listVars, netVars, at, packet, i, raced>>

(* FOLLOW and SEND take the lock of the map. *)
Command(k, pkt) ==
  /\ pc[k] = "idle" /\ pkt.cmd \in types[k]
  /\ at[k] \notin leaked
  /\ CarryOut(k, pkt)

Follow(k, p) == Command(k, Packet("FOLLOW", p, profileOf[k], k))
Tweet(k) == Command(k, Packet("SEND", <<k, inputs[k] + 1>>, profileOf[k], k))

(* CLOSE_CONN takes only the mutex of the profile.  Typing Ctrl-C sends it
   with the sender's name, the end of the input without. *)
Close(k) ==
  LET s == at[k]
      named == Packet("CLOSE_CONN", nullptr, profileOf[k], k)
  IN
  /\ pc[k] = "idle" /\ "CLOSE_CONN" \in types[k]
  /\ up[s] = "serving"
  /\ Input(k)
  /\ profiles' = [profiles EXCEPT ![s] = processPacket(@, k, named)]
  /\ StartForward(k, named) \/ StartForward(k, [named EXCEPT !.sender = nullptr])
  /\ UNCHANGED <<up, leaked, counted, listVars, netVars, at>>

(* fetchInboxContent sends on every session: a session that is null, as those
   a backup keeps are, is dereferenced if there is anything to send. *)
SendsToNull(profile) == profile.inbox # <<>> /\ Contains(profile.sessions, nullptr)

Fetch(k) ==
  LET s == at[k] IN
  /\ pc[k] = "fetch" /\ up[s] = "serving"
  /\ ~SendsToNull(profiles[s][profileOf[k]])
  /\ profiles' = [profiles EXCEPT ![s][profileOf[k]] = emptied(@)]
  /\ pc' = [pc EXCEPT ![k] = "idle"]
  /\ UNCHANGED <<up, leaked, counted, listVars, netVars, at, packet, i, inputs, raced>>

FetchDies(k) ==
  LET s == at[k] IN
  /\ pc[k] = "fetch" /\ up[s] = "serving"
  /\ SendsToNull(profiles[s][profileOf[k]])
  /\ Death(s)
  /\ UNCHANGED netVars

-----------------------------------------------------------------------------
(* A backup connects and sends SET_BACKUP; its thread on the primary enters
   push_back. *)
SetBackup(b) ==
  /\ up[b] = "off" /\ up[primary] = "serving"
  /\ up' = [up EXCEPT ![b] = "backup"]
  /\ pc' = [pc EXCEPT ![b] = "joining"]
  /\ UNCHANGED <<mapVars, listVars, netVars, at, packet, i, inputs, raced>>

(* Both vectors have grown, and the list of addresses goes to every backup.
   Of two push_backs that overlapped one may be lost, or the server dies. *)
Alone(b) == Joining = {b}

(* Fault: the list is written out before the address has joined it. *)
serverListBefore == electionServerList[primary]

serverListToString == electionServerList'[primary]

Join(b) ==
  /\ pc[b] = "joining" /\ up[primary] = "serving"
  /\ \/ /\ listBackups' = [listBackups EXCEPT ![primary] = Append(@, b)]
        /\ early' = IF KnownAt(primary) = {} THEN early \cup {b} ELSE early
     \/ ~Alone(b) /\ UNCHANGED <<listBackups, early>>
  /\ \/ electionServerList' = [electionServerList EXCEPT ![primary] = Append(@, b)]
     \/ ~Alone(b) /\ UNCHANGED electionServerList
  /\ StartForward(b, Packet("BACKUP_PROPAGATION", serverListToString, nullptr, nullptr))
  /\ UNCHANGED <<up, mapVars, netVars, at, inputs>>

JoinDies(b) ==
  /\ pc[b] = "joining" /\ up[primary] = "serving"
  /\ ~Alone(b)
  /\ Death(primary)
  /\ UNCHANGED netVars

(* receiveAlive: the sender's profile is looked up and used unseen, and so is
   the null connection when a login would be refused. *)
Dereferences(map, pkt) ==
  \/ /\ pkt.cmd \in {"FOLLOW", "SEND", "CLOSE_CONN"}
     /\ IF pkt.sender = nullptr THEN TRUE ELSE map[pkt.sender] = nullptr
  \/ pkt.cmd = "PROFILE" /\ refuses(map, pkt.payload)

(* Fault: nothing more is read once the primary has gone. *)
ReceivesWhilePrimaryLives(b) ==
  up[b] = "backup" /\ queue[b] # <<>> /\ up[primary] = "serving"

Receives(b) == up[b] = "backup" /\ queue[b] # <<>>

Apply(b) ==
  LET pkt == Head(queue[b]) IN
  /\ Receives(b)
  /\ ~Dereferences(profiles[b], pkt)
  /\ queue' = [queue EXCEPT ![b] = Tail(@)]
  /\ profiles' = [profiles EXCEPT ![b] = processPacket(@, nullptr, pkt)]
  /\ counted' = [counted EXCEPT ![b] = countedAfter(@, pkt)]
  /\ electionServerList' = IF pkt.cmd = "BACKUP_PROPAGATION"
                           THEN [electionServerList EXCEPT ![b] = pkt.payload]
                           ELSE electionServerList
  /\ UNCHANGED <<up, leaked, listBackups, early, link, threadVars, inputs, raced>>

ApplyDies(b) ==
  /\ Receives(b)
  /\ Dereferences(profiles[b], Head(queue[b]))
  /\ Death(b)
  /\ queue' = [queue EXCEPT ![b] = <<>>]
  /\ link' = [link EXCEPT ![b] = "gone"]

-----------------------------------------------------------------------------
(* The primary is killed. *)
Kill ==
  /\ up[primary] = "serving"
  /\ Death(primary)
  /\ UNCHANGED netVars

(* recv returns 0 once everything the primary sent has been read: the backup
   makes itself primary and accepts clients.  It has no backups. *)
Promote(b) ==
  /\ up[b] = "backup" /\ up[primary] = "dead" /\ queue[b] = <<>>
  /\ up' = [up EXCEPT ![b] = "serving"]
  /\ UNCHANGED <<mapVars, listVars, netVars, threadVars, inputs, raced>>

(* updateConn of a client whose server is gone: it connects to a server that
   was promoted and presents itself with OK.  receiveProfileCmd treats any
   first packet but PROFILE and SET_BACKUP alike, so a command that overtakes
   OK has the same effect and is not carried out.  A client whose PROFILE was
   lost with the primary is left out. *)
Returns(k, s) ==
  /\ pc[k] \notin {"out", "closing", "ended"}
  /\ up[at[k]] = "dead"
  /\ up[s] = "serving" /\ s \notin leaked

Reconnect(k, s) ==
  /\ Returns(k, s)
  /\ profileOf[k] \in KnownAt(s)
  /\ at' = [at EXCEPT ![k] = s]
  /\ profiles' = [profiles EXCEPT ![s][profileOf[k]] = updateSessionsOn(@, k)]
  /\ pc' = [pc EXCEPT ![k] = "fetch"]
  /\ UNCHANGED <<up, leaked, counted, listVars, netVars, packet, i, inputs, raced>>

(* The profile never reached this server: its null pointer is dereferenced. *)
ReconnectDies(k, s) ==
  /\ Returns(k, s)
  /\ profileOf[k] \notin KnownAt(s)
  /\ Death(s)
  /\ UNCHANGED netVars

(* A client that starts, or starts again, once the primary is gone. *)
StartClient(k, s) ==
  /\ pc[k] = "out"
  /\ up[at[k]] = "dead" /\ up[s] = "serving"
  /\ at' = [at EXCEPT ![k] = s]
  /\ UNCHANGED <<up, mapVars, listVars, netVars, pc, packet, i, inputs, raced>>

-----------------------------------------------------------------------------
(* What a server or a thread does by itself. *)
Proceed(t) == Forward(t) \/ ForwardDies(t) \/ EndForward(t)
Welcome(k) == Fetch(k) \/ FetchDies(k)
Backup(b) == Join(b) \/ JoinDies(b) \/ Apply(b) \/ ApplyDies(b) \/ Promote(b)

ClientStep(k) ==
  \/ Login(k)
  \/ LoginRefused(k)
  \/ \E p \in ProfileIds \ {profileOf[k]} : Follow(k, p)
  \/ Tweet(k)
  \/ Close(k)
  \/ \E s \in Servers : Reconnect(k, s) \/ ReconnectDies(k, s) \/ StartClient(k, s)

Next ==
  \/ \E t \in Threads : Proceed(t)
  \/ \E b \in Backups : SetBackup(b) \/ Backup(b)
  \/ \E k \in Clients : Welcome(k) \/ ClientStep(k)
  \/ Kill

Spec == Init /\ [][Next]_vars

(* Threads and backups go on; nobody has to type, to start or to be killed. *)
FairSpec ==
  /\ Spec
  /\ \A t \in Threads : WF_vars(Proceed(t))
  /\ \A k \in Clients : WF_vars(Welcome(k))
  /\ \A b \in Backups : WF_vars(Backup(b))
-----------------------------------------------------------------------------
Commands == {"PROFILE", "FOLLOW", "SEND", "CLOSE_CONN", "BACKUP_PROPAGATION"}

ProfileOK(profile) ==
  /\ profile.sessions_on \in Int
  /\ profile.sessions \in Seq(Clients \cup {nullptr})
  /\ profile.followers \in Seq(ProfileIds)
  /\ profile.inbox \in Seq(Clients \X Nat)

TypeOK ==
  /\ up \in [Servers -> {"off", "backup", "serving", "dead"}]
  /\ \A s \in Servers : \A p \in KnownAt(s) : ProfileOK(profiles[s][p])
  /\ leaked \subseteq Servers
  /\ listBackups \in [Servers -> Seq(Backups)]
  /\ electionServerList \in [Servers -> Seq(Backups)]
  /\ \A b \in Backups : \A j \in DOMAIN queue[b] : queue[b][j].cmd \in Commands
  /\ link \in [Backups -> {"open", "gone", "reset"}]
  /\ pc \in [Threads -> Locations]
  /\ at \in [Clients -> Servers]
  /\ \A t \in Threads : packet[t] # nullptr => packet[t].cmd \in Commands
  /\ i \in [Threads -> Nat \ {0}]
  /\ inputs \in [Clients -> Nat]
  /\ early \subseteq Backups
  /\ counted \in [Servers -> SUBSET Clients]
  /\ raced \subseteq ProfileIds \cup {nullptr}

(* Every command the primary carried out has reached the backup b and has
   been applied there. *)
CaughtUp(b) ==
  /\ up[primary] = "serving" /\ up[b] = "backup" /\ b \in early
  /\ \A t \in Threads : packet[t] = nullptr
  /\ queue[b] = <<>>

(* The backup's copy of a profile: the same followers in the same order, and
   the packets of the inbox in the same order, after others that the primary
   has delivered since (fetchInboxContent is not replicated). *)
SameProfile(copy, original) ==
  /\ copy.followers = original.followers
  /\ IsSuffix(original.inbox, copy.inbox)

(* Forwarding outside the lock is the only thing that makes a backup differ.
   A backup that joined before the first login and has caught up knows the
   same profiles with as many sessions; and apart from profiles touched by two
   commands of which the second was carried out before the first had been
   forwarded, it has their followers and their unread packets. *)
OnlyRacesDiffer ==
  \A b \in Backups : CaughtUp(b) =>
    /\ KnownAt(b) = KnownAt(primary)
    /\ \A p \in KnownAt(primary) :
         LET copy == profiles[b][p]
             original == profiles[primary][p]
         IN  /\ copy.sessions_on = original.sessions_on
             /\ p \notin raced => SameProfile(copy, original)

(* The list of addresses is built when a backup registers and sent to every
   backup after that, without a lock.  Unless two registrations overlapped, a
   backup that has read what it was sent has the list of the primary. *)
ListsAgree ==
  /\ up[primary] = "serving" /\ nullptr \notin raced
  /\ \A t \in Threads : packet[t] = nullptr
  => \A b \in ToSet(listBackups[primary]) :
       up[b] = "backup" /\ queue[b] = <<>> => electionServerList[b] = electionServerList[primary]

(* receiveAlive looks up the sender of a packet and uses the result unseen.
   For a backup that joined before the first login this is right: a thread
   forwards PROFILE before anything else of its client.  Such a backup dies
   only from a CLOSE_CONN that names nobody (end of the client's input), or
   from a login that overtook the CLOSE_CONN which made room for it. *)
EarlyBackupSurvives ==
  [][\A b \in early : ApplyDies(b) =>
       LET pkt == Head(queue[b]) IN
       \/ pkt.cmd = "CLOSE_CONN" /\ pkt.sender = nullptr
       \/ pkt.cmd = "PROFILE" /\ pkt.payload \in raced]_vars

(* The connections a profile's clients have to the server s. *)
Online(s, p) == {k \in Clients : at[k] = s /\ profileOf[k] = p /\ pc[k] \in {"forward", "fetch", "idle"}}

(* updateSessionsOn does not count the session it adds.  That is right if the
   server had counted the client's login as a backup.  On a server that has
   seen every login from the start and has counted all clients of a profile
   that reconnect, sessions_on covers those that are online: their tweets are
   sent to them and not kept. *)
OnlineIsCounted ==
  \A s \in early \cup {primary} : up[s] = "serving" =>
    \A p \in KnownAt(s) :
      {k \in Clients : at[k] = s /\ profileOf[k] = p /\ pc[k] # "out"} \subseteq counted[s] =>
        profiles[s][p].sessions_on >= Cardinality(Online(s, p))

(* What the primary has carried out and forwarded is applied: no backup that
   lives keeps a packet for ever. *)
BackupsCatchUp == \A b \in Backups : <>[](queue[b] = <<>>)

(* receiveAlive notices the end of the primary only by reading: a backup that
   outlives the primary reads what is left, and then serves clients itself,
   unless a packet of the rest kills it. *)
BackupTakesOver ==
  \A b \in Backups : up[primary] = "dead" /\ up[b] = "backup" ~> up[b] \in {"serving", "dead"}

(* client/main.cpp:74 sends OK "to new Primary server (to update the
   session/conection)".  A backup keeps a null session for each client; if OK
   updates it, a server whose clients have come back can greet a client, that
   is walk its profile's sessions (Profile.cpp:89), and live on. *)
SessionUpdated == [][\A k \in Clients : Welcome(k) => up' = up]_vars
=============================================================================
