-------------------------- MODULE Replication_proofs --------------------------
(***************************************************************************)
(* Proofs about Replication, for any finite set of clients and backups,    *)
(* any profiles, any limit on sessions and any number of packets: types,   *)
(* the agreement of the lists of addresses, and the session counts of the  *)
(* servers that have seen every login.                                     *)
(***************************************************************************)
EXTENDS Replication, SequenceLemmas, FiniteSetTheorems

Objects == [sessions_on : Int, sessions : Seq(Clients \cup {nullptr}),
            followers : Seq(ProfileIds), inbox : Seq(Clients \X Nat)]
Maps == [ProfileIds -> Objects \cup {nullptr}]

Payloads == ProfileIds \cup (Clients \X Nat) \cup Seq(Backups) \cup {nullptr}
Packets == [cmd : Commands, payload : Payloads,
            sender : ProfileIds \cup {nullptr}, client : Clients \cup {nullptr}]

(* The packets of a client, and those of a registration. *)
FromClient(pkt, k) ==
  /\ pkt.client = k
  /\ \/ pkt.cmd = "PROFILE" /\ pkt.payload = profileOf[k] /\ pkt.sender = nullptr
     \/ pkt.cmd = "FOLLOW" /\ pkt.payload \in ProfileIds /\ pkt.sender = profileOf[k]
     \/ pkt.cmd = "SEND" /\ pkt.payload \in Clients \X Nat /\ pkt.sender = profileOf[k]
     \/ pkt.cmd = "CLOSE_CONN" /\ pkt.sender \in {profileOf[k], nullptr}

IsList(pkt) == pkt.cmd = "BACKUP_PROPAGATION" /\ pkt.payload \in Seq(Backups)

WellFormed(pkt) == IsList(pkt) \/ \E k \in Clients : FromClient(pkt, k)

Kinds ==
  /\ up \in [Servers -> {"off", "backup", "serving", "dead"}]
  /\ profiles \in [Servers -> Maps]
  /\ leaked \subseteq Servers
  /\ listBackups \in [Servers -> Seq(Backups)]
  /\ electionServerList \in [Servers -> Seq(Backups)]
  /\ queue \in [Backups -> Seq(Packets)]
  /\ link \in [Backups -> {"open", "gone", "reset"}]
  /\ pc \in [Threads -> Locations]
  /\ at \in [Clients -> Servers]
  /\ packet \in [Threads -> Packets \cup {nullptr}]
  /\ i \in [Threads -> Nat \ {0}]
  /\ inputs \in [Clients -> Nat]
  /\ early \subseteq Backups
  /\ counted \in [Servers -> SUBSET Clients]
  /\ raced \subseteq ProfileIds \cup {nullptr}

(* What is sent to a backup, and what a thread has to forward: it has a packet
   exactly while it is inside sendToBackups. *)
PacketsOK ==
  /\ \A b \in Backups : \A j \in DOMAIN queue[b] : WellFormed(queue[b][j])
  /\ \A t \in Threads : packet[t] # nullptr <=> pc[t] \in {"forward", "closing"}
  /\ \A k \in Clients : packet[k] # nullptr =>
       FromClient(packet[k], k) /\ (packet[k].cmd = "CLOSE_CONN" <=> pc[k] = "closing")
  /\ \A b \in Backups : packet[b] # nullptr => IsList(packet[b])
  /\ \A k \in Clients : pc[k] # "joining"
  /\ \A b \in Backups : pc[b] \in {"out", "joining", "forward", "ended"}

(* Clients are connected to the primary until it is gone, and then to servers
   that were promoted; only a server that serves has something to forward. *)
Places ==
  /\ \A k \in Clients : up[at[k]] \in {"serving", "dead"}
  /\ up[primary] \in {"serving", "dead"}
  /\ up[primary] = "serving" =>
       (\A b \in Backups : up[b] # "serving") /\ \A k \in Clients : at[k] = primary
  /\ \A k \in Clients : packet[k] # nullptr => up[at[k]] = "serving"
  /\ \A b \in Backups : packet[b] # nullptr => up[primary] = "serving"
  /\ \A b \in Backups : pc[b] # "out" => up[b] # "off"

(* Who is logged in has a profile in the map, and so have followers. *)
LoggedIn ==
  \A k \in Clients :
    pc[k] \in {"forward", "fetch", "idle", "closing"} /\ up[at[k]] = "serving"
      => profileOf[k] \in KnownAt(at[k])

FollowersKnown ==
  \A s \in Servers : \A p \in KnownAt(s) : ToSet(profiles[s][p].followers) \subseteq KnownAt(s)

Types == Kinds /\ PacketsOK /\ Places /\ LoggedIn /\ FollowersKnown

-----------------------------------------------------------------------------
(* The address lists.                                                       *)

(* The list that a backup with the list own and the packets q before it will
   have once it has read them is l. *)
LastList(q, own, l) ==
  \/ (\A j \in DOMAIN q : q[j].cmd # "BACKUP_PROPAGATION") /\ own = l
  \/ \E j \in DOMAIN q :
       /\ q[j].cmd = "BACKUP_PROPAGATION" /\ q[j].payload = l
       /\ \A m \in DOMAIN q : m > j => q[m].cmd # "BACKUP_PROPAGATION"

WillAgree(b) == LastList(queue[b], electionServerList[b], electionServerList[primary])

(* Whoever is in the list of backups has a thread. *)
Registered ==
  \A x \in DOMAIN listBackups[primary] : pc[listBackups[primary][x]] # "out"

(* As long as no two registrations have overlapped: there is at most one list
   on its way to the backups, it is the primary's, and the backups that it has
   been sent to will have it. *)
ListsOK ==
  up[primary] = "serving" /\ nullptr \notin raced =>
    /\ \A b, c \in Backups : packet[b] # nullptr /\ packet[c] # nullptr => b = c
    /\ \A b \in Backups : packet[b] # nullptr => packet[b].payload = electionServerList[primary]
    /\ \A x \in DOMAIN listBackups[primary] :
         up[listBackups[primary][x]] = "backup" =>
           \/ WillAgree(listBackups[primary][x])
           \/ \E b \in Backups : packet[b] # nullptr /\ i[b] <= x

IInv == Types /\ Registered /\ ListsOK

-----------------------------------------------------------------------------
(* What the methods of Profile make of an object.                           *)

ConnsOrNull == Clients \cup {nullptr}

LEMMA ObjectIsNotNull == \A o \in Objects : o # nullptr
  BY nullptrAssumption DEF Objects

LEMMA PacketIsNotNull == \A pkt \in Packets : pkt # nullptr
  BY nullptrAssumption DEF Packets, Commands, Payloads

LEMMA NewProfileOK ==
  NewProfile \in Objects /\ NewProfile.followers = <<>>
  BY DEF NewProfile, Objects

LEMMA IncSessionsOn ==
  ASSUME NEW profile \in Objects, NEW conn \in ConnsOrNull
  PROVE  /\ incSessionsOn(profile, conn) \in Objects
         /\ incSessionsOn(profile, conn).followers = profile.followers
  <1>1. Append(profile.sessions, conn) \in Seq(Clients \cup {nullptr})
    BY DEF Objects, ConnsOrNull
  <1>2. profile.sessions_on + 1 \in Int
    BY DEF Objects
  <1> QED BY <1>1, <1>2 DEF incSessionsOn, Objects

LEMMA UpdateSessionsOn ==
  ASSUME NEW profile \in Objects, NEW conn \in ConnsOrNull
  PROVE  /\ updateSessionsOn(profile, conn) \in Objects
         /\ updateSessionsOn(profile, conn).followers = profile.followers
  <1>1. Append(profile.sessions, conn) \in Seq(Clients \cup {nullptr})
    BY DEF Objects, ConnsOrNull
  <1> QED BY <1>1 DEF updateSessionsOn, Objects

LEMMA DecSessionsOn ==
  ASSUME NEW profile \in Objects, NEW conn \in ConnsOrNull
  PROVE  /\ decSessionsOn(profile, conn) \in Objects
         /\ decSessionsOn(profile, conn).followers = profile.followers
  <1>1. CASE Contains(profile.sessions, conn)
    <2>1. RemoveFirst(profile.sessions, conn) \in Seq(Clients \cup {nullptr})
      BY RemoveFirstType DEF Objects
    <2>2. profile.sessions_on - 1 \in Int
      BY DEF Objects
    <2> QED BY <1>1, <2>1, <2>2 DEF decSessionsOn, Objects
  <1>2. CASE ~Contains(profile.sessions, conn)
    BY <1>2 DEF decSessionsOn
  <1> QED BY <1>1, <1>2

LEMMA AddFollower ==
  ASSUME NEW profile \in Objects, NEW follower \in ProfileIds
  PROVE  /\ addFollower(profile, follower) \in Objects
         /\ ToSet(addFollower(profile, follower).followers)
              = ToSet(profile.followers) \cup {follower}
  <1>1. profile.followers \in Seq(ProfileIds)
    BY DEF Objects
  <1>2. /\ Append(profile.followers, follower) \in Seq(ProfileIds)
        /\ ToSet(Append(profile.followers, follower)) = ToSet(profile.followers) \cup {follower}
    BY <1>1, AppendDistinct
  <1>3. /\ addFollower(profile, follower) \in Objects
        /\ addFollower(profile, follower).followers = Append(profile.followers, follower)
    BY <1>2 DEF addFollower, Objects
  <1> QED BY <1>2, <1>3

LEMMA InsertPacket ==
  ASSUME NEW profile \in Objects, NEW tweet \in Clients \X Nat
  PROVE  /\ insertPacket(profile, tweet) \in Objects
         /\ insertPacket(profile, tweet).followers = profile.followers
  <1>1. Append(profile.inbox, tweet) \in Seq(Clients \X Nat)
    BY DEF Objects
  <1> QED BY <1>1 DEF insertPacket, Objects

LEMMA Emptied ==
  ASSUME NEW profile \in Objects
  PROVE  /\ emptied(profile) \in Objects
         /\ emptied(profile).followers = profile.followers
  <1>1. <<>> \in Seq(Clients \X Nat)
    OBVIOUS
  <1> QED BY <1>1 DEF emptied, Objects

-----------------------------------------------------------------------------
(* What a command makes of a map.                                           *)

Names(map) == {p \in ProfileIds : map[p] # nullptr}

(* A map whose profiles are followed by profiles of the map. *)
Closed(map) ==
  map \in Maps /\ \A p \in Names(map) : ToSet(map[p].followers) \subseteq Names(map)

LEMMA EmptyMapClosed == Closed(EmptyMap) /\ Names(EmptyMap) = {}
  BY DEF Closed, Names, EmptyMap, Maps

LEMMA NamesObject ==
  ASSUME NEW map \in Maps, NEW p \in ProfileIds
  PROVE  /\ p \in Names(map) => map[p] \in Objects
         /\ map[p] = nullptr \/ map[p] \in Objects
         /\ map[p] \in Objects => p \in Names(map)
  BY ObjectIsNotNull DEF Names, Maps

LEMMA PutObject ==
  ASSUME NEW map, Closed(map), NEW p \in ProfileIds, NEW o \in Objects,
         ToSet(o.followers) \subseteq Names(map) \cup {p}
  PROVE  /\ Closed([map EXCEPT ![p] = o])
         /\ Names([map EXCEPT ![p] = o]) = Names(map) \cup {p}
  <1> DEFINE new == [map EXCEPT ![p] = o]
  <1>1. map \in Maps
    BY DEF Closed
  <1>2. new \in Maps /\ new[p] = o /\ \A q \in ProfileIds \ {p} : new[q] = map[q]
    BY <1>1 DEF Maps
  <1> HIDE DEF new
  <1>3. Names(new) = Names(map) \cup {p}
    BY <1>2, ObjectIsNotNull DEF Names
  <1>4. \A q \in Names(new) : ToSet(new[q].followers) \subseteq Names(new)
    <2> TAKE q \in Names(new)
    <2>1. CASE q = p
      BY <1>2, <1>3, <2>1
    <2>2. CASE q # p
      <3>1. q \in ProfileIds /\ q \in Names(map)
        BY <1>3, <2>2 DEF Names
      <3> QED BY <1>2, <1>3, <2>2, <3>1 DEF Closed
    <2> QED BY <2>1, <2>2
  <1>5. Closed(new)
    BY <1>2, <1>4 DEF Closed
  <1> QED BY <1>3, <1>5 DEF new

(* Whose profile a command needs to find. *)
SenderKnown(map, pkt) ==
  pkt.cmd \in {"FOLLOW", "SEND", "CLOSE_CONN"} => pkt.sender \in Names(map)

LEMMA Process ==
  ASSUME NEW map, Closed(map), NEW conn \in ConnsOrNull, NEW pkt, WellFormed(pkt),
         SenderKnown(map, pkt)
  PROVE  /\ Closed(processPacket(map, conn, pkt))
         /\ Names(map) \subseteq Names(processPacket(map, conn, pkt))
         /\ pkt.cmd = "PROFILE" => pkt.payload \in Names(processPacket(map, conn, pkt))
  <1> DEFINE new == processPacket(map, conn, pkt)
  <1>0. map \in Maps
    BY DEF Closed
  <1>1. CASE pkt.cmd = "PROFILE"
    <2> DEFINE p == pkt.payload
    <2>1. p \in ProfileIds
      BY <1>1, profileOfAssumption DEF WellFormed, FromClient, IsList
    <2> DEFINE o == IF map[p] = nullptr THEN NewProfile ELSE map[p]
    <2>2. new = [map EXCEPT ![p] = incSessionsOn(o, conn)]
      BY <1>1 DEF processPacket, createProfileIfNotExists
    <2> HIDE DEF p, new
    <2>3. o \in Objects /\ ToSet(o.followers) \subseteq Names(map)
      <3>1. CASE map[p] = nullptr
        <4>1. ToSet(<<>>) = {}
          BY DEF ToSet
        <4> QED BY <3>1, <4>1, NewProfileOK
      <3>2. CASE map[p] # nullptr
        <4>1. p \in Names(map)
          BY <2>1, <3>2 DEF Names
        <4> QED BY <1>0, <2>1, <3>2, <4>1, NamesObject DEF Closed
      <3> QED BY <3>1, <3>2
    <2> HIDE DEF o
    <2>4. incSessionsOn(o, conn) \in Objects /\ ToSet(incSessionsOn(o, conn).followers) \subseteq Names(map)
      BY <2>3, IncSessionsOn
    <2>5. Closed(new) /\ Names(new) = Names(map) \cup {p}
      BY <2>1, <2>2, <2>4, PutObject
    <2> QED BY <2>5 DEF p, new
  <1>2. CASE pkt.cmd = "FOLLOW"
    <2> DEFINE p == pkt.payload
               f == pkt.sender
    <2>1. p \in ProfileIds /\ f \in Names(map)
      BY <1>2 DEF WellFormed, FromClient, IsList, SenderKnown
    <2>2. new = addFollowerTo(map, p, f)
      BY <1>2 DEF processPacket
    <2> HIDE DEF p, f, new
    <2>3. CASE p # f /\ map[p] # nullptr /\ ~follows(map[p], f)
      <3>1. new = [map EXCEPT ![p] = addFollower(map[p], f)]
        BY <2>2, <2>3 DEF addFollowerTo
      <3>2. p \in Names(map) /\ f \in ProfileIds
        BY <2>1, <2>3 DEF Names
      <3>3. map[p] \in Objects /\ ToSet(map[p].followers) \subseteq Names(map)
        BY <1>0, <2>1, <3>2, NamesObject DEF Closed
      <3>4. /\ addFollower(map[p], f) \in Objects
            /\ ToSet(addFollower(map[p], f).followers) \subseteq Names(map)
        <4>1. ToSet(addFollower(map[p], f).followers) = ToSet(map[p].followers) \cup {f}
          BY <3>2, <3>3, AddFollower
        <4>2. addFollower(map[p], f) \in Objects
          BY <3>2, <3>3, AddFollower
        <4> QED BY <2>1, <3>3, <4>1, <4>2
      <3>5. Closed(new) /\ Names(new) = Names(map) \cup {p}
        BY <2>1, <3>1, <3>4, PutObject
      <3> QED BY <1>2, <3>5 DEF new
    <2>4. CASE ~(p # f /\ map[p] # nullptr /\ ~follows(map[p], f))
      <3>1. new = map
        BY <2>2, <2>4 DEF addFollowerTo
      <3> QED BY <1>2, <3>1 DEF new
    <2> QED BY <2>3, <2>4
  <1>3. CASE pkt.cmd = "SEND"
    <2> DEFINE a == pkt.sender
               tweet == pkt.payload
    <2>1. a \in Names(map) /\ tweet \in Clients \X Nat
      BY <1>3 DEF WellFormed, FromClient, IsList, SenderKnown
    <2>2. new = sendToFollowersOf(map, a, tweet)
      BY <1>3 DEF processPacket
    <2> HIDE DEF a, tweet, new
    <2>3. a \in ProfileIds /\ map[a] \in Objects /\ ToSet(map[a].followers) \subseteq Names(map)
      BY <1>0, <2>1, NamesObject DEF Closed, Names
    <2>4. \A p \in ProfileIds :
            \/ new[p] = map[p]
            \/ /\ p \in Names(map) /\ new[p] = insertPacket(map[p], tweet)
      <3> TAKE p \in ProfileIds
      <3>1. new[p] = IF follows(map[a], p) /\ keepsPacket(map[p]) THEN insertPacket(map[p], tweet)
                     ELSE map[p]
        BY <2>2 DEF sendToFollowersOf
      <3>2. ASSUME follows(map[a], p) PROVE p \in Names(map)
        <4>1. map[a].followers \in Seq(ProfileIds)
          BY <2>3 DEF Objects
        <4>2. p \in ToSet(map[a].followers)
          BY <3>2, <4>1, ContainsToSet DEF follows
        <4> QED BY <2>3, <4>2
      <3> QED BY <3>1, <3>2
    <2>5. \A p \in Names(map) : /\ new[p] \in Objects
                               /\ new[p].followers = map[p].followers
      <3> TAKE p \in Names(map)
      <3>1. p \in ProfileIds /\ map[p] \in Objects
        BY <1>0, NamesObject DEF Names
      <3> QED BY <2>1, <2>4, <3>1, InsertPacket
    <2>6. \A p \in ProfileIds \ Names(map) : new[p] = nullptr
      BY <2>4 DEF Names
    <2>7. new \in Maps
      <3>1. new = [p \in ProfileIds |-> new[p]]
        BY <2>2 DEF sendToFollowersOf
      <3>2. \A p \in ProfileIds : new[p] \in Objects \cup {nullptr}
        BY <2>5, <2>6
      <3> QED BY <3>1, <3>2 DEF Maps
    <2>8. Names(new) = Names(map)
      BY <2>5, <2>6, ObjectIsNotNull DEF Names
    <2>9. Closed(new)
      BY <2>5, <2>7, <2>8 DEF Closed
    <2> QED BY <1>3, <2>8, <2>9 DEF new
  <1>4. CASE pkt.cmd = "CLOSE_CONN"
    <2> DEFINE p == pkt.sender
    <2>1. p \in Names(map) /\ p \in ProfileIds
      BY <1>4 DEF SenderKnown, Names
    <2>2. new = [map EXCEPT ![p] = decSessionsOn(map[p], conn)]
      BY <1>4 DEF processPacket
    <2> HIDE DEF p, new
    <2>3. map[p] \in Objects /\ ToSet(map[p].followers) \subseteq Names(map)
      BY <1>0, <2>1, NamesObject DEF Closed
    <2>4. /\ decSessionsOn(map[p], conn) \in Objects
          /\ ToSet(decSessionsOn(map[p], conn).followers) \subseteq Names(map)
      BY <2>3, DecSessionsOn
    <2>5. Closed(new) /\ Names(new) = Names(map) \cup {p}
      BY <2>1, <2>2, <2>4, PutObject
    <2> QED BY <1>4, <2>5 DEF new
  <1>5. CASE pkt.cmd \notin {"PROFILE", "FOLLOW", "SEND", "CLOSE_CONN"}
    <2>1. new = map
      BY <1>5 DEF processPacket
    <2> QED BY <1>5, <2>1
  <1> QED BY <1>1, <1>2, <1>3, <1>4, <1>5

-----------------------------------------------------------------------------
(* Types.                                                                   *)

LEMMA Members ==
  /\ primary \in Servers /\ Backups \subseteq Servers
  /\ Clients \subseteq Threads /\ Backups \subseteq Threads
  /\ primary \notin Backups /\ Clients \cap Backups = {}
  /\ \A s \in Servers : s = primary \/ s \in Backups
  /\ \A t \in Threads : t \in Clients \/ t \in Backups
  /\ nullptr \notin ProfileIds /\ nullptr \notin Clients
  BY ThreadsAssumption DEF Servers, Threads

LEMMA ServerOfOK ==
  ASSUME Kinds, NEW t \in Threads
  PROVE  ServerOf(t) \in Servers
  BY Members DEF Kinds, ServerOf

LEMMA KnownNames == \A s : KnownAt(s) = Names(profiles[s])
  BY DEF KnownAt, Names

LEMMA TypesTypeOK == Types => TypeOK
  <1> SUFFICES ASSUME Types PROVE TypeOK
    OBVIOUS
  <1>1. \A s \in Servers : \A p \in KnownAt(s) : ProfileOK(profiles[s][p])
    <2> TAKE s \in Servers
    <2> TAKE p \in KnownAt(s)
    <2>1. profiles[s] \in Maps /\ p \in ProfileIds /\ p \in Names(profiles[s])
      BY KnownNames DEF Types, Kinds, Names
    <2>2. profiles[s][p] \in Objects
      BY <2>1, NamesObject
    <2> QED BY <2>2 DEF Objects, ProfileOK
  <1>2. \A b \in Backups : \A j \in DOMAIN queue[b] : queue[b][j].cmd \in Commands
    <2> TAKE b \in Backups
    <2> TAKE j \in DOMAIN queue[b]
    <2>1. queue[b][j] \in Packets
      BY DEF Types, Kinds
    <2> QED BY <2>1 DEF Packets
  <1>3. \A t \in Threads : packet[t] # nullptr => packet[t].cmd \in Commands
    BY DEF Types, Kinds, Packets
  <1> QED BY <1>1, <1>2, <1>3 DEF Types, Kinds, TypeOK

LEMMA InitTypes == Init => Types
  <1> SUFFICES ASSUME Init PROVE Types
    OBVIOUS
  <1>1. EmptyMap \in Maps
    BY EmptyMapClosed DEF Closed
  <1>2. profiles \in [Servers -> Maps]
    BY <1>1 DEF Init
  <1>3. queue \in [Backups -> Seq(Packets)] /\ \A b \in Backups : queue[b] = <<>>
    BY DEF Init
  <1>4. /\ listBackups \in [Servers -> Seq(Backups)]
        /\ electionServerList \in [Servers -> Seq(Backups)]
    BY DEF Init
  <1>5. Kinds
    BY <1>2, <1>3, <1>4, Members DEF Init, Kinds, Locations
  <1>6. PacketsOK
    BY <1>3, Members DEF Init, PacketsOK
  <1>7. Places
    BY Members DEF Init, Places
  <1>8. LoggedIn
    BY Members DEF Init, LoggedIn
  <1>9. FollowersKnown
    <2>1. \A s \in Servers : KnownAt(s) = {}
      BY EmptyMapClosed, KnownNames DEF Init
    <2> QED BY <2>1 DEF FollowersKnown
  <1> QED BY <1>5, <1>6, <1>7, <1>8, <1>9 DEF Types

(* Every server's map is closed, and stays so when one of them changes. *)
LEMMA MapsClosed ==
  ASSUME Types
  PROVE  \A s \in Servers : Closed(profiles[s])
  BY KnownNames DEF Types, Kinds, FollowersKnown, Closed

LEMMA MapChanges ==
  ASSUME Types, NEW s \in Servers, NEW new, Closed(new),
         profiles' = [profiles EXCEPT ![s] = new]
  PROVE  /\ profiles' \in [Servers -> Maps]
         /\ FollowersKnown'
         /\ KnownAt(s)' = Names(new)
         /\ \A r \in Servers \ {s} : KnownAt(r)' = KnownAt(r)
  <1>1. profiles \in [Servers -> Maps] /\ new \in Maps
    BY DEF Types, Kinds, Closed
  <1>2. /\ profiles' \in [Servers -> Maps] /\ profiles'[s] = new
        /\ \A r \in Servers \ {s} : profiles'[r] = profiles[r]
    BY <1>1
  <1>3. KnownAt(s)' = Names(new)
    BY <1>2 DEF KnownAt, Names
  <1>4. \A r \in Servers \ {s} : KnownAt(r)' = KnownAt(r)
    BY <1>2 DEF KnownAt
  <1>5. \A r \in Servers : Closed(profiles'[r])
    BY <1>2, MapsClosed
  <1>6. FollowersKnown'
    BY <1>5 DEF FollowersKnown, KnownAt, Closed, Names
  <1> QED BY <1>2, <1>3, <1>4, <1>6

(* What overlapping commands touch. *)
LEMMA TouchesOK ==
  ASSUME Types, NEW pkt, WellFormed(pkt),
         pkt.cmd = "SEND" => pkt.sender \in KnownAt(primary)
  PROVE  /\ Touches(pkt) \subseteq ProfileIds \cup {nullptr}
         /\ IsList(pkt) => Touches(pkt) = {nullptr}
  <1>1. CASE IsList(pkt)
    BY <1>1 DEF IsList, Touches
  <1>2. CASE \E k \in Clients : FromClient(pkt, k)
    <2>1. PICK k \in Clients : FromClient(pkt, k)
      BY <1>2
    <2>2. profileOf[k] \in ProfileIds
      BY profileOfAssumption
    <2>3. CASE pkt.cmd = "SEND"
      <3>1. pkt.sender \in ProfileIds /\ profiles[primary][pkt.sender] \in Objects
        BY <2>3, KnownNames, NamesObject, Members DEF Types, Kinds, Names
      <3>2. profiles[primary][pkt.sender].followers \in Seq(ProfileIds)
        BY <3>1 DEF Objects
      <3>3. ToSet(profiles[primary][pkt.sender].followers) \subseteq ProfileIds
        BY <3>2, ToSetType
      <3> QED BY <2>3, <3>1, <3>3 DEF Touches, IsList
    <2>4. CASE pkt.cmd # "SEND"
      BY <2>1, <2>2, <2>4 DEF FromClient, Touches, IsList
    <2> QED BY <2>3, <2>4
  <1> QED BY <1>1, <1>2 DEF WellFormed

LEMMA Forwarded ==
  ASSUME Types, NEW t \in Threads, packet[t] # nullptr
  PROVE  /\ packet[t] \in Packets /\ WellFormed(packet[t])
         /\ up[primary] = "serving" /\ packet[t].cmd = "SEND"
              => packet[t].sender \in KnownAt(primary)
  <1>1. packet[t] \in Packets
    BY DEF Types, Kinds
  <1>2. CASE t \in Clients
    <2>1. FromClient(packet[t], t) /\ pc[t] \in {"forward", "closing"}
      BY <1>2 DEF Types, PacketsOK
    <2>2. ASSUME up[primary] = "serving", packet[t].cmd = "SEND"
          PROVE  packet[t].sender \in KnownAt(primary)
      <3>1. packet[t].sender = profileOf[t]
        BY <2>1, <2>2 DEF FromClient
      <3>2. at[t] = primary
        BY <1>2, <2>2 DEF Types, Places
      <3> QED BY <1>2, <2>1, <2>2, <3>1, <3>2 DEF Types, LoggedIn
    <2> QED BY <1>1, <1>2, <2>1, <2>2 DEF WellFormed
  <1>3. CASE t \in Backups
    BY <1>1, <1>3 DEF Types, PacketsOK, IsList, WellFormed
  <1> QED BY <1>2, <1>3, Members

LEMMA StartForwardTypes ==
  ASSUME Types, NEW t \in Threads, NEW pkt \in Packets, WellFormed(pkt),
         up[ServerOf(t)] = "serving", StartForward(t, pkt),
         ServerOf(t) = primary /\ pkt.cmd = "SEND" => pkt.sender \in KnownAt(primary)
  PROVE  /\ pc' \in [Threads -> Locations]
         /\ pc'[t] = IF pkt.cmd = "CLOSE_CONN" THEN "closing" ELSE "forward"
         /\ packet' \in [Threads -> Packets \cup {nullptr}]
         /\ packet'[t] = pkt
         /\ i' \in [Threads -> Nat \ {0}] /\ i'[t] = 1
         /\ \A u \in Threads \ {t} : pc'[u] = pc[u] /\ packet'[u] = packet[u] /\ i'[u] = i[u]
         /\ raced \subseteq raced' /\ raced' \subseteq ProfileIds \cup {nullptr}
  <1>1. /\ pc \in [Threads -> Locations] /\ packet \in [Threads -> Packets \cup {nullptr}]
        /\ i \in [Threads -> Nat \ {0}] /\ raced \subseteq ProfileIds \cup {nullptr}
    BY DEF Types, Kinds
  <1>2. /\ pc' = [pc EXCEPT ![t] = IF pkt.cmd = "CLOSE_CONN" THEN "closing" ELSE "forward"]
        /\ packet' = [packet EXCEPT ![t] = pkt]
        /\ i' = [i EXCEPT ![t] = 1]
    BY DEF StartForward
  <1>3. raced \subseteq raced' /\ raced' \subseteq ProfileIds \cup {nullptr}
    <2>1. CASE ServerOf(t) = primary
      <3>1. Touches(pkt) \subseteq ProfileIds \cup {nullptr}
        BY <2>1, TouchesOK
      <3>2. \A o \in Overlapping(pkt) : Touches(packet[o]) \subseteq ProfileIds \cup {nullptr}
        <4> TAKE o \in Overlapping(pkt)
        <4>1. o \in Threads /\ packet[o] # nullptr
          BY DEF Overlapping
        <4>2. WellFormed(packet[o]) /\ (packet[o].cmd = "SEND" => packet[o].sender \in KnownAt(primary))
          BY <2>1, <4>1, Forwarded
        <4> QED BY <4>2, TouchesOK
      <3>3. raced' = raced \cup UNION {Touches(packet[o]) \cup Touches(pkt) : o \in Overlapping(pkt)}
        BY <2>1 DEF StartForward
      <3> QED BY <1>1, <3>1, <3>2, <3>3
    <2>2. CASE ServerOf(t) # primary
      BY <1>1, <2>2 DEF StartForward
    <2> QED BY <2>1, <2>2
  <1> QED BY <1>1, <1>2, <1>3 DEF Locations

LEMMA DeathTypes ==
  ASSUME Types, NEW s \in Servers, Death(s),
         queue' \in [Backups -> Seq(Packets)],
         \A b \in Backups : queue'[b] = queue[b] \/ queue'[b] = <<>>,
         link' \in [Backups -> {"open", "gone", "reset"}]
  PROVE  Types'
  <1>1. /\ up' = [up EXCEPT ![s] = "dead"]
        /\ profiles' = [profiles EXCEPT ![s] = EmptyMap]
        /\ leaked' = leaked \ {s}
        /\ counted' = [counted EXCEPT ![s] = {}]
        /\ listBackups' = [listBackups EXCEPT ![s] = <<>>]
        /\ electionServerList' = [electionServerList EXCEPT ![s] = <<>>]
        /\ early' = early \ {s}
        /\ at' = at /\ inputs' = inputs /\ raced' = raced
    BY DEF Death
  <1>2. /\ packet' = [t \in Threads |-> IF ServerOf(t) = s THEN nullptr ELSE packet[t]]
        /\ i' = [t \in Threads |-> IF ServerOf(t) = s THEN 1 ELSE i[t]]
        /\ pc' = [t \in Threads |->
                     IF ServerOf(t) # s \/ pc[t] = "out" THEN pc[t]
                     ELSE IF t \in Backups \/ pc[t] \in {"closing", "ended"} THEN "ended"
                     ELSE "idle"]
    BY DEF Death
  <1>3. /\ profiles' \in [Servers -> Maps] /\ FollowersKnown'
        /\ \A r \in Servers \ {s} : KnownAt(r)' = KnownAt(r)
    BY <1>1, EmptyMapClosed, MapChanges
  <1>4. /\ packet' \in [Threads -> Packets \cup {nullptr}]
        /\ i' \in [Threads -> Nat \ {0}]
        /\ pc' \in [Threads -> Locations]
    BY <1>2 DEF Types, Kinds, Locations
  <1>5. /\ listBackups' \in [Servers -> Seq(Backups)]
        /\ electionServerList' \in [Servers -> Seq(Backups)]
        /\ counted' \in [Servers -> SUBSET Clients]
    <2>1. <<>> \in Seq(Backups)
      OBVIOUS
    <2> QED BY <1>1, <2>1 DEF Types, Kinds
  <1>6. Kinds'
    BY <1>1, <1>3, <1>4, <1>5 DEF Types, Kinds
  <1>7. PacketsOK'
    <2>1. \A b \in Backups : \A j \in DOMAIN queue'[b] : WellFormed(queue'[b][j])
      BY DEF Types, PacketsOK
    <2>2. \A t \in Threads :
            \/ packet'[t] = packet[t] /\ pc'[t] = pc[t]
            \/ /\ packet'[t] = nullptr /\ pc'[t] \in {"out", "ended", "idle"}
               /\ t \in Backups => pc'[t] # "idle"
      BY <1>2
    <2>3. \A t \in Threads : packet'[t] # nullptr <=> pc'[t] \in {"forward", "closing"}
      BY <2>2 DEF Types, PacketsOK
    <2>4. \A k \in Clients :
            /\ packet'[k] # nullptr =>
                 FromClient(packet'[k], k) /\ (packet'[k].cmd = "CLOSE_CONN" <=> pc'[k] = "closing")
            /\ pc'[k] # "joining"
      BY <2>2, Members DEF Types, PacketsOK
    <2>5. \A b \in Backups :
            /\ packet'[b] # nullptr => IsList(packet'[b])
            /\ pc'[b] \in {"out", "joining", "forward", "ended"}
      BY <2>2, Members DEF Types, PacketsOK
    <2> QED BY <2>1, <2>3, <2>4, <2>5 DEF PacketsOK
  <1>8. Places'
    <2>1. /\ \A k \in Clients : up'[at'[k]] \in {"serving", "dead"}
          /\ up'[primary] \in {"serving", "dead"}
          /\ up'[primary] = "serving" =>
               (\A b \in Backups : up'[b] # "serving") /\ \A k \in Clients : at'[k] = primary
      BY <1>1, Members DEF Types, Kinds, Places
    <2>2. \A t \in Threads : packet'[t] # nullptr => packet[t] # nullptr /\ ServerOf(t) # s
      BY <1>2
    <2>3. \A k \in Clients : packet'[k] # nullptr => up'[at'[k]] = "serving"
      BY <1>1, <2>2, Members DEF Types, Kinds, Places, ServerOf
    <2>4. \A b \in Backups : packet'[b] # nullptr => up'[primary] = "serving"
      BY <1>1, <2>2, Members DEF Types, Kinds, Places, ServerOf
    <2>5. \A b \in Backups : pc'[b] # "out" => up'[b] # "off"
      <3>1. \A b \in Backups : pc'[b] # "out" => pc[b] # "out"
        BY <1>2, Members
      <3>2. \A b \in Backups : up'[b] = "off" => up[b] = "off"
        BY <1>1, Members DEF Types, Kinds
      <3> QED BY <3>1, <3>2 DEF Types, Places
    <2> QED BY <2>1, <2>3, <2>4, <2>5 DEF Places
  <1>9. LoggedIn'
    <2> SUFFICES ASSUME NEW k \in Clients, pc'[k] \in {"forward", "fetch", "idle", "closing"},
                        up'[at[k]] = "serving"
                 PROVE  profileOf[k] \in KnownAt(at[k])'
      BY <1>1 DEF LoggedIn
    <2>1. at[k] # s /\ at[k] \in Servers
      BY <1>1 DEF Types, Kinds
    <2>2. ServerOf(k) = at[k]
      BY Members DEF ServerOf
    <2>3. pc'[k] = pc[k] /\ up'[at[k]] = up[at[k]]
      BY <1>1, <1>2, <2>1, <2>2, Members DEF Types, Kinds
    <2>4. profileOf[k] \in KnownAt(at[k])
      BY <2>3 DEF Types, LoggedIn
    <2>5. KnownAt(at[k])' = {p \in ProfileIds : profiles'[at[k]][p] # nullptr}
      BY <1>1 DEF KnownAt
    <2>6. profiles'[at[k]] = profiles[at[k]]
      BY <1>1, <2>1 DEF Types, Kinds
    <2> QED BY <2>4, <2>5, <2>6 DEF KnownAt
  <1> QED BY <1>3, <1>6, <1>7, <1>8, <1>9 DEF Types

-----------------------------------------------------------------------------
(* One lemma for each action, or for each kind of action.                   *)

LEMMA AddressedBackup ==
  ASSUME Types, NEW t \in Threads, MoreBackups(t)
  PROVE  /\ NextBackup(t) \in Backups
         /\ i[t] \in DOMAIN listBackups[ServerOf(t)]
         /\ packet[t] \in Packets /\ WellFormed(packet[t])
  <1>1. listBackups[ServerOf(t)] \in Seq(Backups) /\ i[t] \in Nat \ {0}
    BY ServerOfOK DEF Types, Kinds
  <1>2. i[t] \in 1 .. Len(listBackups[ServerOf(t)])
    BY <1>1 DEF MoreBackups
  <1>3. packet[t] # nullptr
    BY DEF MoreBackups, Forwarding, Types, PacketsOK
  <1> QED BY <1>1, <1>2, <1>3, Forwarded DEF NextBackup

LEMMA ForwardTypes ==
  ASSUME Types, NEW t \in Threads, Forward(t)
  PROVE  Types'
  <1> DEFINE b == NextBackup(t)
  <1>1. /\ b \in Backups /\ packet[t] \in Packets /\ WellFormed(packet[t])
    BY AddressedBackup DEF Forward
  <1>2. /\ i' = [i EXCEPT ![t] = @ + 1]
        /\ UNCHANGED <<up, mapVars, listVars, pc, at, packet, inputs, raced>>
        /\ \/ queue' = [queue EXCEPT ![b] = Append(@, packet[t])] /\ UNCHANGED link
           \/ link' = [link EXCEPT ![b] = "reset"] /\ UNCHANGED queue
    BY DEF Forward
  <1> HIDE DEF b
  <1>3. i' \in [Threads -> Nat \ {0}]
    BY <1>2 DEF Types, Kinds
  <1>4. link' \in [Backups -> {"open", "gone", "reset"}]
    BY <1>2 DEF Types, Kinds
  <1>5. /\ queue' \in [Backups -> Seq(Packets)]
        /\ \A c \in Backups : \A j \in DOMAIN queue'[c] : WellFormed(queue'[c][j])
    <2>1. CASE queue' = queue
      BY <2>1 DEF Types, Kinds, PacketsOK
    <2>2. CASE queue' = [queue EXCEPT ![b] = Append(@, packet[t])]
      <3>1. queue \in [Backups -> Seq(Packets)] /\ queue[b] \in Seq(Packets)
        BY <1>1 DEF Types, Kinds
      <3>2. /\ Append(queue[b], packet[t]) \in Seq(Packets)
            /\ \A j \in DOMAIN Append(queue[b], packet[t]) :
                 \/ j \in DOMAIN queue[b] /\ Append(queue[b], packet[t])[j] = queue[b][j]
                 \/ Append(queue[b], packet[t])[j] = packet[t]
        BY <1>1, <3>1
      <3>3. /\ queue'[b] = Append(queue[b], packet[t])
            /\ \A c \in Backups \ {b} : queue'[c] = queue[c]
            /\ queue' \in [Backups -> Seq(Packets)]
        BY <1>1, <2>2, <3>1, <3>2
      <3>4. \A j \in DOMAIN queue'[b] : WellFormed(queue'[b][j])
        BY <1>1, <3>2, <3>3 DEF Types, PacketsOK
      <3> QED BY <3>3, <3>4 DEF Types, PacketsOK
    <2> QED BY <1>2, <2>1, <2>2
  <1>6. Kinds'
    BY <1>2, <1>3, <1>4, <1>5 DEF Types, Kinds, mapVars, listVars
  <1>7. PacketsOK'
    BY <1>2, <1>5 DEF Types, PacketsOK
  <1>8. Places' /\ LoggedIn' /\ FollowersKnown'
    BY <1>2 DEF Types, Places, LoggedIn, FollowersKnown, KnownAt, mapVars
  <1> QED BY <1>6, <1>7, <1>8 DEF Types

LEMMA EndForwardTypes ==
  ASSUME Types, NEW t \in Threads, EndForward(t)
  PROVE  Types'
  <1>1. /\ Forwarding(t)
        /\ i' = [i EXCEPT ![t] = 1]
        /\ packet' = [packet EXCEPT ![t] = nullptr]
        /\ UNCHANGED <<up, mapVars, listVars, netVars, at, inputs, raced>>
    BY DEF EndForward
  <1> DEFINE l == CASE t \in Backups \/ pc[t] = "closing" -> "ended"
                    [] packet[t].cmd = "PROFILE"           -> "fetch"
                    [] OTHER                               -> "idle"
  <1>2. pc' = [pc EXCEPT ![t] = l]
    BY DEF EndForward
  <1>3. /\ l \in {"ended", "fetch", "idle"}
        /\ t \in Backups => l = "ended"
        /\ pc[t] = "closing" => l = "ended"
    <2>1. (t \in Backups \/ pc[t] = "closing") => packet[t].cmd # "PROFILE"
      BY <1>1, Members DEF Forwarding, Types, PacketsOK, IsList
    <2>2. CASE t \in Backups \/ pc[t] = "closing"
      <3>1. l = "ended"
        BY <2>1, <2>2
      <3> QED BY <3>1
    <2>3. CASE ~(t \in Backups \/ pc[t] = "closing")
      BY <2>3
    <2> QED BY <2>2, <2>3
  <1> HIDE DEF l
  <1>4. pc' \in [Threads -> Locations] /\ pc'[t] = l /\ \A u \in Threads \ {t} : pc'[u] = pc[u]
    BY <1>2, <1>3 DEF Types, Kinds, Locations
  <1>5. /\ packet' \in [Threads -> Packets \cup {nullptr}] /\ packet'[t] = nullptr
        /\ \A u \in Threads \ {t} : packet'[u] = packet[u]
        /\ i' \in [Threads -> Nat \ {0}]
    BY <1>1 DEF Types, Kinds
  <1>6. Kinds'
    BY <1>1, <1>4, <1>5 DEF Types, Kinds, mapVars, listVars, netVars
  <1>7. PacketsOK'
    BY <1>1, <1>3, <1>4, <1>5, Members DEF Types, PacketsOK, netVars
  <1>8. LoggedIn'
    <2> SUFFICES ASSUME NEW k \in Clients, pc'[k] \in {"forward", "fetch", "idle", "closing"},
                        up[at[k]] = "serving"
                 PROVE  profileOf[k] \in KnownAt(at[k])
      BY <1>1 DEF LoggedIn, KnownAt, mapVars
    <2>1. pc[k] \in {"forward", "fetch", "idle", "closing"}
      BY <1>1, <1>3, <1>4, Members DEF Forwarding
    <2> QED BY <2>1 DEF Types, LoggedIn
  <1>9. Places'
    <2>1. \A u \in Threads : packet'[u] # nullptr => packet[u] # nullptr
      BY <1>5
    <2>2. \A u \in Threads : pc'[u] # "out" => pc[u] # "out"
      BY <1>1, <1>4 DEF Forwarding
    <2> QED BY <1>1, <2>1, <2>2, Members DEF Types, Places
  <1>10. FollowersKnown'
    BY <1>1 DEF Types, FollowersKnown, KnownAt, mapVars
  <1> QED BY <1>10, <1>6, <1>7, <1>8, <1>9 DEF Types

LEMMA ForwardDiesTypes ==
  ASSUME Types, NEW t \in Threads, ForwardDies(t)
  PROVE  Types'
  <1>1. Death(ServerOf(t)) /\ queue' = queue /\ link' = link
    BY DEF ForwardDies, netVars
  <1> QED BY <1>1, ServerOfOK, DeathTypes DEF Types, Kinds

(* The thread of a client changes the map of its server and forwards pkt;
   pkt and what is carried out may differ in the sender. *)
LEMMA ClientForwards ==
  ASSUME Types, NEW k \in Clients, NEW pkt \in Packets, FromClient(pkt, k),
         NEW new, Closed(new), Names(profiles[at[k]]) \subseteq Names(new),
         profileOf[k] \in Names(new),
         pkt.cmd = "SEND" => profileOf[k] \in KnownAt(at[k]),
         up[at[k]] = "serving",
         profiles' = [profiles EXCEPT ![at[k]] = new],
         StartForward(k, pkt), inputs' \in [Clients -> Nat],
         counted' \in [Servers -> SUBSET Clients],
         UNCHANGED <<up, leaked, listVars, netVars, at>>
  PROVE  Types'
  <1>1. k \in Threads /\ ServerOf(k) = at[k] /\ at[k] \in Servers /\ WellFormed(pkt)
    BY Members DEF ServerOf, Types, Kinds, WellFormed
  <1>2. pkt.cmd = "SEND" => pkt.sender \in KnownAt(at[k])
    BY DEF FromClient
  <1>3. /\ pc' \in [Threads -> Locations]
        /\ pc'[k] = IF pkt.cmd = "CLOSE_CONN" THEN "closing" ELSE "forward"
        /\ packet' \in [Threads -> Packets \cup {nullptr}]
        /\ packet'[k] = pkt
        /\ i' \in [Threads -> Nat \ {0}] /\ i'[k] = 1
        /\ \A u \in Threads \ {k} : pc'[u] = pc[u] /\ packet'[u] = packet[u] /\ i'[u] = i[u]
        /\ raced \subseteq raced' /\ raced' \subseteq ProfileIds \cup {nullptr}
    BY <1>1, <1>2, StartForwardTypes
  <1>4. /\ profiles' \in [Servers -> Maps] /\ FollowersKnown'
        /\ KnownAt(at[k])' = Names(new)
        /\ \A r \in Servers \ {at[k]} : KnownAt(r)' = KnownAt(r)
    BY <1>1, MapChanges
  <1>5. Kinds'
    BY <1>3, <1>4 DEF Types, Kinds, listVars, netVars
  <1>6. PacketsOK'
    BY <1>1, <1>3, PacketIsNotNull, Members DEF Types, PacketsOK, netVars
  <1>7. Places'
    BY <1>3, Members DEF Types, Places
  <1>8. LoggedIn'
    <2> SUFFICES ASSUME NEW c \in Clients, pc'[c] \in {"forward", "fetch", "idle", "closing"},
                        up[at[c]] = "serving"
                 PROVE  profileOf[c] \in {p \in ProfileIds : profiles'[at[c]][p] # nullptr}
      BY DEF LoggedIn, KnownAt
    <2>1. at[c] \in Servers /\ profileOf[c] \in ProfileIds
      BY profileOfAssumption DEF Types, Kinds
    <2>2. CASE c = k
      <3>1. profiles'[at[k]] = new
        BY <1>1 DEF Types, Kinds
      <3> QED BY <2>2, <3>1 DEF Names
    <2>3. CASE c # k
      <3>1. profileOf[c] \in KnownAt(at[c])
        BY <1>3, <2>3, Members DEF Types, LoggedIn
      <3>2. CASE at[c] = at[k]
        <4>1. profiles'[at[c]] = new
          BY <1>1, <3>2 DEF Types, Kinds
        <4> QED BY <3>1, <3>2, <4>1, KnownNames DEF Names
      <3>3. CASE at[c] # at[k]
        <4>1. profiles'[at[c]] = profiles[at[c]]
          BY <2>1, <3>3 DEF Types, Kinds
        <4> QED BY <3>1, <4>1 DEF KnownAt
      <3> QED BY <3>2, <3>3
    <2> QED BY <2>2, <2>3
  <1> QED BY <1>4, <1>5, <1>6, <1>7, <1>8 DEF Types

(* What clients send. *)
LEMMA ClientPackets ==
  ASSUME NEW k \in Clients
  PROVE  /\ LET pkt == Packet("PROFILE", profileOf[k], nullptr, k) IN
            pkt \in Packets /\ FromClient(pkt, k) /\ pkt.cmd = "PROFILE" /\ pkt.payload = profileOf[k]
         /\ \A p \in ProfileIds :
              LET pkt == Packet("FOLLOW", p, profileOf[k], k) IN
              pkt \in Packets /\ FromClient(pkt, k) /\ pkt.cmd = "FOLLOW" /\ pkt.sender = profileOf[k]
         /\ \A n \in Nat :
              LET pkt == Packet("SEND", <<k, n>>, profileOf[k], k) IN
              pkt \in Packets /\ FromClient(pkt, k) /\ pkt.cmd = "SEND" /\ pkt.sender = profileOf[k]
         /\ LET pkt == Packet("CLOSE_CONN", nullptr, profileOf[k], k) IN
            /\ pkt \in Packets /\ FromClient(pkt, k) /\ pkt.cmd = "CLOSE_CONN" /\ pkt.sender = profileOf[k]
            /\ [pkt EXCEPT !.sender = nullptr] \in Packets
            /\ FromClient([pkt EXCEPT !.sender = nullptr], k)
            /\ [pkt EXCEPT !.sender = nullptr].cmd = "CLOSE_CONN"
  <1>1. profileOf[k] \in ProfileIds
    BY profileOfAssumption
  <1>2. \A n \in Nat : <<k, n>> \in Clients \X Nat
    OBVIOUS
  <1> QED BY <1>1, <1>2 DEF Packet, Packets, Payloads, Commands, FromClient

LEMMA InputTypes ==
  ASSUME Types, NEW k \in Clients, Input(k)
  PROVE  inputs' \in [Clients -> Nat]
  BY DEF Types, Kinds, Input

LEMMA CarryOutTypes ==
  ASSUME Types, NEW k \in Clients, NEW pkt \in Packets, FromClient(pkt, k),
         CarryOut(k, pkt), pkt.cmd # "PROFILE" => profileOf[k] \in KnownAt(at[k]),
         pkt.cmd # "CLOSE_CONN"
  PROVE  Types'
  <1> DEFINE s == at[k]
             new == processPacket(profiles[s], k, pkt)
  <1>1. s \in Servers /\ k \in ConnsOrNull /\ Closed(profiles[s]) /\ WellFormed(pkt)
    BY MapsClosed DEF Types, Kinds, ConnsOrNull, WellFormed
  <1>2. SenderKnown(profiles[s], pkt)
    BY KnownNames DEF SenderKnown, FromClient
  <1>3. /\ Closed(new) /\ Names(profiles[s]) \subseteq Names(new)
        /\ pkt.cmd = "PROFILE" => pkt.payload \in Names(new)
    BY <1>1, <1>2, Process
  <1>4. profileOf[k] \in Names(new)
    BY <1>3, KnownNames DEF FromClient
  <1>5. profiles' = [profiles EXCEPT ![s] = new]
    BY DEF CarryOut
  <1>6. counted' \in [Servers -> SUBSET Clients]
    <2>1. counted' = [counted EXCEPT ![s] = countedAfter(@, pkt)]
      BY DEF CarryOut
    <2>2. countedAfter(counted[s], pkt) \subseteq Clients
      BY <1>1 DEF countedAfter, FromClient, Types, Kinds
    <2> QED BY <1>1, <2>1, <2>2 DEF Types, Kinds
  <1>7. inputs' \in [Clients -> Nat]
    BY InputTypes DEF CarryOut
  <1>8. /\ up[at[k]] = "serving" /\ StartForward(k, pkt)
        /\ UNCHANGED <<up, leaked, listVars, netVars, at>>
    BY DEF CarryOut
  <1> HIDE DEF new
  <1> QED BY <1>3, <1>4, <1>5, <1>6, <1>7, <1>8, ClientForwards DEF s

LEMMA LoginTypes ==
  ASSUME Types, NEW k \in Clients, Login(k)
  PROVE  Types'
  BY ClientPackets, CarryOutTypes DEF Login

LEMMA CommandTypes ==
  ASSUME Types, NEW k \in Clients, NEW pkt \in Packets, FromClient(pkt, k),
         Command(k, pkt), pkt.cmd # "CLOSE_CONN"
  PROVE  Types'
  <1>1. pc[k] = "idle" /\ up[at[k]] = "serving" /\ CarryOut(k, pkt)
    BY DEF Command, CarryOut
  <1>2. profileOf[k] \in KnownAt(at[k])
    BY <1>1 DEF Types, LoggedIn
  <1> QED BY <1>1, <1>2, CarryOutTypes

LEMMA FollowTypes ==
  ASSUME Types, NEW k \in Clients, NEW p \in ProfileIds, Follow(k, p)
  PROVE  Types'
  <1> DEFINE pkt == Packet("FOLLOW", p, profileOf[k], k)
  <1>1. pkt \in Packets /\ FromClient(pkt, k) /\ pkt.cmd = "FOLLOW"
    BY ClientPackets
  <1>2. Command(k, pkt)
    BY DEF Follow
  <1> HIDE DEF pkt
  <1> QED BY <1>1, <1>2, CommandTypes

LEMMA TweetTypes ==
  ASSUME Types, NEW k \in Clients, Tweet(k)
  PROVE  Types'
  <1> DEFINE n == inputs[k] + 1
             pkt == Packet("SEND", <<k, n>>, profileOf[k], k)
  <1>0. n \in Nat
    BY DEF Types, Kinds
  <1> HIDE DEF n
  <1>1. pkt \in Packets /\ FromClient(pkt, k) /\ pkt.cmd = "SEND"
    BY <1>0, ClientPackets
  <1>2. Command(k, pkt)
    BY DEF Tweet, n
  <1> HIDE DEF pkt
  <1> QED BY <1>1, <1>2, CommandTypes

LEMMA CloseTypes ==
  ASSUME Types, NEW k \in Clients, Close(k)
  PROVE  Types'
  <1> DEFINE s == at[k]
             named == Packet("CLOSE_CONN", nullptr, profileOf[k], k)
             new == processPacket(profiles[s], k, named)
  <1>1. /\ pc[k] = "idle" /\ up[at[k]] = "serving" /\ Input(k)
        /\ profiles' = [profiles EXCEPT ![s] = new]
        /\ StartForward(k, named) \/ StartForward(k, [named EXCEPT !.sender = nullptr])
        /\ UNCHANGED <<up, leaked, counted, listVars, netVars, at>>
    BY DEF Close
  <1>2. PICK pkt \in {named, [named EXCEPT !.sender = nullptr]} : StartForward(k, pkt)
    BY <1>1
  <1>3. pkt \in Packets /\ FromClient(pkt, k) /\ pkt.cmd = "CLOSE_CONN"
    BY <1>2, ClientPackets
  <1>4. /\ s \in Servers /\ k \in ConnsOrNull /\ Closed(profiles[s])
        /\ profileOf[k] \in Names(profiles[s])
    BY <1>1, MapsClosed, KnownNames DEF Types, Kinds, LoggedIn, ConnsOrNull
  <1>5. /\ WellFormed(named) /\ named.cmd = "CLOSE_CONN" /\ named.sender = profileOf[k]
    BY ClientPackets DEF WellFormed
  <1> HIDE DEF named
  <1>6. SenderKnown(profiles[s], named)
    BY <1>4, <1>5 DEF SenderKnown
  <1>7. Closed(new) /\ Names(profiles[s]) \subseteq Names(new)
    BY <1>4, <1>5, <1>6, Process
  <1>8. inputs' \in [Clients -> Nat] /\ counted' \in [Servers -> SUBSET Clients]
    BY <1>1, InputTypes DEF Types, Kinds
  <1> HIDE DEF new
  <1> QED BY <1>1, <1>2, <1>3, <1>4, <1>7, <1>8, ClientForwards DEF s

LEMMA LoginRefusedTypes ==
  ASSUME Types, NEW k \in Clients, LoginRefused(k)
  PROVE  Types'
  <1>1. /\ pc[k] = "out" /\ up[at[k]] = "serving" /\ Input(k)
        /\ leaked' = leaked \cup {at[k]}
        /\ pc' = [pc EXCEPT ![k] = "ended"]
        /\ UNCHANGED <<up, profiles, counted, listVars, netVars, at, packet, i, raced>>
    BY DEF LoginRefused
  <1>2. /\ pc' \in [Threads -> Locations] /\ pc'[k] = "ended"
        /\ \A u \in Threads \ {k} : pc'[u] = pc[u]
    BY <1>1, Members DEF Types, Kinds, Locations
  <1>3. Kinds'
    BY <1>1, <1>2, InputTypes DEF Types, Kinds, listVars, netVars
  <1>4. PacketsOK'
    BY <1>1, <1>2, Members DEF Types, PacketsOK, netVars
  <1>5. LoggedIn'
    BY <1>1, <1>2, Members DEF Types, LoggedIn, KnownAt
  <1>6. Places'
    BY <1>1, <1>2, Members DEF Types, Places
  <1>7. FollowersKnown'
    BY <1>1 DEF Types, FollowersKnown, KnownAt
  <1> QED BY <1>3, <1>4, <1>5, <1>6, <1>7 DEF Types

(* A client's thread or client that changes one profile which is known, and
   moves on without a packet. *)
LEMMA ProfileChanges ==
  ASSUME Types, NEW k \in Clients, NEW s \in Servers, up[s] = "serving",
         profileOf[k] \in KnownAt(s),
         NEW o \in Objects, o.followers = profiles[s][profileOf[k]].followers,
         profiles' = [profiles EXCEPT ![s] = [profiles[s] EXCEPT ![profileOf[k]] = o]],
         at' = [at EXCEPT ![k] = s], up[primary] = "serving" => s = primary,
         packet[k] = nullptr, NEW l \in {"idle", "fetch"}, pc' = [pc EXCEPT ![k] = l],
         UNCHANGED <<up, leaked, counted, listVars, netVars, packet, i, inputs, raced>>
  PROVE  Types'
  <1> DEFINE p == profileOf[k]
             new == [profiles[s] EXCEPT ![p] = o]
  <1>1. p \in ProfileIds /\ Closed(profiles[s]) /\ p \in Names(profiles[s])
    BY profileOfAssumption, MapsClosed, KnownNames
  <1>2. ToSet(o.followers) \subseteq Names(profiles[s]) \cup {p}
    BY <1>1 DEF Closed
  <1>3. Closed(new) /\ Names(new) = Names(profiles[s])
    <2>1. Closed(new) /\ Names(new) = Names(profiles[s]) \cup {p}
      BY <1>1, <1>2, PutObject
    <2> QED BY <1>1, <2>1
  <1>4. profiles' = [profiles EXCEPT ![s] = new]
    OBVIOUS
  <1> HIDE DEF p, new
  <1>5. /\ profiles' \in [Servers -> Maps] /\ FollowersKnown'
        /\ KnownAt(s)' = Names(new)
        /\ \A r \in Servers \ {s} : KnownAt(r)' = KnownAt(r)
    BY <1>3, <1>4, MapChanges
  <1>6. /\ pc' \in [Threads -> Locations] /\ pc'[k] = l
        /\ \A u \in Threads \ {k} : pc'[u] = pc[u]
        /\ at' \in [Clients -> Servers] /\ at'[k] = s
        /\ \A c \in Clients \ {k} : at'[c] = at[c]
    BY Members DEF Types, Kinds, Locations
  <1>7. Kinds'
    BY <1>5, <1>6 DEF Types, Kinds, listVars, netVars
  <1>8. PacketsOK'
    BY <1>6, Members DEF Types, PacketsOK, netVars
  <1>9. Places'
    BY <1>6, Members DEF Types, Places
  <1>10. \A r \in Servers : KnownAt(r) = {q \in ProfileIds : profiles'[r][q] # nullptr}
    <2> TAKE r \in Servers
    <2>1. KnownAt(r)' = {q \in ProfileIds : profiles'[r][q] # nullptr}
      BY DEF KnownAt
    <2>2. profiles'[s] = new /\ (r # s => profiles'[r] = profiles[r])
      BY <1>4 DEF Types, Kinds
    <2> QED BY <1>3, <2>2 DEF KnownAt, Names
  <1>11. LoggedIn'
    <2> SUFFICES ASSUME NEW c \in Clients, pc'[c] \in {"forward", "fetch", "idle", "closing"},
                        up[at'[c]] = "serving"
                 PROVE  profileOf[c] \in {q \in ProfileIds : profiles'[at'[c]][q] # nullptr}
      BY DEF LoggedIn, KnownAt
    <2>1. profileOf[c] \in KnownAt(at'[c])
      BY <1>6, Members DEF Types, LoggedIn
    <2> QED BY <1>6, <1>10, <2>1
  <1> QED BY <1>5, <1>7, <1>8, <1>9, <1>11 DEF Types

LEMMA FetchTypes ==
  ASSUME Types, NEW k \in Clients, Fetch(k)
  PROVE  Types'
  <1> DEFINE s == at[k]
             p == profileOf[k]
  <1>1. /\ pc[k] = "fetch" /\ up[s] = "serving"
        /\ profiles' = [profiles EXCEPT ![s][p] = emptied(@)]
        /\ pc' = [pc EXCEPT ![k] = "idle"]
        /\ UNCHANGED <<up, leaked, counted, listVars, netVars, at, packet, i, inputs, raced>>
    BY DEF Fetch
  <1>2. s \in Servers /\ p \in KnownAt(s) /\ (up[primary] = "serving" => s = primary)
    BY <1>1 DEF Types, Kinds, LoggedIn, Places
  <1>3. profiles[s][p] \in Objects
    BY <1>2, KnownNames, NamesObject DEF Types, Kinds, Names
  <1>4. emptied(profiles[s][p]) \in Objects /\ emptied(profiles[s][p]).followers = profiles[s][p].followers
    BY <1>3, Emptied
  <1>5. profiles' = [profiles EXCEPT ![s] = [profiles[s] EXCEPT ![p] = emptied(profiles[s][p])]]
    BY <1>1, <1>2 DEF Types, Kinds
  <1>6. at' = [at EXCEPT ![k] = s]
    BY <1>1 DEF Types, Kinds
  <1>7. packet[k] = nullptr
    BY <1>1, Members DEF Types, PacketsOK
  <1> QED BY <1>1, <1>2, <1>4, <1>5, <1>6, <1>7, ProfileChanges

LEMMA ReconnectTypes ==
  ASSUME Types, NEW k \in Clients, NEW s \in Servers, Reconnect(k, s)
  PROVE  Types'
  <1> DEFINE p == profileOf[k]
  <1>1. /\ pc[k] \notin {"out", "closing", "ended"} /\ up[at[k]] = "dead" /\ up[s] = "serving"
        /\ p \in KnownAt(s)
        /\ at' = [at EXCEPT ![k] = s]
        /\ profiles' = [profiles EXCEPT ![s][p] = updateSessionsOn(@, k)]
        /\ pc' = [pc EXCEPT ![k] = "fetch"]
        /\ UNCHANGED <<up, leaked, counted, listVars, netVars, packet, i, inputs, raced>>
    BY DEF Reconnect, Returns
  <1>2. up[primary] # "serving"
    BY <1>1 DEF Types, Places
  <1>3. profiles[s][p] \in Objects
    BY <1>1, KnownNames, NamesObject DEF Types, Kinds, Names
  <1>4. /\ updateSessionsOn(profiles[s][p], k) \in Objects
        /\ updateSessionsOn(profiles[s][p], k).followers = profiles[s][p].followers
    BY <1>3, UpdateSessionsOn DEF ConnsOrNull
  <1>5. profiles' = [profiles EXCEPT ![s] = [profiles[s] EXCEPT ![p] = updateSessionsOn(profiles[s][p], k)]]
    BY <1>1 DEF Types, Kinds
  <1>6. packet[k] = nullptr
    BY <1>1 DEF Types, Places
  <1> QED BY <1>1, <1>2, <1>4, <1>5, <1>6, ProfileChanges

LEMMA StartClientTypes ==
  ASSUME Types, NEW k \in Clients, NEW s \in Servers, StartClient(k, s)
  PROVE  Types'
  <1>1. /\ pc[k] = "out" /\ up[at[k]] = "dead" /\ up[s] = "serving"
        /\ at' = [at EXCEPT ![k] = s]
        /\ UNCHANGED <<up, mapVars, listVars, netVars, pc, packet, i, inputs, raced>>
    BY DEF StartClient
  <1>2. /\ at' \in [Clients -> Servers] /\ at'[k] = s
        /\ \A c \in Clients \ {k} : at'[c] = at[c]
    BY <1>1 DEF Types, Kinds
  <1>3. Kinds'
    BY <1>1, <1>2 DEF Types, Kinds, mapVars, listVars, netVars
  <1>4. PacketsOK'
    BY <1>1 DEF Types, PacketsOK, netVars
  <1>5. Places'
    <2>1. up[primary] # "serving"
      BY <1>1 DEF Types, Places
    <2> QED BY <1>1, <1>2, <2>1 DEF Types, Places
  <1>6. LoggedIn'
    BY <1>1, <1>2 DEF Types, LoggedIn, KnownAt, mapVars
  <1>7. FollowersKnown'
    BY <1>1 DEF Types, FollowersKnown, KnownAt, mapVars
  <1> QED BY <1>3, <1>4, <1>5, <1>6, <1>7 DEF Types

LEMMA SetBackupTypes ==
  ASSUME Types, NEW b \in Backups, SetBackup(b)
  PROVE  Types'
  <1>1. /\ up[b] = "off"
        /\ up' = [up EXCEPT ![b] = "backup"]
        /\ pc' = [pc EXCEPT ![b] = "joining"]
        /\ UNCHANGED <<mapVars, listVars, netVars, at, packet, i, inputs, raced>>
    BY DEF SetBackup
  <1>2. /\ up' \in [Servers -> {"off", "backup", "serving", "dead"}] /\ up'[b] = "backup"
        /\ \A s \in Servers \ {b} : up'[s] = up[s]
        /\ pc' \in [Threads -> Locations] /\ pc'[b] = "joining"
        /\ \A u \in Threads \ {b} : pc'[u] = pc[u]
    BY <1>1, Members DEF Types, Kinds, Locations
  <1>3. packet[b] = nullptr
    BY <1>1, Members DEF Types, PacketsOK, Places
  <1>4. Kinds'
    BY <1>1, <1>2 DEF Types, Kinds, mapVars, listVars, netVars
  <1>5. PacketsOK'
    BY <1>1, <1>2, <1>3, Members DEF Types, PacketsOK, netVars
  <1>6. \A k \in Clients : at[k] \in Servers /\ at[k] # b
    BY <1>1 DEF Types, Kinds, Places
  <1>7. Places'
    BY <1>1, <1>2, <1>6, Members DEF Types, Places
  <1>8. LoggedIn'
    BY <1>1, <1>2, <1>6, Members DEF Types, LoggedIn, KnownAt, mapVars
  <1>9. FollowersKnown'
    BY <1>1 DEF Types, FollowersKnown, KnownAt, mapVars
  <1> QED BY <1>4, <1>5, <1>7, <1>8, <1>9 DEF Types

LEMMA JoinTypes ==
  ASSUME Types, NEW b \in Backups, Join(b)
  PROVE  Types'
  <1> DEFINE pkt == Packet("BACKUP_PROPAGATION", electionServerList'[primary], nullptr, nullptr)
  <1>1. /\ pc[b] = "joining" /\ up[primary] = "serving"
        /\ \/ /\ listBackups' = [listBackups EXCEPT ![primary] = Append(@, b)]
              /\ early' = IF KnownAt(primary) = {} THEN early \cup {b} ELSE early
           \/ UNCHANGED <<listBackups, early>>
        /\ \/ electionServerList' = [electionServerList EXCEPT ![primary] = Append(@, b)]
           \/ UNCHANGED electionServerList
        /\ UNCHANGED <<up, mapVars, netVars, at, inputs>>
    BY DEF Join
  <1>2. StartForward(b, pkt)
    BY DEF Join, serverListToString
  <1>3. /\ listBackups' \in [Servers -> Seq(Backups)] /\ early' \subseteq Backups
        /\ electionServerList' \in [Servers -> Seq(Backups)]
    <2>1. /\ listBackups \in [Servers -> Seq(Backups)] /\ early \subseteq Backups
          /\ electionServerList \in [Servers -> Seq(Backups)]
      BY DEF Types, Kinds
    <2>2. /\ Append(listBackups[primary], b) \in Seq(Backups)
          /\ Append(electionServerList[primary], b) \in Seq(Backups)
      BY <2>1, Members
    <2>3. listBackups' \in [Servers -> Seq(Backups)] /\ early' \subseteq Backups
      BY <1>1, <2>1, <2>2
    <2>4. electionServerList' \in [Servers -> Seq(Backups)]
      BY <1>1, <2>1, <2>2
    <2> QED BY <2>3, <2>4
  <1>4. pkt \in Packets /\ IsList(pkt) /\ pkt.cmd # "SEND" /\ pkt.cmd # "CLOSE_CONN"
    <2>1. electionServerList'[primary] \in Seq(Backups)
      BY <1>3, Members
    <2> QED BY <2>1 DEF Packet, Packets, Payloads, Commands, IsList
  <1>5. b \in Threads /\ ServerOf(b) = primary /\ WellFormed(pkt)
    BY <1>4, Members DEF ServerOf, WellFormed
  <1> HIDE DEF pkt
  <1>6. /\ pc' \in [Threads -> Locations] /\ pc'[b] = "forward"
        /\ packet' \in [Threads -> Packets \cup {nullptr}]
        /\ packet'[b] = pkt
        /\ i' \in [Threads -> Nat \ {0}]
        /\ \A u \in Threads \ {b} : pc'[u] = pc[u] /\ packet'[u] = packet[u]
        /\ raced' \subseteq ProfileIds \cup {nullptr}
    BY <1>1, <1>2, <1>4, <1>5, StartForwardTypes
  <1>7. Kinds'
    BY <1>1, <1>3, <1>6 DEF Types, Kinds, mapVars, netVars
  <1>8. PacketsOK'
    BY <1>1, <1>4, <1>6, PacketIsNotNull, Members DEF Types, PacketsOK, netVars
  <1>9. Places'
    BY <1>1, <1>6, Members DEF Types, Places
  <1>10. LoggedIn'
    BY <1>1, <1>6, Members DEF Types, LoggedIn, KnownAt, mapVars
  <1>11. FollowersKnown'
    BY <1>1 DEF Types, FollowersKnown, KnownAt, mapVars
  <1> QED BY <1>7, <1>8, <1>9, <1>10, <1>11 DEF Types

(* What Tail leaves. *)
LEMMA Taken ==
  ASSUME Types, NEW b \in Backups, Receives(b)
  PROVE  /\ b \in Servers /\ Head(queue[b]) \in Packets /\ WellFormed(Head(queue[b]))
         /\ Tail(queue[b]) \in Seq(Packets)
         /\ queue[b] \in Seq(Packets) /\ Len(queue[b]) \in Nat \ {0}
         /\ Head(queue[b]) = queue[b][1]
         /\ Len(Tail(queue[b])) = Len(queue[b]) - 1
         /\ \A j \in 1 .. Len(queue[b]) - 1 : Tail(queue[b])[j] = queue[b][j + 1]
         /\ \A j \in DOMAIN Tail(queue[b]) : WellFormed(Tail(queue[b])[j])
  <1>1. queue[b] \in Seq(Packets) /\ queue[b] # <<>>
    BY DEF Types, Kinds, Receives
  <1>2. \A j \in 1 .. Len(queue[b]) : WellFormed(queue[b][j])
    BY <1>1 DEF Types, PacketsOK
  <1> DEFINE q == queue[b]
  <1>3. /\ q \in Seq(Packets) /\ q # <<>>
        /\ \A j \in 1 .. Len(q) : WellFormed(q[j])
    BY <1>1, <1>2
  <1> HIDE DEF q
  <1>4. /\ Head(q) = q[1] /\ Tail(q) \in Seq(Packets) /\ Len(q) \in Nat \ {0}
        /\ Len(Tail(q)) = Len(q) - 1
        /\ \A j \in 1 .. Len(q) - 1 : Tail(q)[j] = q[j + 1]
    BY <1>3
  <1>5. Head(q) \in Packets /\ WellFormed(Head(q))
    BY <1>3, <1>4
  <1>6. \A j \in DOMAIN Tail(q) : WellFormed(Tail(q)[j])
    <2> TAKE j \in DOMAIN Tail(q)
    <2>1. j \in 1 .. Len(q) - 1
      BY <1>4
    <2>2. j + 1 \in 1 .. Len(q)
      BY <1>4, <2>1
    <2> QED BY <1>3, <1>4, <2>1, <2>2
  <1> QED BY <1>3, <1>4, <1>5, <1>6, Members DEF q

LEMMA ApplyTypes ==
  ASSUME Types, NEW b \in Backups, Apply(b)
  PROVE  Types'
  <1> DEFINE pkt == Head(queue[b])
             new == processPacket(profiles[b], nullptr, pkt)
  <1>1. /\ Receives(b) /\ ~Dereferences(profiles[b], pkt)
        /\ queue' = [queue EXCEPT ![b] = Tail(@)]
        /\ profiles' = [profiles EXCEPT ![b] = new]
        /\ counted' = [counted EXCEPT ![b] = countedAfter(@, pkt)]
        /\ electionServerList' = IF pkt.cmd = "BACKUP_PROPAGATION"
                                 THEN [electionServerList EXCEPT ![b] = pkt.payload]
                                 ELSE electionServerList
        /\ UNCHANGED <<up, leaked, listBackups, early, link, threadVars, inputs, raced>>
    BY DEF Apply
  <1>2. /\ b \in Servers /\ pkt \in Packets /\ WellFormed(pkt)
        /\ Tail(queue[b]) \in Seq(Packets)
        /\ \A j \in DOMAIN Tail(queue[b]) : WellFormed(Tail(queue[b])[j])
    BY <1>1, Taken
  <1> HIDE DEF pkt
  <1>3. Closed(profiles[b]) /\ nullptr \in ConnsOrNull
    BY <1>2, MapsClosed DEF ConnsOrNull
  <1>4. SenderKnown(profiles[b], pkt)
    <2> SUFFICES ASSUME pkt.cmd \in {"FOLLOW", "SEND", "CLOSE_CONN"}
                 PROVE  pkt.sender \in Names(profiles[b])
      BY DEF SenderKnown
    <2>1. pkt.sender # nullptr /\ profiles[b][pkt.sender] # nullptr
      BY <1>1 DEF Dereferences
    <2>2. pkt.sender \in ProfileIds
      BY <1>2, <2>1 DEF Packets
    <2> QED BY <2>1, <2>2 DEF Names
  <1>5. Closed(new) /\ Names(profiles[b]) \subseteq Names(new)
    BY <1>2, <1>3, <1>4, Process
  <1> HIDE DEF new
  <1>6. /\ profiles' \in [Servers -> Maps] /\ FollowersKnown'
        /\ KnownAt(b)' = Names(new)
        /\ \A r \in Servers \ {b} : KnownAt(r)' = KnownAt(r)
    BY <1>1, <1>2, <1>5, MapChanges
  <1>7. counted' \in [Servers -> SUBSET Clients]
    <2>1. counted[b] \subseteq Clients /\ counted \in [Servers -> SUBSET Clients]
      BY <1>2 DEF Types, Kinds
    <2>2. pkt.cmd = "PROFILE" => pkt.client \in Clients
      BY <1>2 DEF WellFormed, FromClient, IsList
    <2>3. countedAfter(counted[b], pkt) \subseteq Clients
      BY <2>1, <2>2 DEF countedAfter
    <2> QED BY <1>1, <2>1, <2>3
  <1>8. electionServerList' \in [Servers -> Seq(Backups)]
    <2>1. electionServerList \in [Servers -> Seq(Backups)]
      BY DEF Types, Kinds
    <2>2. pkt.cmd = "BACKUP_PROPAGATION" => pkt.payload \in Seq(Backups)
      BY <1>2 DEF WellFormed, FromClient, IsList
    <2> QED BY <1>1, <2>1, <2>2
  <1>9. /\ queue' \in [Backups -> Seq(Packets)] /\ queue'[b] = Tail(queue[b])
        /\ \A c \in Backups \ {b} : queue'[c] = queue[c]
    BY <1>1, <1>2 DEF Types, Kinds
  <1>10. Kinds'
    BY <1>1, <1>6, <1>7, <1>8, <1>9 DEF Types, Kinds, threadVars
  <1>11. PacketsOK'
    <2>1. \A c \in Backups : \A j \in DOMAIN queue'[c] : WellFormed(queue'[c][j])
      BY <1>2, <1>9 DEF Types, PacketsOK
    <2> QED BY <1>1, <2>1 DEF Types, PacketsOK, threadVars
  <1>12. Places'
    BY <1>1 DEF Types, Places, threadVars
  <1>13. LoggedIn'
    <2> SUFFICES ASSUME NEW k \in Clients, pc[k] \in {"forward", "fetch", "idle", "closing"},
                        up[at[k]] = "serving"
                 PROVE  profileOf[k] \in {p \in ProfileIds : profiles'[at[k]][p] # nullptr}
      BY <1>1 DEF LoggedIn, KnownAt, threadVars
    <2>1. at[k] \in Servers /\ at[k] # b
      BY <1>1 DEF Types, Kinds, Receives
    <2>2. profiles'[at[k]] = profiles[at[k]]
      BY <1>1, <2>1 DEF Types, Kinds
    <2> QED BY <2>2 DEF Types, LoggedIn, KnownAt
  <1> QED BY <1>6, <1>10, <1>11, <1>12, <1>13 DEF Types

LEMMA PromoteTypes ==
  ASSUME Types, NEW b \in Backups, Promote(b)
  PROVE  Types'
  <1>1. /\ up[b] = "backup" /\ up[primary] = "dead"
        /\ up' = [up EXCEPT ![b] = "serving"]
        /\ UNCHANGED <<mapVars, listVars, netVars, threadVars, inputs, raced>>
    BY DEF Promote
  <1>2. /\ up' \in [Servers -> {"off", "backup", "serving", "dead"}] /\ up'[b] = "serving"
        /\ \A s \in Servers \ {b} : up'[s] = up[s]
    BY <1>1, Members DEF Types, Kinds
  <1>3. \A k \in Clients : at[k] \in Servers /\ at[k] # b
    BY <1>1 DEF Types, Kinds, Places
  <1>4. Kinds'
    BY <1>1, <1>2 DEF Types, Kinds, mapVars, listVars, netVars, threadVars
  <1>5. PacketsOK'
    BY <1>1 DEF Types, PacketsOK, netVars, threadVars
  <1>6. Places'
    BY <1>1, <1>2, <1>3, Members DEF Types, Places, threadVars
  <1>7. LoggedIn'
    BY <1>1, <1>2, <1>3 DEF Types, LoggedIn, KnownAt, mapVars, threadVars
  <1>8. FollowersKnown'
    BY <1>1 DEF Types, FollowersKnown, KnownAt, mapVars
  <1> QED BY <1>4, <1>5, <1>6, <1>7, <1>8 DEF Types

LEMMA OtherDeathsTypes ==
  ASSUME Types
  PROVE  /\ \A k \in Clients : FetchDies(k) => Types'
         /\ \A k \in Clients : \A s \in Servers : ReconnectDies(k, s) => Types'
         /\ \A b \in Backups : JoinDies(b) => Types'
         /\ \A b \in Backups : ApplyDies(b) => Types'
         /\ Kill => Types'
  <1>1. ASSUME NEW s \in Servers, Death(s), UNCHANGED netVars PROVE Types'
    BY <1>1, DeathTypes DEF Types, Kinds, netVars
  <1>2. ASSUME NEW b \in Backups, ApplyDies(b) PROVE Types'
    <2>1. /\ Death(b)
          /\ queue' = [queue EXCEPT ![b] = <<>>]
          /\ link' = [link EXCEPT ![b] = "gone"]
      BY <1>2 DEF ApplyDies
    <2>2. <<>> \in Seq(Packets)
      OBVIOUS
    <2>3. queue' \in [Backups -> Seq(Packets)] /\ \A c \in Backups : queue'[c] = queue[c] \/ queue'[c] = <<>>
      BY <2>1, <2>2 DEF Types, Kinds
    <2>4. link' \in [Backups -> {"open", "gone", "reset"}]
      BY <2>1 DEF Types, Kinds
    <2> QED BY <2>1, <2>3, <2>4, Members, DeathTypes
  <1>3. \A k \in Clients : at[k] \in Servers
    BY DEF Types, Kinds
  <1> QED
    BY <1>1, <1>2, <1>3, Members DEF FetchDies, ReconnectDies, JoinDies, Kill

LEMMA NextTypes == Types /\ [Next]_vars => Types'
  <1> SUFFICES ASSUME Types, [Next]_vars PROVE Types'
    OBVIOUS
  <1>1. ASSUME NEW t \in Threads, Proceed(t) PROVE Types'
    BY <1>1, ForwardTypes, ForwardDiesTypes, EndForwardTypes DEF Proceed
  <1>2. ASSUME NEW b \in Backups, SetBackup(b) \/ Backup(b) PROVE Types'
    BY <1>2, SetBackupTypes, JoinTypes, ApplyTypes, PromoteTypes, OtherDeathsTypes DEF Backup
  <1>3. ASSUME NEW k \in Clients, Welcome(k) PROVE Types'
    BY <1>3, FetchTypes, OtherDeathsTypes DEF Welcome
  <1>4. ASSUME NEW k \in Clients, ClientStep(k) PROVE Types'
    BY <1>4, LoginTypes, LoginRefusedTypes, FollowTypes, TweetTypes, CloseTypes,
       ReconnectTypes, StartClientTypes, OtherDeathsTypes DEF ClientStep
  <1>5. CASE Kill
    BY <1>5, OtherDeathsTypes
  <1>6. CASE UNCHANGED vars
    BY <1>6 DEF vars, mapVars, listVars, netVars, threadVars, Types, Kinds, PacketsOK,
       Places, LoggedIn, FollowersKnown, KnownAt
  <1> QED BY <1>1, <1>2, <1>3, <1>4, <1>5, <1>6 DEF Next

-----------------------------------------------------------------------------
(* The lists of addresses.                                                  *)

BP == "BACKUP_PROPAGATION"

LEMMA LastListAppend ==
  ASSUME NEW q \in Seq(Packets), NEW pkt \in Packets, NEW own, NEW l
  PROVE  /\ pkt.cmd # BP /\ LastList(q, own, l) => LastList(Append(q, pkt), own, l)
         /\ pkt.cmd = BP /\ pkt.payload = l => LastList(Append(q, pkt), own, l)
  <1> DEFINE r == Append(q, pkt)
             n == Len(q)
  <1>1. /\ n \in Nat /\ DOMAIN q = 1 .. n /\ DOMAIN r = 1 .. n + 1
        /\ r[n + 1] = pkt /\ \A j \in 1 .. n : r[j] = q[j]
        /\ \A j \in 1 .. n + 1 : j \in 1 .. n \/ j = n + 1
    OBVIOUS
  <1> HIDE DEF r, n
  <1>2. ASSUME pkt.cmd # BP, LastList(q, own, l) PROVE LastList(r, own, l)
    <2>1. CASE (\A j \in DOMAIN q : q[j].cmd # BP) /\ own = l
      <3>1. \A j \in DOMAIN r : r[j].cmd # BP
        BY <1>1, <1>2, <2>1
      <3> QED BY <2>1, <3>1 DEF LastList, BP
    <2>2. CASE \E j \in DOMAIN q : /\ q[j].cmd = BP /\ q[j].payload = l
                                   /\ \A m \in DOMAIN q : m > j => q[m].cmd # BP
      <3>1. PICK j \in 1 .. n : /\ q[j].cmd = BP /\ q[j].payload = l
                                /\ \A m \in 1 .. n : m > j => q[m].cmd # BP
        BY <1>1, <2>2
      <3>2. j \in DOMAIN r /\ r[j].cmd = BP /\ r[j].payload = l
        BY <1>1, <3>1
      <3>3. \A m \in DOMAIN r : m > j => r[m].cmd # BP
        BY <1>1, <1>2, <3>1
      <3> QED BY <3>2, <3>3 DEF LastList, BP
    <2> QED BY <1>2, <2>1, <2>2 DEF LastList, BP
  <1>3. ASSUME pkt.cmd = BP, pkt.payload = l PROVE LastList(r, own, l)
    <2>1. n + 1 \in DOMAIN r /\ r[n + 1].cmd = BP /\ r[n + 1].payload = l
      BY <1>1, <1>3
    <2>2. \A m \in DOMAIN r : m > n + 1 => r[m].cmd # BP
      BY <1>1
    <2> QED BY <2>1, <2>2 DEF LastList, BP
  <1> QED BY <1>2, <1>3 DEF r

LEMMA LastListTail ==
  ASSUME NEW q \in Seq(Packets), q # <<>>, NEW own, NEW l, LastList(q, own, l)
  PROVE  LastList(Tail(q), IF Head(q).cmd = BP THEN Head(q).payload ELSE own, l)
  <1> DEFINE r == Tail(q)
             n == Len(q)
             mine == IF Head(q).cmd = BP THEN Head(q).payload ELSE own
  <1>1. /\ n \in Nat /\ n >= 1 /\ DOMAIN q = 1 .. n /\ DOMAIN r = 1 .. n - 1
        /\ Head(q) = q[1] /\ \A j \in 1 .. n - 1 : r[j] = q[j + 1]
        /\ \A j \in 1 .. n : j = 1 \/ (j - 1 \in 1 .. n - 1 /\ (j - 1) + 1 = j)
        /\ \A j \in 1 .. n - 1 : j + 1 \in 1 .. n /\ j + 1 > 1
    OBVIOUS
  <1> HIDE DEF r, n
  <1>2. CASE (\A j \in DOMAIN q : q[j].cmd # BP) /\ own = l
    <2>1. q[1].cmd # BP /\ mine = l
      BY <1>1, <1>2
    <2>2. \A j \in DOMAIN r : r[j].cmd # BP
      BY <1>1, <1>2
    <2> QED BY <2>1, <2>2 DEF LastList, BP, r
  <1>3. CASE \E j \in DOMAIN q : /\ q[j].cmd = BP /\ q[j].payload = l
                                 /\ \A m \in DOMAIN q : m > j => q[m].cmd # BP
    <2>1. PICK j \in 1 .. n : /\ q[j].cmd = BP /\ q[j].payload = l
                              /\ \A m \in 1 .. n : m > j => q[m].cmd # BP
      BY <1>1, <1>3
    <2>2. CASE j = 1
      <3>1. mine = l
        BY <1>1, <2>1, <2>2
      <3>2. \A m \in DOMAIN r : r[m].cmd # BP
        BY <1>1, <2>1, <2>2
      <3> QED BY <3>1, <3>2 DEF LastList, BP, r
    <2>3. CASE j # 1
      <3> DEFINE k == j - 1
      <3>1. k \in 1 .. n - 1 /\ k + 1 = j
        BY <1>1, <2>3
      <3> HIDE DEF k
      <3>2. k \in DOMAIN r /\ r[k].cmd = BP /\ r[k].payload = l
        BY <1>1, <2>1, <3>1
      <3>3. \A m \in DOMAIN r : m > k => r[m].cmd # BP
        <4> TAKE m \in DOMAIN r
        <4> HAVE m > k
        <4>1. m + 1 \in 1 .. n /\ m + 1 > j /\ r[m] = q[m + 1]
          BY <1>1, <3>1
        <4> QED BY <2>1, <4>1
      <3> HIDE DEF mine
      <3>4. LastList(r, mine, l)
        BY <3>2, <3>3 DEF LastList, BP
      <3> QED BY <3>4 DEF mine, r
    <2> QED BY <2>2, <2>3
  <1> QED BY <1>2, <1>3 DEF LastList, BP

LEMMA InitLists == Init => Registered /\ ListsOK
  <1> SUFFICES ASSUME Init PROVE Registered /\ ListsOK
    OBVIOUS
  <1>1. listBackups[primary] = <<>> /\ \A b \in Backups : packet[b] = nullptr
    BY Members DEF Init
  <1>2. DOMAIN listBackups[primary] = {}
    BY <1>1
  <1> QED BY <1>1, <1>2 DEF Registered, ListsOK

LEMMA ListedBackup ==
  ASSUME Types, NEW x \in DOMAIN listBackups[primary]
  PROVE  /\ listBackups[primary][x] \in Backups
         /\ x \in Nat /\ x <= Len(listBackups[primary])
  <1>1. listBackups[primary] \in Seq(Backups)
    BY Members DEF Types, Kinds
  <1> QED BY <1>1

(* Steps that have nothing to do with the lists. *)
LEMMA QuietLists ==
  ASSUME IInv, raced \subseteq raced',
         up'[primary] = "serving" =>
           /\ up[primary] = "serving"
           /\ listBackups'[primary] = listBackups[primary]
           /\ electionServerList'[primary] = electionServerList[primary]
           /\ \A b \in Backups : packet'[b] = packet[b] /\ i'[b] = i[b]
           /\ \A b \in Backups :
                up'[b] = "backup" /\ pc[b] # "out" =>
                  /\ up[b] = "backup" /\ queue'[b] = queue[b]
                  /\ electionServerList'[b] = electionServerList[b]
  PROVE  ListsOK'
  <1> SUFFICES ASSUME up'[primary] = "serving", nullptr \notin raced'
               PROVE  /\ \A b, c \in Backups : packet'[b] # nullptr /\ packet'[c] # nullptr => b = c
                      /\ \A b \in Backups : packet'[b] # nullptr => packet'[b].payload = electionServerList'[primary]
                      /\ \A x \in DOMAIN listBackups'[primary] :
                           up'[listBackups'[primary][x]] = "backup" =>
                             \/ LastList(queue'[listBackups'[primary][x]],
                                         electionServerList'[listBackups'[primary][x]],
                                         electionServerList'[primary])
                             \/ \E b \in Backups : packet'[b] # nullptr /\ i'[b] <= x
    BY DEF ListsOK, WillAgree
  <1>1. ListsOK /\ up[primary] = "serving" /\ nullptr \notin raced
    BY DEF IInv
  <1>2. ASSUME NEW x \in DOMAIN listBackups[primary], up'[listBackups[primary][x]] = "backup"
        PROVE  \/ LastList(queue'[listBackups[primary][x]], electionServerList'[listBackups[primary][x]],
                           electionServerList'[primary])
               \/ \E b \in Backups : packet'[b] # nullptr /\ i'[b] <= x
    <2> DEFINE b == listBackups[primary][x]
    <2>1. b \in Backups /\ pc[b] # "out"
      BY ListedBackup DEF IInv, Registered
    <2>2. up[b] = "backup" /\ queue'[b] = queue[b] /\ electionServerList'[b] = electionServerList[b]
      BY <1>2, <2>1
    <2>3. WillAgree(b) \/ \E c \in Backups : packet[c] # nullptr /\ i[c] <= x
      BY <1>1, <2>2 DEF ListsOK
    <2> QED BY <2>2, <2>3 DEF WillAgree
  <1>3. /\ listBackups'[primary] = listBackups[primary]
        /\ electionServerList'[primary] = electionServerList[primary]
        /\ \A b \in Backups : packet'[b] = packet[b]
    BY <1>1
  <1> QED BY <1>1, <1>2, <1>3 DEF ListsOK

LEMMA QuietRegistered ==
  ASSUME IInv, \A b \in Backups : pc[b] # "out" => pc'[b] # "out",
         listBackups'[primary] = listBackups[primary] \/ listBackups'[primary] = <<>>
  PROVE  Registered'
  <1>1. CASE listBackups'[primary] = listBackups[primary]
    BY <1>1, ListedBackup DEF IInv, Registered
  <1>2. CASE listBackups'[primary] = <<>>
    <2>1. DOMAIN listBackups'[primary] = {}
      BY <1>2
    <2> QED BY <2>1 DEF Registered
  <1> QED BY <1>1, <1>2

ListsInv == Registered /\ ListsOK

LEMMA StartForwardLists ==
  ASSUME IInv, NEW k \in Clients, NEW pkt, StartForward(k, pkt),
         UNCHANGED <<up, listVars, netVars>>
  PROVE  ListsInv'
  <1>1. /\ \A b \in Backups : packet'[b] = packet[b] /\ i'[b] = i[b] /\ pc'[b] = pc[b]
        /\ raced \subseteq raced'
    BY Members DEF StartForward, IInv, Types, Kinds
  <1>2. ListsOK'
    BY <1>1, QuietLists DEF listVars, netVars
  <1>3. Registered'
    BY <1>1, QuietRegistered DEF listVars
  <1> QED BY <1>2, <1>3 DEF ListsInv

LEMMA ClientLists ==
  ASSUME IInv, NEW k \in Clients, NEW l \in Locations, pc' = [pc EXCEPT ![k] = l] \/ pc' = pc,
         UNCHANGED <<up, listVars, netVars, packet, i, raced>>
  PROVE  ListsInv'
  <1>1. \A b \in Backups : pc'[b] = pc[b]
    BY Members DEF IInv, Types, Kinds
  <1>2. ListsOK'
    BY QuietLists DEF listVars, netVars
  <1>3. Registered'
    BY <1>1, QuietRegistered DEF listVars
  <1> QED BY <1>2, <1>3 DEF ListsInv

LEMMA ClientStepLists ==
  ASSUME IInv, NEW k \in Clients
  PROVE  /\ Login(k) => ListsInv'
         /\ LoginRefused(k) => ListsInv'
         /\ \A p : Follow(k, p) => ListsInv'
         /\ Tweet(k) => ListsInv'
         /\ Close(k) => ListsInv'
         /\ Fetch(k) => ListsInv'
         /\ \A s : Reconnect(k, s) => ListsInv'
         /\ \A s : StartClient(k, s) => ListsInv'
  <1>1. ASSUME NEW pkt, CarryOut(k, pkt) PROVE ListsInv'
    BY <1>1, StartForwardLists DEF CarryOut
  <1>2. ASSUME Close(k) PROVE ListsInv'
    <2>1. /\ UNCHANGED <<up, listVars, netVars>>
          /\ \E pkt : StartForward(k, pkt)
      BY <1>2 DEF Close
    <2> QED BY <2>1, StartForwardLists
  <1>3. {"ended", "idle", "fetch"} \subseteq Locations
    BY DEF Locations
  <1>4. LoginRefused(k) => ListsInv'
    BY <1>3, ClientLists DEF LoginRefused
  <1>5. Fetch(k) => ListsInv'
    BY <1>3, ClientLists DEF Fetch
  <1>6. \A s : Reconnect(k, s) => ListsInv'
    BY <1>3, ClientLists DEF Reconnect
  <1>7. \A s : StartClient(k, s) => ListsInv'
    BY <1>3, ClientLists DEF StartClient
  <1>8. /\ Login(k) => ListsInv'
        /\ \A p : Follow(k, p) => ListsInv'
        /\ Tweet(k) => ListsInv'
    BY <1>1 DEF Login, Follow, Tweet, Command
  <1> QED BY <1>2, <1>4, <1>5, <1>6, <1>7, <1>8

LEMMA DeathLists ==
  ASSUME IInv, NEW s \in Servers, Death(s),
         \A b \in Backups \ {s} : queue'[b] = queue[b]
  PROVE  ListsInv'
  <1>1. /\ up' = [up EXCEPT ![s] = "dead"]
        /\ listBackups' = [listBackups EXCEPT ![s] = <<>>]
        /\ electionServerList' = [electionServerList EXCEPT ![s] = <<>>]
        /\ packet' = [t \in Threads |-> IF ServerOf(t) = s THEN nullptr ELSE packet[t]]
        /\ i' = [t \in Threads |-> IF ServerOf(t) = s THEN 1 ELSE i[t]]
        /\ pc' = [t \in Threads |->
                     IF ServerOf(t) # s \/ pc[t] = "out" THEN pc[t]
                     ELSE IF t \in Backups \/ pc[t] \in {"closing", "ended"} THEN "ended"
                     ELSE "idle"]
        /\ raced' = raced
    BY DEF Death
  <1>2. \A b \in Backups : pc[b] # "out" => pc'[b] # "out"
    BY <1>1, Members
  <1>3. listBackups'[primary] = listBackups[primary] \/ listBackups'[primary] = <<>>
    BY <1>1, Members DEF IInv, Types, Kinds
  <1>4. Registered'
    BY <1>2, <1>3, QuietRegistered
  <1>5. ASSUME up'[primary] = "serving"
        PROVE  /\ up[primary] = "serving"
               /\ listBackups'[primary] = listBackups[primary]
               /\ electionServerList'[primary] = electionServerList[primary]
               /\ \A b \in Backups : packet'[b] = packet[b] /\ i'[b] = i[b]
               /\ \A b \in Backups :
                    up'[b] = "backup" /\ pc[b] # "out" =>
                      /\ up[b] = "backup" /\ queue'[b] = queue[b]
                      /\ electionServerList'[b] = electionServerList[b]
    <2>1. s # primary /\ up[primary] = "serving"
      BY <1>1, <1>5, Members DEF IInv, Types, Kinds
    <2>2. \A b \in Backups : ServerOf(b) = primary
      BY Members DEF ServerOf
    <2>3. \A b \in Backups : packet'[b] = packet[b] /\ i'[b] = i[b]
      BY <1>1, <2>1, <2>2, Members
    <2>4. /\ listBackups'[primary] = listBackups[primary]
          /\ electionServerList'[primary] = electionServerList[primary]
      BY <1>1, <2>1, Members DEF IInv, Types, Kinds
    <2>5. \A b \in Backups : up'[b] = "backup" =>
            b # s /\ up[b] = "backup" /\ electionServerList'[b] = electionServerList[b]
      BY <1>1, Members DEF IInv, Types, Kinds
    <2> QED BY <2>1, <2>3, <2>4, <2>5
  <1>6. ListsOK'
    BY <1>1, <1>5, QuietLists
  <1> QED BY <1>4, <1>6 DEF ListsInv

LEMMA DeathsLists ==
  ASSUME IInv
  PROVE  /\ \A t \in Threads : ForwardDies(t) => ListsInv'
         /\ \A k \in Clients : FetchDies(k) => ListsInv'
         /\ \A k \in Clients : \A s \in Servers : ReconnectDies(k, s) => ListsInv'
         /\ \A b \in Backups : JoinDies(b) => ListsInv'
         /\ \A b \in Backups : ApplyDies(b) => ListsInv'
         /\ Kill => ListsInv'
  <1>1. ASSUME NEW s \in Servers, Death(s), UNCHANGED netVars PROVE ListsInv'
    BY <1>1, DeathLists DEF netVars
  <1>2. ASSUME NEW b \in Backups, ApplyDies(b) PROVE ListsInv'
    <2>1. Death(b) /\ queue' = [queue EXCEPT ![b] = <<>>]
      BY <1>2 DEF ApplyDies
    <2>2. \A c \in Backups \ {b} : queue'[c] = queue[c]
      BY <2>1 DEF IInv, Types, Kinds
    <2> QED BY <2>1, <2>2, Members, DeathLists
  <1>3. \A k \in Clients : at[k] \in Servers
    BY DEF IInv, Types, Kinds
  <1>4. \A t \in Threads : ServerOf(t) \in Servers
    BY ServerOfOK DEF IInv, Types
  <1> QED
    BY <1>1, <1>2, <1>3, <1>4, Members DEF ForwardDies, FetchDies, ReconnectDies, JoinDies, Kill

LEMMA BackupStepLists ==
  ASSUME IInv, NEW b \in Backups
  PROVE  /\ SetBackup(b) => ListsInv'
         /\ Promote(b) => ListsInv'
  <1>1. ASSUME SetBackup(b) PROVE ListsInv'
    <2>1. /\ up[b] = "off" /\ up' = [up EXCEPT ![b] = "backup"]
          /\ pc' = [pc EXCEPT ![b] = "joining"]
          /\ UNCHANGED <<listVars, netVars, packet, i, raced>>
      BY <1>1 DEF SetBackup
    <2>2. pc[b] = "out"
      BY <2>1 DEF IInv, Types, Places
    <2>3. \A c \in Backups \ {b} : up'[c] = up[c]
      BY <2>1 DEF IInv, Types, Kinds
    <2>4. up'[primary] = up[primary]
      BY <2>1, Members DEF IInv, Types, Kinds
    <2>5. ListsOK'
      BY <2>1, <2>2, <2>3, <2>4, QuietLists DEF listVars, netVars
    <2>6. \A c \in Backups : pc[c] # "out" => pc'[c] # "out"
      BY <2>1, Members DEF IInv, Types, Kinds
    <2>7. Registered'
      BY <2>1, <2>6, QuietRegistered DEF listVars
    <2> QED BY <2>5, <2>7 DEF ListsInv
  <1>2. ASSUME Promote(b) PROVE ListsInv'
    <2>1. /\ up[primary] = "dead" /\ up' = [up EXCEPT ![b] = "serving"]
          /\ UNCHANGED <<listVars, threadVars, raced>>
      BY <1>2 DEF Promote
    <2>2. up'[primary] = "dead"
      BY <2>1, Members DEF IInv, Types, Kinds
    <2>3. ListsOK'
      BY <2>2 DEF ListsOK
    <2>4. Registered'
      BY <2>1, QuietRegistered DEF listVars, threadVars
    <2> QED BY <2>3, <2>4 DEF ListsInv
  <1> QED BY <1>1, <1>2

(* A list that is forwarded has reached the backups before the index: the one
   that is handed it will have it. *)
LEMMA ForwardLists ==
  ASSUME IInv, NEW t \in Threads, Forward(t)
  PROVE  ListsInv'
  <1> DEFINE b == NextBackup(t)
  <1>1. b \in Backups /\ packet[t] \in Packets
    BY AddressedBackup DEF Forward, IInv
  <1>2. /\ Forwarding(t) /\ i' = [i EXCEPT ![t] = @ + 1]
        /\ UNCHANGED <<up, listVars, pc, packet, raced>>
        /\ \/ up[b] # "dead" /\ queue' = [queue EXCEPT ![b] = Append(@, packet[t])]
           \/ up[b] = "dead" /\ UNCHANGED queue
    BY DEF Forward, MoreBackups
  <1>3. t \in Backups => b = listBackups[primary][i[t]]
    BY Members DEF NextBackup, ServerOf
  <1> HIDE DEF b
  <1>4. Registered'
    BY <1>2, QuietRegistered DEF listVars
  <1>5. /\ \A c \in Backups : c # b => queue'[c] = queue[c]
        /\ up[b] = "backup" => queue'[b] = Append(queue[b], packet[t])
        /\ queue[b] \in Seq(Packets)
    BY <1>1, <1>2 DEF IInv, Types, Kinds
  <1>6. /\ i'[t] = i[t] + 1 /\ i[t] \in Nat
        /\ \A c \in Backups : c # t => i'[c] = i[c]
    BY <1>2, Members DEF IInv, Types, Kinds
  <1>7. ListsOK'
    <2> SUFFICES ASSUME up'[primary] = "serving", nullptr \notin raced'
                 PROVE  /\ \A c, d \in Backups : packet'[c] # nullptr /\ packet'[d] # nullptr => c = d
                        /\ \A c \in Backups : packet'[c] # nullptr => packet'[c].payload = electionServerList'[primary]
                        /\ \A x \in DOMAIN listBackups'[primary] :
                             up'[listBackups'[primary][x]] = "backup" =>
                               \/ LastList(queue'[listBackups'[primary][x]],
                                           electionServerList'[listBackups'[primary][x]],
                                           electionServerList'[primary])
                               \/ \E c \in Backups : packet'[c] # nullptr /\ i'[c] <= x
      BY DEF ListsOK, WillAgree
    <2>1. ListsOK /\ up[primary] = "serving" /\ nullptr \notin raced
      BY <1>2 DEF IInv
    <2>2. /\ \A c, d \in Backups : packet[c] # nullptr /\ packet[d] # nullptr => c = d
          /\ \A c \in Backups : packet[c] # nullptr => packet[c].payload = electionServerList[primary]
      BY <2>1 DEF ListsOK
    <2>3. t \in Backups => /\ packet[t] # nullptr /\ packet[t].cmd = BP
                           /\ packet[t].payload = electionServerList[primary]
      BY <1>2, <2>2 DEF Forwarding, IInv, Types, PacketsOK, IsList, BP
    <2>4. t \in Clients => packet[t].cmd # BP
      BY <1>2 DEF Forwarding, IInv, Types, PacketsOK, FromClient, BP
    <2>5. ASSUME NEW x \in DOMAIN listBackups[primary], up[listBackups[primary][x]] = "backup"
          PROVE  \/ LastList(queue'[listBackups[primary][x]], electionServerList[listBackups[primary][x]],
                             electionServerList[primary])
                 \/ \E c \in Backups : packet[c] # nullptr /\ i'[c] <= x
      <3> DEFINE c == listBackups[primary][x]
      <3>1. c \in Backups /\ x \in Nat
        BY ListedBackup DEF IInv
      <3>2. WillAgree(c) \/ \E d \in Backups : packet[d] # nullptr /\ i[d] <= x
        BY <2>1, <2>5 DEF ListsOK
      <3> HIDE DEF c
      <3>3. CASE c = b /\ t \in Backups
        BY <1>1, <1>5, <2>3, <2>5, <3>3, LastListAppend DEF c
      <3>4. CASE ~(c = b /\ t \in Backups)
        <4>1. CASE WillAgree(c)
          <5>1. CASE c = b
            <6>1. t \in Clients
              BY <3>4, <5>1, Members
            <6>2. packet[t].cmd # BP /\ up[b] = "backup"
              BY <2>4, <2>5, <5>1, <6>1 DEF c
            <6>3. LastList(queue[b], electionServerList[b], electionServerList[primary])
              BY <4>1, <5>1 DEF WillAgree
            <6>4. LastList(queue'[b], electionServerList[b], electionServerList[primary])
              BY <1>1, <1>5, <6>2, <6>3, LastListAppend
            <6> QED BY <5>1, <6>4 DEF c
          <5>2. CASE c # b
            BY <1>5, <3>1, <4>1, <5>2 DEF WillAgree, c
          <5> QED BY <5>1, <5>2
        <4>2. CASE \E d \in Backups : packet[d] # nullptr /\ i[d] <= x
          <5>1. PICK d \in Backups : packet[d] # nullptr /\ i[d] <= x
            BY <4>2
          <5>2. CASE d = t
            <6>1. x # i[t]
              BY <1>3, <3>4, <5>2 DEF c
            <6>2. i'[d] <= x
              BY <1>6, <3>1, <5>1, <5>2, <6>1
            <6> QED BY <5>1, <6>2
          <5>3. CASE d # t
            BY <1>6, <5>1, <5>3
          <5> QED BY <5>2, <5>3
        <4> QED BY <3>2, <4>1, <4>2
      <3> QED BY <3>3, <3>4
    <2> QED BY <1>2, <2>2, <2>5 DEF listVars
  <1> QED BY <1>4, <1>7 DEF ListsInv

LEMMA EndForwardLists ==
  ASSUME IInv, NEW t \in Threads, EndForward(t)
  PROVE  ListsInv'
  <1>1. /\ Forwarding(t) /\ ~MoreBackups(t)
        /\ i' = [i EXCEPT ![t] = 1]
        /\ packet' = [packet EXCEPT ![t] = nullptr]
        /\ UNCHANGED <<up, listVars, netVars, raced>>
    BY DEF EndForward
  <1>2. /\ packet'[t] = nullptr /\ pc[t] # "out"
        /\ \A o \in Threads : o # t => packet'[o] = packet[o] /\ i'[o] = i[o]
    BY <1>1 DEF IInv, Types, Kinds, Forwarding
  <1>3. \A c \in Backups : pc[c] # "out" => pc'[c] # "out"
    BY Members DEF EndForward, IInv, Types, Kinds
  <1>4. Registered'
    BY <1>1, <1>3, QuietRegistered DEF listVars
  <1>5. CASE t \in Clients
    <2>1. \A c \in Backups : packet'[c] = packet[c] /\ i'[c] = i[c]
      BY <1>2, <1>5, Members
    <2>2. ListsOK'
      BY <1>1, <2>1, QuietLists DEF listVars, netVars
    <2> QED BY <1>4, <2>2 DEF ListsInv
  <1>6. CASE t \in Backups
    <2>1. packet[t] # nullptr /\ ~(i[t] <= Len(listBackups[primary]))
      BY <1>1, <1>6, Members DEF MoreBackups, Forwarding, ServerOf, IInv, Types, PacketsOK
    <2>2. ListsOK'
      <3> SUFFICES ASSUME up'[primary] = "serving", nullptr \notin raced'
                   PROVE  /\ \A c, d \in Backups : packet'[c] # nullptr /\ packet'[d] # nullptr => c = d
                          /\ \A c \in Backups : packet'[c] # nullptr => packet'[c].payload = electionServerList'[primary]
                          /\ \A x \in DOMAIN listBackups'[primary] :
                               up'[listBackups'[primary][x]] = "backup" =>
                                 \/ LastList(queue'[listBackups'[primary][x]],
                                             electionServerList'[listBackups'[primary][x]],
                                             electionServerList'[primary])
                                 \/ \E c \in Backups : packet'[c] # nullptr /\ i'[c] <= x
        BY DEF ListsOK, WillAgree
      <3>1. ListsOK /\ up[primary] = "serving" /\ nullptr \notin raced
        BY <1>1 DEF IInv
      <3>2. \A c \in Backups : packet[c] # nullptr => c = t
        BY <1>6, <2>1, <3>1 DEF ListsOK
      <3>3. \A c \in Backups : packet'[c] = nullptr
        BY <1>2, <3>2, Members
      <3>4. ASSUME NEW x \in DOMAIN listBackups[primary], up[listBackups[primary][x]] = "backup"
            PROVE  WillAgree(listBackups[primary][x])
        <4>1. x \in Nat /\ x <= Len(listBackups[primary])
          BY ListedBackup DEF IInv
        <4>2. i[t] \in Nat /\ listBackups[primary] \in Seq(Backups)
          BY Members DEF IInv, Types, Kinds
        <4>3. Len(listBackups[primary]) \in Nat
          BY <4>2
        <4>4. ~(i[t] <= x)
          BY <2>1, <4>1, <4>2, <4>3
        <4> QED BY <3>1, <3>2, <3>4, <4>4 DEF ListsOK
      <3> QED BY <1>1, <3>3, <3>4 DEF listVars, netVars, WillAgree
    <2> QED BY <1>4, <2>2 DEF ListsInv
  <1> QED BY <1>5, <1>6, Members

(* A registration that overlaps another is noted in raced: otherwise its list
   is the only one on its way, and every backup is still to be sent it. *)
LEMMA JoinLists ==
  ASSUME IInv, NEW b \in Backups, Join(b)
  PROVE  ListsInv'
  <1> DEFINE pkt == Packet("BACKUP_PROPAGATION", electionServerList'[primary], nullptr, nullptr)
  <1>1. /\ pc[b] = "joining" /\ up[primary] = "serving" /\ up' = up
        /\ \/ listBackups' = [listBackups EXCEPT ![primary] = Append(@, b)]
           \/ UNCHANGED listBackups
    BY DEF Join
  <1>2. StartForward(b, pkt)
    BY DEF Join, serverListToString
  <1>3. pkt.cmd = "BACKUP_PROPAGATION" /\ pkt.payload = electionServerList'[primary]
    BY DEF Packet
  <1>4. b \in Threads /\ ServerOf(b) = primary /\ Touches(pkt) = {nullptr}
    BY <1>3, Members DEF ServerOf, Touches
  <1> HIDE DEF pkt
  <1>5. /\ packet'[b] = pkt /\ i'[b] = 1 /\ pc'[b] = "forward"
        /\ \A c \in Backups : c # b => packet'[c] = packet[c] /\ pc'[c] = pc[c]
    BY <1>2, <1>3, <1>4, Members DEF StartForward, IInv, Types, Kinds
  <1>6. raced' = raced \cup UNION {Touches(packet[o]) \cup Touches(pkt) : o \in Overlapping(pkt)}
    BY <1>2, <1>4 DEF StartForward
  <1>7. ASSUME NEW c \in Backups, packet[c] # nullptr PROVE nullptr \in raced'
    <2>1. WellFormed(packet[c]) /\ IsList(packet[c])
      BY <1>7 DEF IInv, Types, PacketsOK, WellFormed
    <2>2. Touches(packet[c]) = {nullptr}
      BY <2>1 DEF IsList, Touches
    <2>3. c \in Overlapping(pkt)
      BY <1>4, <1>7, <2>2, Members DEF Overlapping
    <2> QED BY <1>4, <1>6, <2>3
  <1>8. \A x \in DOMAIN listBackups'[primary] : x \in Nat /\ x >= 1
    <2>1. listBackups[primary] \in Seq(Backups) /\ listBackups \in [Servers -> Seq(Backups)]
      BY Members DEF IInv, Types, Kinds
    <2>2. Append(listBackups[primary], b) \in Seq(Backups)
      BY <2>1
    <2>3. listBackups'[primary] \in Seq(Backups)
      BY <1>1, <2>1, <2>2, Members
    <2> QED BY <2>3
  <1>9. ListsOK'
    <2> SUFFICES ASSUME up'[primary] = "serving", nullptr \notin raced'
                 PROVE  /\ \A c, d \in Backups : packet'[c] # nullptr /\ packet'[d] # nullptr => c = d
                        /\ \A c \in Backups : packet'[c] # nullptr => packet'[c].payload = electionServerList'[primary]
                        /\ \A x \in DOMAIN listBackups'[primary] :
                             \E c \in Backups : packet'[c] # nullptr /\ i'[c] <= x
      BY DEF ListsOK
    <2>1. \A c \in Backups : c # b => packet'[c] = nullptr
      BY <1>5, <1>7
    <2>2. packet'[b] # nullptr
      <3>1. packet' \in [Threads -> Packets \cup {nullptr}] /\ PacketsOK'
        BY NextTypes DEF IInv, Next, Backup, Types, Kinds
      <3> QED BY <1>4, <1>5, <3>1 DEF PacketsOK
    <2>3. \A x \in DOMAIN listBackups'[primary] : i'[b] <= x
      BY <1>5, <1>8
    <2> QED BY <1>3, <1>5, <2>1, <2>2, <2>3
  <1>10. Registered'
    <2>1. \A x \in DOMAIN listBackups'[primary] :
            \/ listBackups'[primary][x] = b
            \/ x \in DOMAIN listBackups[primary] /\ listBackups'[primary][x] = listBackups[primary][x]
      <3>1. listBackups[primary] \in Seq(Backups) /\ listBackups \in [Servers -> Seq(Backups)]
        BY Members DEF IInv, Types, Kinds
      <3>2. \A x \in DOMAIN Append(listBackups[primary], b) :
              \/ Append(listBackups[primary], b)[x] = b
              \/ /\ x \in DOMAIN listBackups[primary]
                 /\ Append(listBackups[primary], b)[x] = listBackups[primary][x]
        BY <3>1
      <3>3. listBackups'[primary] \in {listBackups[primary], Append(listBackups[primary], b)}
        BY <1>1, <3>1, Members
      <3> QED BY <3>2, <3>3
    <2>2. \A x \in DOMAIN listBackups[primary] :
            listBackups[primary][x] \in Backups /\ pc[listBackups[primary][x]] # "out"
      BY ListedBackup DEF IInv, Registered
    <2>3. \A c \in Backups : pc[c] # "out" => pc'[c] # "out"
      BY <1>5
    <2>4. pc'[b] # "out"
      BY <1>5
    <2> QED BY <2>1, <2>2, <2>3, <2>4 DEF Registered
  <1> QED BY <1>9, <1>10 DEF ListsInv

LEMMA ApplyLists ==
  ASSUME IInv, NEW b \in Backups, Apply(b)
  PROVE  ListsInv'
  <1> DEFINE pkt == Head(queue[b])
             own == IF pkt.cmd = BP THEN pkt.payload ELSE electionServerList[b]
  <1>1. /\ Receives(b)
        /\ queue' = [queue EXCEPT ![b] = Tail(@)]
        /\ electionServerList' = IF pkt.cmd = "BACKUP_PROPAGATION"
                                 THEN [electionServerList EXCEPT ![b] = pkt.payload]
                                 ELSE electionServerList
        /\ UNCHANGED <<up, listBackups, threadVars, raced>>
    BY DEF Apply
  <1>2. queue[b] \in Seq(Packets) /\ queue[b] # <<>>
    BY <1>1 DEF Receives, IInv, Types, Kinds
  <1>3. electionServerList'[b] = own /\ \A s \in Servers : s # b => electionServerList'[s] = electionServerList[s]
    BY <1>1, Members DEF BP, IInv, Types, Kinds
  <1> HIDE DEF pkt
  <1>4. Registered'
    BY <1>1, QuietRegistered DEF threadVars
  <1>5. electionServerList'[primary] = electionServerList[primary]
    BY <1>3, Members
  <1>6. ASSUME NEW c \in Backups, WillAgree(c)
        PROVE  LastList(queue'[c], electionServerList'[c], electionServerList[primary])
    <2>1. CASE c = b
      <3>1. LastList(queue[b], electionServerList[b], electionServerList[primary])
        BY <1>6, <2>1 DEF WillAgree
      <3>2. queue'[b] = Tail(queue[b])
        BY <1>1 DEF IInv, Types, Kinds
      <3>3. LastList(Tail(queue[b]), own, electionServerList[primary])
        BY <1>2, <3>1, LastListTail DEF pkt
      <3> QED BY <1>3, <2>1, <3>2, <3>3
    <2>2. CASE c # b
      <3>1. queue'[c] = queue[c] /\ electionServerList'[c] = electionServerList[c]
        BY <1>1, <1>3, <2>2, Members DEF IInv, Types, Kinds
      <3> QED BY <1>6, <3>1 DEF WillAgree
    <2> QED BY <2>1, <2>2
  <1>7. ListsOK'
    <2> SUFFICES ASSUME up'[primary] = "serving", nullptr \notin raced'
                 PROVE  /\ \A c, d \in Backups : packet'[c] # nullptr /\ packet'[d] # nullptr => c = d
                        /\ \A c \in Backups : packet'[c] # nullptr => packet'[c].payload = electionServerList'[primary]
                        /\ \A x \in DOMAIN listBackups'[primary] :
                             up'[listBackups'[primary][x]] = "backup" =>
                               \/ LastList(queue'[listBackups'[primary][x]],
                                           electionServerList'[listBackups'[primary][x]],
                                           electionServerList'[primary])
                               \/ \E c \in Backups : packet'[c] # nullptr /\ i'[c] <= x
      BY DEF ListsOK, WillAgree
    <2>1. ListsOK /\ up[primary] = "serving" /\ nullptr \notin raced
      BY <1>1 DEF IInv
    <2>2. \A x \in DOMAIN listBackups[primary] : listBackups[primary][x] \in Backups
      BY ListedBackup DEF IInv
    <2>3. \A x \in DOMAIN listBackups[primary] :
            up[listBackups[primary][x]] = "backup" =>
              \/ LastList(queue'[listBackups[primary][x]],
                          electionServerList'[listBackups[primary][x]],
                          electionServerList[primary])
              \/ \E c \in Backups : packet[c] # nullptr /\ i[c] <= x
      BY <1>6, <2>1, <2>2 DEF ListsOK
    <2>4. /\ \A c, d \in Backups : packet[c] # nullptr /\ packet[d] # nullptr => c = d
          /\ \A c \in Backups : packet[c] # nullptr => packet[c].payload = electionServerList[primary]
      BY <2>1 DEF ListsOK
    <2> QED BY <1>1, <1>5, <2>3, <2>4 DEF threadVars
  <1> QED BY <1>4, <1>7 DEF ListsInv

-----------------------------------------------------------------------------
LEMMA NextLists == IInv /\ [Next]_vars => ListsInv'
  <1> SUFFICES ASSUME IInv, [Next]_vars PROVE ListsInv'
    OBVIOUS
  <1>1. ASSUME NEW t \in Threads, Proceed(t) PROVE ListsInv'
    BY <1>1, ForwardLists, EndForwardLists, DeathsLists DEF Proceed
  <1>2. ASSUME NEW b \in Backups, SetBackup(b) \/ Backup(b) PROVE ListsInv'
    BY <1>2, BackupStepLists, JoinLists, ApplyLists, DeathsLists DEF Backup
  <1>3. ASSUME NEW k \in Clients, Welcome(k) PROVE ListsInv'
    BY <1>3, ClientStepLists, DeathsLists DEF Welcome
  <1>4. ASSUME NEW k \in Clients, ClientStep(k) PROVE ListsInv'
    BY <1>4, ClientStepLists, DeathsLists DEF ClientStep
  <1>5. CASE Kill
    BY <1>5, DeathsLists
  <1>6. CASE UNCHANGED vars
    BY <1>6 DEF vars, listVars, netVars, threadVars, IInv, ListsInv, Registered, ListsOK, WillAgree
  <1> QED BY <1>1, <1>2, <1>3, <1>4, <1>5, <1>6 DEF Next

LEMMA Inductive == Spec => []IInv
  <1>1. Init => IInv
    BY InitTypes, InitLists DEF IInv
  <1>2. IInv /\ [Next]_vars => IInv'
    BY NextTypes, NextLists DEF IInv, ListsInv
  <1> QED BY <1>1, <1>2, PTL DEF Spec

(* Every state of a primary, its backups and their clients, as server/main.cpp
   makes them go on, die and take over, has the types of TypeOK. *)
THEOREM TypeCorrect == Spec => []TypeOK
  <1>1. IInv => TypeOK
    BY TypesTypeOK DEF IInv
  <1> QED BY <1>1, Inductive, PTL

(* receiveSetBackup and sendToBackups: a backup that has read what it was sent
   has the primary's list of addresses, unless two registrations overlapped. *)
THEOREM ListsAlwaysAgree == Spec => []ListsAgree
  <1>1. IInv => ListsAgree
    <2> SUFFICES ASSUME IInv, up[primary] = "serving", nullptr \notin raced,
                        \A t \in Threads : packet[t] = nullptr,
                        NEW b \in ToSet(listBackups[primary]), up[b] = "backup", queue[b] = <<>>
                 PROVE  electionServerList[b] = electionServerList[primary]
      BY DEF ListsAgree
    <2>1. PICK x \in DOMAIN listBackups[primary] : listBackups[primary][x] = b
      BY DEF ToSet
    <2>2. \A c \in Backups : packet[c] = nullptr
      BY Members
    <2>3. WillAgree(b)
      BY <2>1, <2>2 DEF IInv, ListsOK
    <2>4. DOMAIN queue[b] = {}
      OBVIOUS
    <2> QED BY <2>3, <2>4 DEF WillAgree, LastList
  <1> QED BY <1>1, Inductive, PTL

-----------------------------------------------------------------------------
(* Sessions are counted.                                                    *)

Closing(pkt, k) == pkt.cmd = "CLOSE_CONN" /\ pkt.client = k
Opening(pkt, k) == pkt.cmd = "PROFILE" /\ pkt.client = k

(* The thread t has still to hand its packet to b. *)
Ahead(t, b) ==
  packet[t] # nullptr /\
  \E x \in DOMAIN listBackups[primary] : i[t] <= x /\ listBackups[primary][x] = b

(* The CLOSE_CONN of k is on its way to b. *)
CloseWaits(b, k) ==
  \/ \E j \in DOMAIN queue[b] : Closing(queue[b][j], k)
  \/ Ahead(k, b) /\ packet[k].cmd = "CLOSE_CONN"

(* As far as the server s knows, or will get to know, k has not left. *)
Stays(s, k) == pc[k] \notin {"closing", "ended"} \/ (s \in Backups /\ CloseWaits(s, k))

(* The clients whose logins s has counted, and who stay. *)
Active(s, p) == {k \in counted[s] : profileOf[k] = p /\ Stays(s, k)}

AllCounted(s, p) ==
  {k \in Clients : at[k] = s /\ profileOf[k] = p /\ pc[k] # "out"} \subseteq counted[s]

Alive(s) == s \in early \cup {primary} /\ up[s] \in {"backup", "serving"}

Counts(s) ==
  Alive(s) => \A p \in KnownAt(s) :
    AllCounted(s, p) => profiles[s][p].sessions_on >= Cardinality(Active(s, p))

CountsOK == \A s \in Servers : Counts(s)

CountedKnown ==
  /\ \A s \in Servers : \A k \in counted[s] : profileOf[k] \in KnownAt(s)
  /\ \A k \in Clients :
       at[k] = primary /\ up[primary] = "serving" /\ pc[k] \in {"forward", "fetch", "idle", "closing"}
         => k \in counted[primary]

(* Only the primary has a vector of backups.  A backup joins it once, and until
   then it has been sent nothing. *)
Vectors ==
  /\ \A b \in Backups : listBackups[b] = <<>>
  /\ up[primary] = "dead" => listBackups[primary] = <<>>
  /\ \A x, y \in DOMAIN listBackups[primary] :
       listBackups[primary][x] = listBackups[primary][y] => x = y
  /\ \A b \in Backups : pc[b] \in {"out", "joining"} =>
       /\ b \notin early
       /\ up[primary] = "serving" =>
            /\ \A x \in DOMAIN listBackups[primary] : listBackups[primary][x] # b
            /\ queue[b] = <<>> /\ KnownAt(b) = {} /\ counted[b] = {}
  /\ \A b \in early : up[primary] = "serving" =>
       \E x \in DOMAIN listBackups[primary] : listBackups[primary][x] = b
  /\ \A b \in Backups : up[b] = "serving" => queue[b] = <<>>

(* CLOSE_CONN is sent to a backup once. *)
ClosesOnce ==
  \A b \in Backups : \A k \in Clients : \A j \in DOMAIN queue[b] : Closing(queue[b][j], k) =>
    /\ pc[k] \in {"closing", "ended"}
    /\ ~Ahead(k, b)
    /\ \A m \in DOMAIN queue[b] : Closing(queue[b][m], k) => m = j

(* A backup that joined an empty map is sent every login, and before the
   CLOSE_CONN of the same client. *)
OpensFirst(b, k) ==
  \A j \in DOMAIN queue[b] : Closing(queue[b][j], k) =>
    k \in counted[b] \/ \E m \in DOMAIN queue[b] : m < j /\ Opening(queue[b][m], k)

LoginComes(b, k) ==
  up[primary] = "serving" /\ k \in counted[primary] =>
    \/ k \in counted[b]
    \/ \E m \in DOMAIN queue[b] : Opening(queue[b][m], k)
    \/ Ahead(k, b) /\ packet[k].cmd = "PROFILE"

LoginsFirst ==
  \A b \in early : up[b] = "backup" => \A k \in Clients : OpensFirst(b, k) /\ LoginComes(b, k)

CountInv == CountsOK /\ CountedKnown /\ Vectors /\ ClosesOnce /\ LoginsFirst

(* A count that is at least the size of a set, and what is left of it when the
   set loses elements, gains one, or loses one that the count loses too. *)
LEMMA Fewer ==
  ASSUME NEW S, IsFiniteSet(S), NEW T, T \subseteq S,
         NEW n \in Int, n >= Cardinality(S), NEW m \in Int, m >= n
  PROVE  m >= Cardinality(T)
  <1>1. /\ Cardinality(T) \in Nat /\ Cardinality(S) \in Nat
        /\ Cardinality(T) <= Cardinality(S)
    BY FS_Subset, FS_CardinalityType
  <1> QED BY <1>1

LEMMA OneMore ==
  ASSUME NEW S, IsFiniteSet(S), NEW k, NEW T, T \subseteq S \cup {k},
         NEW n \in Int, n >= Cardinality(S), NEW m \in Int, m = n + 1
  PROVE  m >= Cardinality(T)
  <1>1. /\ IsFiniteSet(S \cup {k}) /\ Cardinality(S) \in Nat
        /\ Cardinality(S \cup {k}) = Cardinality(S) \/ Cardinality(S \cup {k}) = Cardinality(S) + 1
    BY FS_AddElement, FS_CardinalityType
  <1>2. m >= Cardinality(S \cup {k})
    BY <1>1
  <1> QED BY <1>1, <1>2, Fewer

LEMMA OneLess ==
  ASSUME NEW S, IsFiniteSet(S), NEW k \in S, NEW T, T \subseteq S \ {k},
         NEW n \in Int, n >= Cardinality(S), NEW m \in Int, m >= n - 1
  PROVE  m >= Cardinality(T)
  <1>1. /\ IsFiniteSet(S \ {k}) /\ Cardinality(S) \in Nat
        /\ Cardinality(S \ {k}) = Cardinality(S) - 1
    BY FS_RemoveElement, FS_CardinalityType
  <1>2. m >= Cardinality(S \ {k})
    BY <1>1
  <1> QED BY <1>1, <1>2, Fewer

LEMMA SameCounts ==
  ASSUME NEW map \in Maps, NEW new,
         \A p \in ProfileIds :
           \/ new[p] = map[p]
           \/ p \in Names(map) /\ new[p] \in Objects /\ new[p].sessions_on = map[p].sessions_on
  PROVE  Names(new) = Names(map) /\ \A p \in Names(map) : new[p].sessions_on = map[p].sessions_on
  <1>1. \A p \in Names(map) : p \in ProfileIds /\ map[p] \in Objects
    BY NamesObject DEF Names
  <1>2. \A p \in Names(map) : new[p].sessions_on = map[p].sessions_on /\ new[p] \in Objects
    BY <1>1
  <1>3. \A p \in ProfileIds : p \in Names(map) \/ new[p] = nullptr
    BY DEF Names
  <1> QED BY <1>1, <1>2, <1>3, ObjectIsNotNull DEF Names

(* What processPacket makes of the names in a map and of their counts. *)
LEMMA Sessions ==
  ASSUME NEW map, Closed(map), NEW conn \in ConnsOrNull, NEW pkt, WellFormed(pkt),
         SenderKnown(map, pkt)
  PROVE  LET new == processPacket(map, conn, pkt) IN
         /\ Names(new) = Names(map) \cup (IF pkt.cmd = "PROFILE" THEN {pkt.payload} ELSE {})
         /\ \A p \in Names(map) :
              /\ map[p].sessions_on \in Int /\ new[p].sessions_on \in Int
              /\ IF pkt.cmd = "PROFILE" /\ pkt.payload = p
                 THEN new[p].sessions_on = map[p].sessions_on + 1
                 ELSE IF pkt.cmd = "CLOSE_CONN" /\ pkt.sender = p
                 THEN new[p].sessions_on >= map[p].sessions_on - 1
                 ELSE new[p].sessions_on = map[p].sessions_on
         /\ pkt.cmd = "PROFILE" /\ pkt.payload \notin Names(map) => new[pkt.payload].sessions_on = 1
  <1> DEFINE new == processPacket(map, conn, pkt)
  <1>0. map \in Maps
    BY DEF Closed
  <1>1. \A p \in Names(map) : p \in ProfileIds /\ map[p] \in Objects /\ map[p].sessions_on \in Int
    BY <1>0, NamesObject DEF Names, Objects
  <1>2. CASE pkt.cmd = "PROFILE"
    <2> DEFINE p == pkt.payload
               o == IF map[p] = nullptr THEN NewProfile ELSE map[p]
    <2>1. p \in ProfileIds
      BY <1>2, profileOfAssumption DEF WellFormed, FromClient, IsList
    <2>2. new = [map EXCEPT ![p] = incSessionsOn(o, conn)]
      BY <1>2 DEF processPacket, createProfileIfNotExists
    <2> HIDE DEF p, new
    <2>3. /\ o \in Objects
          /\ p \in Names(map) => o = map[p]
          /\ p \notin Names(map) => o.sessions_on = 0
      BY <1>1, <2>1, NewProfileOK DEF Names, NewProfile
    <2> HIDE DEF o
    <2>4. incSessionsOn(o, conn) \in Objects /\ incSessionsOn(o, conn).sessions_on = o.sessions_on + 1
      BY <2>3, IncSessionsOn DEF incSessionsOn, Objects
    <2>5. new[p].sessions_on = o.sessions_on + 1 /\ new[p] # nullptr
      BY <1>0, <2>1, <2>2, <2>4, ObjectIsNotNull DEF Maps
    <2>6. \A q \in ProfileIds : q # p => new[q] = map[q]
      BY <1>0, <2>2 DEF Maps
    <2>7. Names(new) = Names(map) \cup {p}
      BY <2>1, <2>5, <2>6 DEF Names
    <2>8. \A q \in Names(map) : q # p => new[q].sessions_on = map[q].sessions_on
      BY <2>6 DEF Names
    <2> HIDE DEF new
    <2>9. \A q \in Names(map) :
              /\ map[q].sessions_on \in Int /\ new[q].sessions_on \in Int
              /\ IF p = q THEN new[q].sessions_on = map[q].sessions_on + 1
                 ELSE new[q].sessions_on = map[q].sessions_on
      BY <1>1, <2>3, <2>5, <2>8
    <2>10. p \notin Names(map) => new[p].sessions_on = 1
      BY <2>3, <2>5
    <2> QED BY <1>2, <2>7, <2>9, <2>10 DEF new, p
  <1>3. CASE pkt.cmd # "PROFILE"
    <2> SUFFICES /\ Names(new) = Names(map)
                 /\ \A p \in Names(map) :
                      /\ new[p].sessions_on \in Int
                      /\ IF pkt.cmd = "CLOSE_CONN" /\ pkt.sender = p
                         THEN new[p].sessions_on >= map[p].sessions_on - 1
                         ELSE new[p].sessions_on = map[p].sessions_on
      BY <1>1, <1>3
    <2>1. CASE pkt.cmd = "FOLLOW"
      <3>1. new = addFollowerTo(map, pkt.payload, pkt.sender)
        BY <2>1 DEF processPacket
      <3>2. \A p \in ProfileIds : new[p] = map[p] \/ (map[p] # nullptr /\ new[p] = addFollower(map[p], pkt.sender))
        BY <1>0, <3>1 DEF addFollowerTo, Maps
      <3>3. pkt.sender \in ProfileIds
        BY <2>1 DEF SenderKnown, Names
      <3>4. \A o \in Objects : /\ addFollower(o, pkt.sender) \in Objects
                              /\ addFollower(o, pkt.sender).sessions_on = o.sessions_on
        BY <3>3, AddFollower DEF addFollower, Objects
      <3>5. \A p \in ProfileIds :
              \/ new[p] = map[p]
              \/ p \in Names(map) /\ new[p] \in Objects /\ new[p].sessions_on = map[p].sessions_on
        BY <1>1, <3>2, <3>4 DEF Names
      <3> HIDE DEF new
      <3>7. Names(new) = Names(map) /\ \A p \in Names(map) : new[p].sessions_on = map[p].sessions_on
        BY <1>0, <3>5, SameCounts
      <3> QED BY <1>1, <2>1, <3>7
    <2>2. CASE pkt.cmd = "SEND"
      <3>1. new = sendToFollowersOf(map, pkt.sender, pkt.payload)
        BY <2>2 DEF processPacket
      <3>2. pkt.sender \in Names(map) /\ pkt.payload \in Clients \X Nat
        BY <2>2 DEF WellFormed, FromClient, IsList, SenderKnown
      <3>3. ToSet(map[pkt.sender].followers) \subseteq Names(map) /\ map[pkt.sender].followers \in Seq(ProfileIds)
        BY <1>1, <3>2 DEF Closed, Objects
      <3>4. \A p : follows(map[pkt.sender], p) => p \in Names(map)
        BY <3>3, ContainsToSet DEF follows
      <3>5. \A p \in ProfileIds : new[p] = map[p] \/ (p \in Names(map) /\ new[p] = insertPacket(map[p], pkt.payload))
        BY <3>1, <3>4 DEF sendToFollowersOf
      <3>6. \A o \in Objects : /\ insertPacket(o, pkt.payload) \in Objects
                              /\ insertPacket(o, pkt.payload).sessions_on = o.sessions_on
        BY <3>2, InsertPacket DEF insertPacket, Objects
      <3>7. \A p \in ProfileIds :
              \/ new[p] = map[p]
              \/ p \in Names(map) /\ new[p] \in Objects /\ new[p].sessions_on = map[p].sessions_on
        BY <1>1, <3>5, <3>6
      <3> HIDE DEF new
      <3>9. Names(new) = Names(map) /\ \A p \in Names(map) : new[p].sessions_on = map[p].sessions_on
        BY <1>0, <3>7, SameCounts
      <3> QED BY <1>1, <2>2, <3>9
    <2>3. CASE pkt.cmd = "CLOSE_CONN"
      <3> DEFINE p == pkt.sender
                 o == decSessionsOn(map[p], conn)
      <3>1. p \in Names(map)
        BY <2>3 DEF SenderKnown
      <3>2. new = [map EXCEPT ![p] = o]
        BY <2>3 DEF processPacket
      <3>3. o \in Objects /\ o.sessions_on \in Int
        BY <1>1, <3>1, DecSessionsOn DEF Objects
      <3>4. o.sessions_on >= map[p].sessions_on - 1
        BY <1>1, <3>1 DEF decSessionsOn, Objects
      <3> HIDE DEF o, new
      <3>5. new[p] = o /\ \A q \in ProfileIds : q # p => new[q] = map[q]
        BY <1>0, <1>1, <3>1, <3>2 DEF Maps
      <3>6. Names(new) = Names(map)
        BY <1>1, <3>1, <3>3, <3>5, ObjectIsNotNull DEF Names
      <3>7. \A q \in Names(map) :
              /\ new[q].sessions_on \in Int
              /\ IF p = q THEN new[q].sessions_on >= map[q].sessions_on - 1
                 ELSE new[q].sessions_on = map[q].sessions_on
        BY <1>1, <3>1, <3>3, <3>4, <3>5
      <3> QED BY <2>3, <3>6, <3>7
    <2>4. CASE pkt.cmd \notin {"FOLLOW", "SEND", "CLOSE_CONN"}
      <3>1. new = map
        BY <1>3, <2>4 DEF processPacket
      <3> QED BY <1>1, <2>4, <3>1
    <2> QED BY <2>1, <2>2, <2>3, <2>4
  <1> QED BY <1>2, <1>3

LEMMA FiniteCounted ==
  ASSUME Types, NEW s \in Servers
  PROVE  /\ counted[s] \subseteq Clients
         /\ \A p : IsFiniteSet(Active(s, p)) /\ Cardinality(Active(s, p)) \in Nat
  <1>1. IsFiniteSet(Clients)
    BY ThreadsAssumption, Members, FS_Subset
  <1>2. counted[s] \subseteq Clients
    BY DEF Types, Kinds
  <1>3. \A p : Active(s, p) \subseteq Clients
    BY <1>2 DEF Active
  <1> QED BY <1>1, <1>2, <1>3, FS_Subset, FS_CardinalityType

LEMMA KnownObject ==
  ASSUME Types, NEW s \in Servers, NEW p \in KnownAt(s)
  PROVE  p \in ProfileIds /\ profiles[s][p] \in Objects /\ profiles[s][p].sessions_on \in Int
  <1>1. profiles[s] \in Maps /\ p \in Names(profiles[s])
    BY KnownNames DEF Types, Kinds
  <1> QED BY <1>1, NamesObject DEF Names, Objects

LEMMA InitCounts == Init => CountInv
  <1> SUFFICES ASSUME Init PROVE CountInv
    OBVIOUS
  <1>1. /\ \A s \in Servers : KnownAt(s) = {} /\ counted[s] = {} /\ listBackups[s] = <<>>
        /\ \A b \in Backups : queue[b] = <<>> /\ DOMAIN queue[b] = {}
        /\ \A t \in Threads : pc[t] = "out"
        /\ early = {} /\ up[primary] = "serving"
    BY EmptyMapClosed, KnownNames, Members DEF Init
  <1>2. DOMAIN listBackups[primary] = {}
    BY <1>1, Members
  <1>3. CountsOK
    BY <1>1 DEF CountsOK, Counts
  <1>4. CountedKnown
    BY <1>1, Members DEF CountedKnown
  <1>5. Vectors
    <2>1. \A b \in Backups : up[b] = "off"
      BY Members DEF Init
    <2> QED BY <1>1, <1>2, <2>1, Members DEF Vectors
  <1>6. ClosesOnce /\ LoginsFirst
    BY <1>1 DEF ClosesOnce, LoginsFirst
  <1> QED BY <1>3, <1>4, <1>5, <1>6 DEF CountInv

(* The count of a server that nothing happens to. *)
LEMMA QuietCounts ==
  ASSUME Types, CountsOK, NEW s \in Servers,
         Alive(s)' =>
           /\ Alive(s) /\ KnownAt(s)' = KnownAt(s) /\ counted'[s] = counted[s]
           /\ \A p \in KnownAt(s) : profiles'[s][p].sessions_on = profiles[s][p].sessions_on
           /\ \A k \in Clients :
                /\ at[k] = s /\ pc[k] # "out" => at'[k] = s /\ pc'[k] # "out"
                /\ Stays(s, k)' => Stays(s, k)
  PROVE  Counts(s)'
  <1> SUFFICES ASSUME Alive(s)', NEW p \in KnownAt(s)', AllCounted(s, p)'
               PROVE  profiles'[s][p].sessions_on >= Cardinality(Active(s, p)')
    BY DEF Counts
  <1>1. Alive(s) /\ p \in KnownAt(s) /\ counted'[s] = counted[s]
    OBVIOUS
  <1>2. AllCounted(s, p)
    BY <1>1 DEF AllCounted
  <1>3. Active(s, p)' \subseteq Active(s, p)
    BY <1>1, FiniteCounted DEF Active
  <1>4. profiles[s][p].sessions_on >= Cardinality(Active(s, p))
    BY <1>1, <1>2 DEF CountsOK, Counts
  <1>5. profiles[s][p].sessions_on \in Int /\ profiles'[s][p].sessions_on = profiles[s][p].sessions_on
    BY <1>1, KnownObject
  <1> QED BY <1>3, <1>4, <1>5, FiniteCounted, Fewer

(* A login is counted. *)
LEMMA OpenedCounts ==
  ASSUME Types, CountInv, NEW s \in Servers, NEW k \in Clients,
         Alive(s)' => Alive(s), at[k] = s => pc[k] = "out",
         counted'[s] = counted[s] \cup {k},
         KnownAt(s)' = KnownAt(s) \cup {profileOf[k]},
         \A p \in KnownAt(s) :
           profiles'[s][p].sessions_on = IF p = profileOf[k] THEN profiles[s][p].sessions_on + 1
                                         ELSE profiles[s][p].sessions_on,
         profileOf[k] \notin KnownAt(s) => profiles'[s][profileOf[k]].sessions_on = 1,
         \A c \in Clients \ {k} : at[c] = s /\ pc[c] # "out" => at'[c] = s /\ pc'[c] # "out",
         \A c \in Clients : Stays(s, c)' => Stays(s, c)
  PROVE  Counts(s)'
  <1> SUFFICES ASSUME Alive(s)', NEW p \in KnownAt(s)', AllCounted(s, p)'
               PROVE  profiles'[s][p].sessions_on >= Cardinality(Active(s, p)')
    BY DEF Counts
  <1>1. AllCounted(s, p)
    BY DEF AllCounted
  <1>2. Active(s, p)' \subseteq Active(s, p) \cup {k}
    BY FiniteCounted DEF Active
  <1>3. CASE p \in KnownAt(s)
    <2>1. profiles[s][p].sessions_on >= Cardinality(Active(s, p))
      BY <1>1, <1>3 DEF CountInv, CountsOK, Counts
    <2>2. profiles[s][p].sessions_on \in Int
      BY <1>3, KnownObject
    <2>3. CASE p = profileOf[k]
      <3> DEFINE n == profiles[s][p].sessions_on
                 m == profiles'[s][p].sessions_on
      <3>1. n \in Int /\ m \in Int /\ m = n + 1 /\ n >= Cardinality(Active(s, p))
        BY <1>3, <2>1, <2>2, <2>3
      <3> HIDE DEF n, m
      <3>2. m >= Cardinality(Active(s, p)')
        BY <1>2, <3>1, FiniteCounted, OneMore
      <3> QED BY <3>2 DEF m
    <2>4. CASE p # profileOf[k]
      <3>1. profiles'[s][p].sessions_on = profiles[s][p].sessions_on
        BY <1>3, <2>4
      <3>2. Active(s, p)' \subseteq Active(s, p)
        BY <1>2, <2>4 DEF Active
      <3> QED BY <2>1, <2>2, <3>1, <3>2, FiniteCounted, Fewer
    <2> QED BY <2>3, <2>4
  <1>4. CASE p \notin KnownAt(s)
    <2>1. p = profileOf[k] /\ profiles'[s][p].sessions_on = 1
      BY <1>4
    <2>2. Active(s, p) = {}
      BY <1>4 DEF Active, CountInv, CountedKnown
    <2>3. Cardinality({}) = 0
      BY FS_EmptySet
    <2> DEFINE none == 0
               one == 1
    <2>4. none \in Int /\ one \in Int /\ one = none + 1 /\ none >= Cardinality(Active(s, p))
      BY <2>2, <2>3
    <2> HIDE DEF none, one
    <2>5. one >= Cardinality(Active(s, p)')
      BY <1>2, <2>4, FiniteCounted, OneMore
    <2> QED BY <2>1, <2>5 DEF one
  <1> QED BY <1>3, <1>4

(* A client that was counted leaves. *)
LEMMA ClosedCounts ==
  ASSUME Types, CountInv, NEW s \in Servers, NEW k \in Clients,
         Alive(s)' => Alive(s), counted'[s] = counted[s], KnownAt(s)' = KnownAt(s),
         \A p \in KnownAt(s) :
           /\ profiles'[s][p].sessions_on \in Int
           /\ IF p = profileOf[k] THEN profiles'[s][p].sessions_on >= profiles[s][p].sessions_on - 1
              ELSE profiles'[s][p].sessions_on = profiles[s][p].sessions_on,
         \A c \in Clients : at[c] = s /\ pc[c] # "out" => at'[c] = s /\ pc'[c] # "out",
         \A c \in Clients : Stays(s, c)' => Stays(s, c),
         Stays(s, k) /\ ~Stays(s, k)',
         Alive(s) /\ AllCounted(s, profileOf[k]) => k \in counted[s]
  PROVE  Counts(s)'
  <1> SUFFICES ASSUME Alive(s)', NEW p \in KnownAt(s), AllCounted(s, p)'
               PROVE  profiles'[s][p].sessions_on >= Cardinality(Active(s, p)')
    BY DEF Counts
  <1>1. AllCounted(s, p)
    BY DEF AllCounted
  <1>2. Active(s, p)' \subseteq Active(s, p)
    BY FiniteCounted DEF Active
  <1>3. profiles[s][p].sessions_on >= Cardinality(Active(s, p))
    BY <1>1 DEF CountInv, CountsOK, Counts
  <1>4. profiles[s][p].sessions_on \in Int /\ profiles'[s][p].sessions_on \in Int
    BY KnownObject
  <1>5. CASE p = profileOf[k]
    <2>1. k \in Active(s, p)
      BY <1>1, <1>5 DEF Active
    <2>2. Active(s, p)' \subseteq Active(s, p) \ {k}
      BY <1>2 DEF Active
    <2>3. profiles'[s][p].sessions_on >= profiles[s][p].sessions_on - 1
      BY <1>5
    <2> QED BY <1>3, <1>4, <2>1, <2>2, <2>3, FiniteCounted, OneLess
  <1>6. CASE p # profileOf[k]
    <2>1. profiles'[s][p].sessions_on >= profiles[s][p].sessions_on
      BY <1>4, <1>6
    <2> QED BY <1>2, <1>3, <1>4, <2>1, FiniteCounted, Fewer
  <1> QED BY <1>5, <1>6

(* The steps of a client k that has nothing to forward: they concern one
   server s that serves. *)
LEMMA ClientCounts ==
  ASSUME Types, Types', CountInv, NEW k \in Clients, NEW s \in Servers,
         packet[k] = nullptr, pc[k] \notin {"closing", "ended"}, up[s] = "serving",
         at'[k] = s, at[k] = s \/ up[at[k]] = "dead",
         UNCHANGED <<up, listVars, netVars>>,
         \A t \in Threads \ {k} : packet'[t] = packet[t] /\ i'[t] = i[t] /\ pc'[t] = pc[t],
         \A c \in Clients \ {k} : at'[c] = at[c],
         \A r \in Servers \ {s} : profiles'[r] = profiles[r] /\ counted'[r] = counted[r],
         KnownAt(s) \subseteq KnownAt(s)', counted'[s] \in {counted[s], counted[s] \cup {k}},
         k \in counted'[s] \ counted[s] =>
           profileOf[k] \in KnownAt(s)' /\ packet'[k].cmd = "PROFILE" /\ pc'[k] = "forward" /\ i'[k] = 1,
         pc'[k] \in {"forward", "fetch", "idle", "closing"} =>
           pc[k] \in {"forward", "fetch", "idle", "closing"} \/ k \in counted'[s]
  PROVE  /\ Vectors' /\ ClosesOnce' /\ LoginsFirst' /\ CountedKnown'
         /\ \A r \in Servers \ {s} : Counts(r)'
  <1>1. /\ up' = up /\ listBackups' = listBackups /\ early' = early /\ queue' = queue
    BY DEF listVars, netVars
  <1>2. s \in Backups => up[primary] # "serving"
    BY DEF Types, Places
  <1>3. up[primary] = "serving" => s = primary
    BY <1>2, Members
  <1>4. \A b : \A c \in Clients \ {k} : Ahead(c, b)' <=> Ahead(c, b)
    BY <1>1, Members DEF Ahead
  <1>5. \A b : ~Ahead(k, b)
    BY DEF Ahead
  <1>6. \A b \in Backups : up[b] = "backup" => profiles'[b] = profiles[b] /\ counted'[b] = counted[b]
    BY Members
  <1>7. Vectors'
    <2>1. \A b \in Backups : pc'[b] = pc[b]
      BY Members
    <2>2. \A b \in Backups : up[primary] = "serving" => KnownAt(b)' = KnownAt(b) /\ counted'[b] = counted[b]
      BY <1>3, Members DEF KnownAt
    <2> QED BY <1>1, <2>1, <2>2 DEF CountInv, Vectors
  <1>8. ClosesOnce'
    <2> SUFFICES ASSUME NEW b \in Backups, NEW c \in Clients, NEW j \in DOMAIN queue[b], Closing(queue[b][j], c)
                 PROVE  /\ pc'[c] \in {"closing", "ended"} /\ ~Ahead(c, b)'
                        /\ \A m \in DOMAIN queue[b] : Closing(queue[b][m], c) => m = j
      BY <1>1 DEF ClosesOnce, Closing
    <2>1. /\ pc[c] \in {"closing", "ended"} /\ ~Ahead(c, b)
          /\ \A m \in DOMAIN queue[b] : Closing(queue[b][m], c) => m = j
      BY DEF CountInv, ClosesOnce
    <2> QED BY <1>4, <2>1, Members
  <1>9. LoginsFirst'
    <2> SUFFICES ASSUME NEW b \in early, up[b] = "backup", NEW c \in Clients
                 PROVE  OpensFirst(b, c)' /\ LoginComes(b, c)'
      BY <1>1 DEF LoginsFirst
    <2>0. b \in Backups
      BY DEF Types, Kinds
    <2>1. OpensFirst(b, c) /\ LoginComes(b, c)
      BY DEF CountInv, LoginsFirst
    <2>2. counted'[b] = counted[b]
      BY <1>6, <2>0
    <2>3. OpensFirst(b, c)'
      BY <1>1, <2>1, <2>2 DEF OpensFirst, Opening, Closing
    <2>4. LoginComes(b, c)'
      <3> SUFFICES ASSUME up[primary] = "serving", c \in counted'[primary]
                   PROVE  \/ c \in counted[b]
                          \/ \E m \in DOMAIN queue[b] : Opening(queue[b][m], c)
                          \/ Ahead(c, b)' /\ packet'[c].cmd = "PROFILE"
        BY <1>1, <2>2 DEF LoginComes, Opening
      <3>1. CASE c \in counted[primary]
        BY <1>4, <1>5, <2>1, <3>1, Members DEF LoginComes
      <3>2. CASE c \notin counted[primary]
        <4>1. c = k /\ k \in counted'[s] \ counted[s]
          BY <1>3, <3>2
        <4>2. PICK x \in DOMAIN listBackups[primary] : listBackups[primary][x] = b
          BY DEF CountInv, Vectors
        <4>3. packet'[k].cmd = "PROFILE" /\ i'[k] = 1 /\ pc'[k] = "forward"
          BY <4>1
        <4>4. x \in Nat /\ 1 <= x
          <5>1. listBackups[primary] \in Seq(Backups)
            BY Members DEF Types, Kinds
          <5> QED BY <4>2, <5>1
        <4>5. packet'[k] # nullptr
          BY <4>3, Members DEF Types, PacketsOK
        <4>6. Ahead(k, b)'
          BY <1>1, <4>2, <4>3, <4>4, <4>5 DEF Ahead
        <4> QED BY <4>1, <4>3, <4>6
      <3> QED BY <3>1, <3>2
    <2> QED BY <2>3, <2>4
  <1>10. CountedKnown'
    <2>1. ASSUME NEW r \in Servers, NEW c \in counted'[r] PROVE profileOf[c] \in KnownAt(r)'
      <3>1. CASE c \in counted[r]
        BY <3>1 DEF CountInv, CountedKnown, KnownAt
      <3>2. CASE c \notin counted[r]
        BY <2>1, <3>2
      <3> QED BY <3>1, <3>2
    <2>2. ASSUME NEW c \in Clients, at'[c] = primary, up[primary] = "serving",
                 pc'[c] \in {"forward", "fetch", "idle", "closing"}
          PROVE  c \in counted'[primary]
      <3>1. s = primary /\ at[c] = primary
        BY <1>3, <2>2 DEF Types, Places
      <3>2. CASE pc[c] \in {"forward", "fetch", "idle", "closing"}
        BY <2>2, <3>1, <3>2 DEF CountInv, CountedKnown
      <3>3. CASE pc[c] \notin {"forward", "fetch", "idle", "closing"}
        BY <2>2, <3>1, <3>3, Members
      <3> QED BY <3>2, <3>3
    <2> QED BY <1>1, <2>1, <2>2 DEF CountedKnown
  <1>11. ASSUME NEW r \in Servers \ {s} PROVE Counts(r)'
    <2>1. r \in Servers /\ profiles'[r] = profiles[r] /\ counted'[r] = counted[r]
      OBVIOUS
    <2>2. Alive(r)' => Alive(r)
      BY <1>1 DEF Alive
    <2>3. KnownAt(r)' = KnownAt(r)
      BY <2>1 DEF KnownAt
    <2>4. ASSUME NEW c \in Clients, Alive(r)
          PROVE  /\ at[c] = r /\ pc[c] # "out" => at'[c] = r /\ pc'[c] # "out"
                 /\ Stays(r, c)' => Stays(r, c)
      <3>1. CASE c = k
        BY <2>4, <3>1 DEF Stays, Alive
      <3>2. CASE c # k
        BY <1>1, <1>4, <3>2, Members DEF Stays, CloseWaits, Closing
      <3> QED BY <3>1, <3>2
    <2> QED BY <2>1, <2>2, <2>3, <2>4, QuietCounts DEF CountInv
  <1> QED BY <1>7, <1>8, <1>9, <1>10, <1>11

LEMMA StartsForward ==
  ASSUME Types, NEW k \in Threads, NEW pkt, StartForward(k, pkt)
  PROVE  /\ packet'[k] = pkt /\ i'[k] = 1
         /\ pc'[k] = IF pkt.cmd = "CLOSE_CONN" THEN "closing" ELSE "forward"
         /\ \A t \in Threads \ {k} : packet'[t] = packet[t] /\ i'[t] = i[t] /\ pc'[t] = pc[t]
  BY DEF StartForward, Types, Kinds

(* A thread that waits for its client has nothing to forward. *)
LEMMA NothingToForward ==
  ASSUME Types, NEW k \in Clients, pc[k] \in {"out", "idle", "fetch"}
  PROVE  packet[k] = nullptr /\ k \in Threads /\ at[k] \in Servers
  BY Members DEF Types, PacketsOK, Kinds

LEMMA CarryOutCounts ==
  ASSUME Types, Types', CountInv, NEW k \in Clients, NEW pkt \in Packets, FromClient(pkt, k),
         CarryOut(k, pkt), pc[k] \in {"out", "idle"}, pkt.cmd # "CLOSE_CONN",
         pkt.cmd = "PROFILE" <=> pc[k] = "out"
  PROVE  CountInv'
  <1> DEFINE new == processPacket(profiles[at[k]], k, pkt)
  <1>1. PICK s \in Servers : s = at[k]
    BY DEF Types, Kinds
  <1>2. /\ up[s] = "serving" /\ StartForward(k, pkt)
        /\ profiles' = [profiles EXCEPT ![s] = new]
        /\ counted' = [counted EXCEPT ![s] = countedAfter(@, pkt)]
        /\ UNCHANGED <<up, leaked, listVars, netVars, at>>
    BY <1>1 DEF CarryOut
  <1>3. packet[k] = nullptr /\ k \in Threads
    BY NothingToForward
  <1>4. /\ packet'[k] = pkt /\ i'[k] = 1 /\ pc'[k] = "forward"
        /\ \A t \in Threads \ {k} : packet'[t] = packet[t] /\ i'[t] = i[t] /\ pc'[t] = pc[t]
    BY <1>2, <1>3, StartsForward
  <1>5. /\ profiles'[s] = new
        /\ counted'[s] = countedAfter(counted[s], pkt)
        /\ \A r \in Servers \ {s} : profiles'[r] = profiles[r] /\ counted'[r] = counted[r]
    BY <1>2 DEF Types, Kinds
  <1>6. /\ pkt.client = k
        /\ pkt.cmd = "PROFILE" => pkt.payload = profileOf[k]
        /\ pkt.cmd \in {"PROFILE", "FOLLOW", "SEND"}
        /\ pkt.cmd # "PROFILE" => pkt.sender = profileOf[k]
    BY DEF FromClient
  <1>7. Closed(profiles[s]) /\ Names(profiles[s]) = KnownAt(s)
    BY MapsClosed, KnownNames
  <1>8. WellFormed(pkt) /\ SenderKnown(profiles[s], pkt)
    <2>1. pkt.cmd # "PROFILE" => profileOf[k] \in KnownAt(s)
      BY <1>1, <1>2 DEF Types, LoggedIn
    <2> QED BY <1>6, <1>7, <2>1 DEF WellFormed, SenderKnown
  <1>9. /\ KnownAt(s)' = KnownAt(s) \cup (IF pkt.cmd = "PROFILE" THEN {pkt.payload} ELSE {})
        /\ \A p \in KnownAt(s) :
             /\ profiles[s][p].sessions_on \in Int /\ new[p].sessions_on \in Int
             /\ new[p].sessions_on = IF pkt.cmd = "PROFILE" /\ pkt.payload = p
                                     THEN profiles[s][p].sessions_on + 1
                                     ELSE profiles[s][p].sessions_on
        /\ pkt.cmd = "PROFILE" /\ pkt.payload \notin KnownAt(s) => new[pkt.payload].sessions_on = 1
    <2>1. k \in ConnsOrNull /\ KnownAt(s)' = Names(new)
      BY <1>5 DEF ConnsOrNull, KnownAt, Names
    <2> QED BY <1>1, <1>6, <1>7, <1>8, <2>1, Sessions
  <1> HIDE DEF new
  <1>10. counted'[s] = IF pkt.cmd = "PROFILE" THEN counted[s] \cup {k} ELSE counted[s]
    BY <1>5, <1>6 DEF countedAfter
  <1>11. /\ Vectors' /\ ClosesOnce' /\ LoginsFirst' /\ CountedKnown'
         /\ \A r \in Servers \ {s} : Counts(r)'
    <2>1. KnownAt(s) \subseteq KnownAt(s)'
      BY <1>9
    <2>2. at'[k] = s /\ at[k] = s /\ \A c \in Clients \ {k} : at'[c] = at[c]
      BY <1>1, <1>2
    <2>3. k \in counted'[s] \ counted[s] =>
            profileOf[k] \in KnownAt(s)' /\ packet'[k].cmd = "PROFILE" /\ pc'[k] = "forward" /\ i'[k] = 1
      BY <1>4, <1>6, <1>9, <1>10
    <2>4. counted'[s] \in {counted[s], counted[s] \cup {k}}
      BY <1>10
    <2>5. pc[k] \in {"forward", "fetch", "idle", "closing"} \/ k \in counted'[s]
      BY <1>10
    <2> QED BY <1>2, <1>3, <1>4, <1>5, <2>1, <2>2, <2>3, <2>4, <2>5, ClientCounts
  <1>12. \A c \in Clients : Stays(s, c)' => Stays(s, c)
    <2>1. ASSUME NEW c \in Clients, c # k PROVE Stays(s, c)' => Stays(s, c)
      BY <1>2, <1>4, <2>1, Members DEF Stays, CloseWaits, Ahead, Closing, listVars, netVars
    <2> QED BY <2>1 DEF Stays
  <1>13. \A c \in Clients \ {k} : at'[c] = at[c] /\ pc'[c] = pc[c]
    BY <1>2, <1>4, Members
  <1>14. Counts(s)'
    <2>1. CASE pkt.cmd # "PROFILE"
      <3>1. \A p \in KnownAt(s) : profiles'[s][p].sessions_on = profiles[s][p].sessions_on
        BY <1>5, <1>9, <2>1
      <3>2. Alive(s)' => Alive(s)
        BY <1>2 DEF Alive, listVars
      <3>3. at'[k] = at[k] /\ pc'[k] # "out"
        BY <1>2, <1>4
      <3> QED BY <1>9, <1>10, <1>12, <1>13, <2>1, <3>1, <3>2, <3>3, QuietCounts DEF CountInv
    <2>2. CASE pkt.cmd = "PROFILE"
      <3>1. counted'[s] = counted[s] \cup {k} /\ KnownAt(s)' = KnownAt(s) \cup {profileOf[k]}
        BY <1>6, <1>9, <1>10, <2>2
      <3>2. Alive(s)' => Alive(s)
        BY <1>2 DEF Alive, listVars
      <3>3. /\ \A p \in KnownAt(s) :
                 profiles'[s][p].sessions_on = IF p = profileOf[k] THEN profiles[s][p].sessions_on + 1
                                               ELSE profiles[s][p].sessions_on
            /\ profileOf[k] \notin KnownAt(s) => profiles'[s][profileOf[k]].sessions_on = 1
        BY <1>5, <1>6, <1>9, <2>2
      <3> QED BY <1>12, <1>13, <2>2, <3>1, <3>2, <3>3, OpenedCounts
    <2> QED BY <2>1, <2>2
  <1>15. CountsOK'
    BY <1>11, <1>14 DEF CountsOK
  <1> QED BY <1>11, <1>15 DEF CountInv

LEMMA LoginCounts ==
  ASSUME Types, CountInv, NEW k \in Clients, Login(k)
  PROVE  CountInv'
  <1> DEFINE pkt == Packet("PROFILE", profileOf[k], nullptr, k)
  <1>1. pkt \in Packets /\ FromClient(pkt, k) /\ pkt.cmd = "PROFILE"
    BY ClientPackets
  <1>2. pc[k] = "out" /\ CarryOut(k, pkt)
    BY DEF Login
  <1> HIDE DEF pkt
  <1> QED BY <1>1, <1>2, LoginTypes, CarryOutCounts

LEMMA FollowCounts ==
  ASSUME Types, CountInv, NEW k \in Clients, NEW p \in ProfileIds, Follow(k, p)
  PROVE  CountInv'
  <1> DEFINE pkt == Packet("FOLLOW", p, profileOf[k], k)
  <1>1. pkt \in Packets /\ FromClient(pkt, k) /\ pkt.cmd = "FOLLOW"
    BY ClientPackets
  <1>2. pc[k] = "idle" /\ CarryOut(k, pkt)
    BY DEF Follow, Command
  <1> HIDE DEF pkt
  <1> QED BY <1>1, <1>2, FollowTypes, CarryOutCounts

LEMMA TweetCounts ==
  ASSUME Types, CountInv, NEW k \in Clients, Tweet(k)
  PROVE  CountInv'
  <1> DEFINE n == inputs[k] + 1
             pkt == Packet("SEND", <<k, n>>, profileOf[k], k)
  <1>0. n \in Nat
    BY DEF Types, Kinds
  <1>1. pc[k] = "idle" /\ CarryOut(k, pkt)
    BY DEF Tweet, Command
  <1> HIDE DEF n
  <1>2. pkt \in Packets /\ FromClient(pkt, k) /\ pkt.cmd = "SEND"
    BY <1>0, ClientPackets
  <1> HIDE DEF pkt
  <1> QED BY <1>1, <1>2, TweetTypes, CarryOutCounts

(* A client's step that opens and closes nothing. *)
LEMMA SameClientCounts ==
  ASSUME Types, Types', CountInv, NEW k \in Clients, NEW s \in Servers,
         packet[k] = nullptr, pc[k] \notin {"closing", "ended"}, up[s] = "serving",
         at' = [at EXCEPT ![k] = s], at[k] = s \/ up[at[k]] = "dead",
         UNCHANGED <<up, counted, listVars, netVars, packet, i>>,
         NEW l, pc' = [pc EXCEPT ![k] = l], pc[k] # "out" => l # "out",
         l \in {"forward", "fetch", "idle", "closing"} =>
           pc[k] \in {"forward", "fetch", "idle", "closing"},
         \A r \in Servers \ {s} : profiles'[r] = profiles[r],
         KnownAt(s)' = KnownAt(s),
         \A p \in KnownAt(s) : profiles'[s][p].sessions_on = profiles[s][p].sessions_on
  PROVE  CountInv'
  <1>1. /\ at'[k] = s /\ \A c \in Clients \ {k} : at'[c] = at[c]
        /\ pc'[k] = l /\ \A t \in Threads \ {k} : pc'[t] = pc[t]
    BY Members DEF Types, Kinds
  <1>2. /\ Vectors' /\ ClosesOnce' /\ LoginsFirst' /\ CountedKnown'
        /\ \A r \in Servers \ {s} : Counts(r)'
    BY <1>1, ClientCounts
  <1>3. Counts(s)'
    <2>1. Alive(s)' => Alive(s)
      BY DEF Alive, listVars
    <2>2. ASSUME NEW c \in Clients
          PROVE  /\ at[c] = s /\ pc[c] # "out" => at'[c] = s /\ pc'[c] # "out"
                 /\ Stays(s, c)' => Stays(s, c)
      <3>1. CASE c = k
        BY <1>1, <3>1 DEF Stays
      <3>2. CASE c # k
        BY <1>1, <3>2, Members DEF Stays, CloseWaits, Ahead, Closing, listVars, netVars
      <3> QED BY <3>1, <3>2
    <2> QED BY <2>1, <2>2, QuietCounts DEF CountInv
  <1>4. CountsOK'
    BY <1>2, <1>3 DEF CountsOK
  <1> QED BY <1>2, <1>4 DEF CountInv

LEMMA LoginRefusedCounts ==
  ASSUME Types, CountInv, NEW k \in Clients, LoginRefused(k)
  PROVE  CountInv'
  <1>1. /\ pc[k] = "out" /\ up[at[k]] = "serving"
        /\ pc' = [pc EXCEPT ![k] = "ended"]
        /\ UNCHANGED <<up, profiles, counted, listVars, netVars, at, packet, i>>
    BY DEF LoginRefused
  <1>2. PICK s \in Servers : s = at[k]
    BY DEF Types, Kinds
  <1>3. at' = [at EXCEPT ![k] = s]
    BY <1>1, <1>2 DEF Types, Kinds
  <1>4. KnownAt(s)' = KnownAt(s)
    BY <1>1 DEF KnownAt
  <1>5. packet[k] = nullptr /\ Types'
    BY <1>1, NothingToForward, LoginRefusedTypes
  <1> QED BY <1>1, <1>2, <1>3, <1>4, <1>5, SameClientCounts

LEMMA FetchCounts ==
  ASSUME Types, CountInv, NEW k \in Clients, Fetch(k)
  PROVE  CountInv'
  <1> DEFINE p == profileOf[k]
  <1>1. PICK s \in Servers : s = at[k]
    BY DEF Types, Kinds
  <1>2. /\ pc[k] = "fetch" /\ up[s] = "serving"
        /\ profiles' = [profiles EXCEPT ![s][p] = emptied(@)]
        /\ pc' = [pc EXCEPT ![k] = "idle"]
        /\ UNCHANGED <<up, counted, listVars, netVars, at, packet, i>>
    BY <1>1 DEF Fetch
  <1>3. at' = [at EXCEPT ![k] = s]
    BY <1>1, <1>2 DEF Types, Kinds
  <1>4. p \in KnownAt(s) /\ profiles[s] \in Maps
    BY <1>1, <1>2 DEF Types, LoggedIn, Kinds
  <1>5. /\ profiles'[s] = [profiles[s] EXCEPT ![p] = emptied(profiles[s][p])]
        /\ \A r \in Servers \ {s} : profiles'[r] = profiles[r]
    BY <1>2 DEF Types, Kinds
  <1>6. /\ emptied(profiles[s][p]) \in Objects
        /\ emptied(profiles[s][p]).sessions_on = profiles[s][p].sessions_on
    BY <1>4, KnownObject, Emptied DEF emptied, Objects
  <1>7. /\ KnownAt(s)' = KnownAt(s)
        /\ \A q \in KnownAt(s) : profiles'[s][q].sessions_on = profiles[s][q].sessions_on
    <2>1. \A q \in ProfileIds : q # p => profiles'[s][q] = profiles[s][q]
      BY <1>4, <1>5 DEF Maps
    <2>2. profiles'[s][p] = emptied(profiles[s][p])
      BY <1>4, <1>5, KnownObject DEF Maps
    <2>3. profiles'[s][p] # nullptr /\ profiles[s][p] # nullptr /\ p \in ProfileIds
      BY <1>4, <1>6, <2>2, KnownObject, ObjectIsNotNull
    <2>4. KnownAt(s)' = KnownAt(s)
      BY <2>1, <2>3 DEF KnownAt
    <2>5. \A q \in KnownAt(s) : q \in ProfileIds
      BY DEF KnownAt
    <2> QED BY <1>6, <2>1, <2>2, <2>4, <2>5
  <1>8. packet[k] = nullptr /\ Types'
    BY <1>2, NothingToForward, FetchTypes
  <1> QED BY <1>1, <1>2, <1>3, <1>5, <1>7, <1>8, SameClientCounts

LEMMA ReconnectCounts ==
  ASSUME Types, CountInv, NEW k \in Clients, NEW s \in Servers, Reconnect(k, s)
  PROVE  CountInv'
  <1> DEFINE p == profileOf[k]
             o == updateSessionsOn(profiles[s][p], k)
  <1>1. /\ pc[k] \notin {"out", "closing", "ended"} /\ up[at[k]] = "dead" /\ up[s] = "serving"
        /\ p \in KnownAt(s)
        /\ at' = [at EXCEPT ![k] = s]
        /\ profiles' = [profiles EXCEPT ![s][p] = o]
        /\ pc' = [pc EXCEPT ![k] = "fetch"]
        /\ UNCHANGED <<up, counted, listVars, netVars, packet, i>>
    BY DEF Reconnect, Returns, Types, Kinds
  <1>2. packet[k] = nullptr /\ pc[k] \in {"idle", "fetch", "forward"}
    BY <1>1, Members DEF Types, Kinds, PacketsOK, Places, Locations
  <1>3. /\ o \in Objects /\ o.sessions_on = profiles[s][p].sessions_on
    BY <1>1, KnownObject, UpdateSessionsOn DEF updateSessionsOn, Objects, ConnsOrNull
  <1>4. profiles[s] \in Maps
    BY DEF Types, Kinds
  <1> HIDE DEF o
  <1>5. /\ profiles'[s] = [profiles[s] EXCEPT ![p] = o]
        /\ \A r \in Servers \ {s} : profiles'[r] = profiles[r]
    BY <1>1 DEF Types, Kinds
  <1>6. /\ KnownAt(s)' = KnownAt(s)
        /\ \A q \in KnownAt(s) : profiles'[s][q].sessions_on = profiles[s][q].sessions_on
    <2>1. \A q \in ProfileIds : q # p => profiles'[s][q] = profiles[s][q]
      BY <1>4, <1>5 DEF Maps
    <2>2. profiles'[s][p] = o
      BY <1>1, <1>4, <1>5, KnownObject DEF Maps
    <2>3. profiles'[s][p] # nullptr /\ profiles[s][p] # nullptr /\ p \in ProfileIds
      BY <1>1, <1>3, <2>2, KnownObject, ObjectIsNotNull
    <2>4. KnownAt(s)' = KnownAt(s)
      BY <2>1, <2>3 DEF KnownAt
    <2>5. \A q \in KnownAt(s) : q \in ProfileIds
      BY DEF KnownAt
    <2> QED BY <1>3, <2>1, <2>2, <2>4, <2>5
  <1>7. Types'
    BY ReconnectTypes
  <1> QED BY <1>1, <1>2, <1>5, <1>6, <1>7, SameClientCounts

LEMMA StartClientCounts ==
  ASSUME Types, CountInv, NEW k \in Clients, NEW s \in Servers, StartClient(k, s)
  PROVE  CountInv'
  <1>1. /\ pc[k] = "out" /\ up[at[k]] = "dead" /\ up[s] = "serving"
        /\ at' = [at EXCEPT ![k] = s]
        /\ UNCHANGED <<up, profiles, counted, listVars, netVars, pc, packet, i>>
    BY DEF StartClient, mapVars
  <1>2. pc' = [pc EXCEPT ![k] = "out"]
    BY <1>1, Members DEF Types, Kinds
  <1>3. packet[k] = nullptr /\ Types'
    BY <1>1, NothingToForward, StartClientTypes
  <1>4. KnownAt(s)' = KnownAt(s)
    BY <1>1 DEF KnownAt
  <1> QED BY <1>1, <1>2, <1>3, <1>4, SameClientCounts

(* CLOSE_CONN: the client was counted, and leaves. *)
LEMMA CloseCounts ==
  ASSUME Types, CountInv, NEW k \in Clients, Close(k)
  PROVE  CountInv'
  <1> DEFINE named == Packet("CLOSE_CONN", nullptr, profileOf[k], k)
             new == processPacket(profiles[at[k]], k, named)
             p == profileOf[k]
  <1>1. PICK s \in Servers : s = at[k]
    BY DEF Types, Kinds
  <1>2. /\ pc[k] = "idle" /\ up[s] = "serving"
        /\ profiles' = [profiles EXCEPT ![s] = new]
        /\ StartForward(k, named) \/ StartForward(k, [named EXCEPT !.sender = nullptr])
        /\ UNCHANGED <<up, leaked, counted, listVars, netVars, at>>
    BY <1>1 DEF Close
  <1>3. /\ named.cmd = "CLOSE_CONN" /\ [named EXCEPT !.sender = nullptr].cmd = "CLOSE_CONN"
        /\ named.sender = p /\ named.client = k
    BY DEF Packet
  <1>4. p \in KnownAt(s) /\ Closed(profiles[s]) /\ Names(profiles[s]) = KnownAt(s)
    BY <1>1, <1>2, MapsClosed, KnownNames DEF Types, LoggedIn
  <1>5. WellFormed(named) /\ SenderKnown(profiles[s], named) /\ k \in ConnsOrNull
    BY <1>3, <1>4 DEF WellFormed, FromClient, SenderKnown, ConnsOrNull
  <1>6. /\ Names(new) = KnownAt(s)
        /\ \A q \in KnownAt(s) :
             /\ profiles[s][q].sessions_on \in Int /\ new[q].sessions_on \in Int
             /\ IF q = p THEN new[q].sessions_on >= profiles[s][q].sessions_on - 1
                ELSE new[q].sessions_on = profiles[s][q].sessions_on
    <2>1. new = processPacket(profiles[s], k, named)
      BY <1>1
    <2> HIDE DEF named, new
    <2>2. /\ Names(new) = Names(profiles[s])
          /\ \A q \in Names(profiles[s]) :
               /\ profiles[s][q].sessions_on \in Int /\ new[q].sessions_on \in Int
               /\ IF named.sender = q THEN new[q].sessions_on >= profiles[s][q].sessions_on - 1
                  ELSE new[q].sessions_on = profiles[s][q].sessions_on
      <3>1. /\ Names(new) = Names(profiles[s]) \cup (IF named.cmd = "PROFILE" THEN {named.payload} ELSE {})
            /\ \A q \in Names(profiles[s]) :
                 /\ profiles[s][q].sessions_on \in Int /\ new[q].sessions_on \in Int
                 /\ IF named.cmd = "PROFILE" /\ named.payload = q
                    THEN new[q].sessions_on = profiles[s][q].sessions_on + 1
                    ELSE IF named.cmd = "CLOSE_CONN" /\ named.sender = q
                    THEN new[q].sessions_on >= profiles[s][q].sessions_on - 1
                    ELSE new[q].sessions_on = profiles[s][q].sessions_on
        BY <1>4, <1>5, <2>1, Sessions
      <3> QED BY <1>3, <3>1
    <2> QED BY <1>3, <1>4, <2>2
  <1>7. packet[k] = nullptr /\ k \in Threads /\ Types'
    BY <1>2, NothingToForward, CloseTypes
  <1> HIDE DEF new
  <1>8. /\ i'[k] = 1 /\ pc'[k] = "closing"
        /\ \A t \in Threads \ {k} : packet'[t] = packet[t] /\ i'[t] = i[t] /\ pc'[t] = pc[t]
    <2> HIDE DEF named
    <2> QED BY <1>2, <1>3, <1>7, StartsForward
  <1>9. /\ profiles'[s] = new
        /\ \A r \in Servers \ {s} : profiles'[r] = profiles[r]
    BY <1>2 DEF Types, Kinds
  <1>10. KnownAt(s)' = KnownAt(s)
    BY <1>6, <1>9 DEF KnownAt, Names
  <1>11. /\ Vectors' /\ ClosesOnce' /\ LoginsFirst' /\ CountedKnown'
         /\ \A r \in Servers \ {s} : Counts(r)'
    <2>1. at'[k] = s /\ at[k] = s /\ \A c \in Clients \ {k} : at'[c] = at[c]
      BY <1>1, <1>2
    <2>2. counted'[s] = counted[s] /\ \A r \in Servers \ {s} : counted'[r] = counted[r]
      BY <1>2
    <2> QED BY <1>2, <1>7, <1>8, <1>9, <1>10, <2>1, <2>2, ClientCounts
  <1>12. Counts(s)'
    <2>1. Alive(s)' => Alive(s)
      BY <1>2 DEF Alive, listVars
    <2>2. \A q \in KnownAt(s) :
            /\ profiles'[s][q].sessions_on \in Int
            /\ IF q = p THEN profiles'[s][q].sessions_on >= profiles[s][q].sessions_on - 1
               ELSE profiles'[s][q].sessions_on = profiles[s][q].sessions_on
      BY <1>6, <1>9
    <2>3. \A c \in Clients : at[c] = s /\ pc[c] # "out" => at'[c] = s /\ pc'[c] # "out"
      BY <1>2, <1>8, Members
    <2>4. Stays(s, k)
      BY <1>2 DEF Stays
    <2>5. \A c \in Clients : Stays(s, c)' => Stays(s, c)
      <3>1. ASSUME NEW c \in Clients, c # k PROVE Stays(s, c)' => Stays(s, c)
        BY <1>2, <1>8, <3>1, Members DEF Stays, CloseWaits, Ahead, Closing, listVars, netVars
      <3> QED BY <2>4, <3>1
    <2>6. ~Stays(s, k)'
      <3>1. ASSUME s \in Backups PROVE queue[s] = <<>> /\ DOMAIN listBackups[primary] = {}
        <4>1. up[primary] = "dead"
          BY <1>2, <3>1 DEF Types, Places
        <4> QED BY <1>2, <3>1, <4>1 DEF CountInv, Vectors
      <3>2. s \in Backups => ~CloseWaits(s, k)'
        BY <1>2, <3>1 DEF CloseWaits, Ahead, listVars, netVars
      <3> QED BY <1>8, <3>2 DEF Stays
    <2>7. AllCounted(s, p) => k \in counted[s]
      BY <1>1, <1>2 DEF AllCounted
    <2>8. counted'[s] = counted[s]
      BY <1>2
    <2> QED BY <1>10, <2>1, <2>2, <2>3, <2>4, <2>5, <2>6, <2>7, <2>8, ClosedCounts
  <1>13. CountsOK'
    BY <1>11, <1>12 DEF CountsOK
  <1> QED BY <1>11, <1>13 DEF CountInv

(* Only the primary hands packets on, and a backup that it hands one to has
   joined before. *)
LEMMA Hands ==
  ASSUME Types, CountInv, NEW t \in Threads, MoreBackups(t)
  PROVE  /\ ServerOf(t) = primary /\ up[primary] = "serving" /\ packet[t] # nullptr
         /\ i[t] \in DOMAIN listBackups[primary] /\ NextBackup(t) = listBackups[primary][i[t]]
         /\ NextBackup(t) \in Backups /\ Ahead(t, NextBackup(t))
         /\ pc[NextBackup(t)] \notin {"out", "joining"}
         /\ packet[t].cmd = "CLOSE_CONN" =>
              t \in Clients /\ pc[t] = "closing" /\ packet[t].client = t /\ at[t] = primary
         /\ packet[t].cmd = "PROFILE" => t \in Clients /\ packet[t].client = t
  <1>1. /\ NextBackup(t) \in Backups
        /\ i[t] \in DOMAIN listBackups[ServerOf(t)]
        /\ Forwarding(t)
    BY AddressedBackup DEF MoreBackups
  <1>2. packet[t] # nullptr /\ up[ServerOf(t)] = "serving"
    BY <1>1 DEF Forwarding, Types, PacketsOK
  <1>3. ServerOf(t) = primary
    <2>1. \A b \in Backups : DOMAIN listBackups[b] = {}
      BY DEF CountInv, Vectors
    <2> QED BY <1>1, <2>1, ServerOfOK, Members DEF Types
  <1>4. NextBackup(t) = listBackups[primary][i[t]]
    BY <1>3 DEF NextBackup
  <1>5. i[t] \in Nat
    BY DEF Types, Kinds
  <1>6. Ahead(t, NextBackup(t))
    BY <1>1, <1>2, <1>3, <1>4, <1>5 DEF Ahead
  <1>7. pc[NextBackup(t)] \notin {"out", "joining"}
    BY <1>1, <1>2, <1>3, <1>4 DEF CountInv, Vectors
  <1>8. CASE t \in Clients
    BY <1>1, <1>2, <1>3, <1>4, <1>6, <1>7, <1>8 DEF Types, PacketsOK, FromClient, ServerOf
  <1>9. CASE t \in Backups
    BY <1>1, <1>2, <1>3, <1>4, <1>6, <1>7, <1>9 DEF Types, PacketsOK, IsList
  <1> QED BY <1>8, <1>9, Members

LEMMA ForwardCounts ==
  ASSUME Types, CountInv, NEW t \in Threads, Forward(t)
  PROVE  CountInv'
  <1>0. PICK b \in Backups : b = NextBackup(t)
    BY Hands DEF Forward
  <1> DEFINE x == i[t]
             n == Len(queue[b])
  <1>1. /\ MoreBackups(t)
        /\ i' = [i EXCEPT ![t] = @ + 1]
        /\ \/ up[b] # "dead" /\ queue' = [queue EXCEPT ![b] = Append(@, packet[t])]
           \/ up[b] = "dead" /\ UNCHANGED queue
        /\ UNCHANGED <<up, mapVars, listVars, pc, at, packet>>
    BY <1>0 DEF Forward
  <1>2. /\ ServerOf(t) = primary /\ up[primary] = "serving" /\ packet[t] # nullptr
        /\ x \in DOMAIN listBackups[primary] /\ b = listBackups[primary][x]
        /\ b \in Backups /\ Ahead(t, b) /\ pc[b] \notin {"out", "joining"}
        /\ packet[t].cmd = "CLOSE_CONN" =>
              t \in Clients /\ pc[t] = "closing" /\ packet[t].client = t /\ at[t] = primary
        /\ packet[t].cmd = "PROFILE" => t \in Clients /\ packet[t].client = t
    BY <1>0, <1>1, Hands
  <1>3. /\ \A c \in Backups \ {b} : queue'[c] = queue[c]
        /\ n \in Nat /\ DOMAIN queue[b] = 1 .. n
        /\ \A j \in 1 .. n : queue'[b][j] = queue[b][j]
        /\ \/ queue'[b] = queue[b]
           \/ DOMAIN queue'[b] = 1 .. n + 1 /\ queue'[b][n + 1] = packet[t]
        /\ up[b] = "backup" => DOMAIN queue'[b] = 1 .. n + 1 /\ queue'[b][n + 1] = packet[t]
    <2> DEFINE q == Append(queue[b], packet[t])
    <2>1. queue \in [Backups -> Seq(Packets)] /\ packet[t] \in Packets /\ queue[b] \in Seq(Packets)
      BY <1>2 DEF Types, Kinds
    <2>2. /\ n \in Nat /\ DOMAIN queue[b] = 1 .. n
          /\ DOMAIN q = 1 .. n + 1 /\ q[n + 1] = packet[t] /\ \A j \in 1 .. n : q[j] = queue[b][j]
      BY <2>1
    <2>3. /\ \A c \in Backups \ {b} : queue'[c] = queue[c]
          /\ queue'[b] = queue[b] \/ queue'[b] = q
          /\ up[b] = "backup" => queue'[b] = q
      BY <1>1, <1>2, <2>1
    <2> HIDE DEF n, q
    <2> QED BY <2>2, <2>3
  <1> HIDE DEF n
  <1>4. /\ i'[t] = x + 1 /\ x \in Nat /\ \A c \in Threads \ {t} : i'[c] = i[c]
        /\ \A y \in DOMAIN listBackups[primary] : y \in Nat
    <2>1. listBackups[primary] \in Seq(Backups)
      BY Members DEF Types, Kinds
    <2> QED BY <1>1, <2>1 DEF Types, Kinds
  <1>5. \A c \in Threads : \A d : Ahead(c, d)' => Ahead(c, d)
    BY <1>1, <1>4 DEF Ahead, listVars
  <1>6. ~Ahead(t, b)'
    <2>1. \A y \in DOMAIN listBackups[primary] : listBackups[primary][y] = b => y = x
      BY <1>2 DEF CountInv, Vectors
    <2>2. \A y \in DOMAIN listBackups[primary] : i'[t] <= y => listBackups[primary][y] # b
      BY <1>4, <2>1
    <2> QED BY <1>1, <2>2 DEF Ahead, listVars
  <1>7. \A c \in Threads : \A d : Ahead(c, d) => Ahead(c, d)' \/ (c = t /\ d = b)
    <2> SUFFICES ASSUME NEW c \in Threads, NEW d, Ahead(c, d), ~(c = t /\ d = b)
                 PROVE  Ahead(c, d)'
      OBVIOUS
    <2>1. PICK y \in DOMAIN listBackups[primary] : i[c] <= y /\ listBackups[primary][y] = d
      BY DEF Ahead
    <2>2. i'[c] <= y
      <3>1. CASE c # t
        BY <1>4, <2>1, <3>1
      <3>2. CASE c = t
        <4>1. y # x
          BY <1>2, <2>1, <3>2
        <4> QED BY <1>4, <2>1, <3>2, <4>1
      <3> QED BY <3>1, <3>2
    <2> QED BY <1>1, <2>1, <2>2 DEF Ahead, listVars
  <1>8. CountsOK'
    <2>1. ASSUME NEW s \in Servers, NEW k \in Clients, Stays(s, k)' PROVE Stays(s, k)
      <3> SUFFICES ASSUME pc[k] \in {"closing", "ended"}, s \in Backups, CloseWaits(s, k)'
                   PROVE  CloseWaits(s, k)
        BY <1>1, <2>1 DEF Stays
      <3>1. CASE Ahead(k, s)' /\ packet'[k].cmd = "CLOSE_CONN"
        BY <1>1, <1>5, <3>1, Members DEF CloseWaits
      <3>2. ASSUME NEW j \in DOMAIN queue'[s], Closing(queue'[s][j], k) PROVE CloseWaits(s, k)
        <4>1. CASE s # b
          BY <1>3, <3>2, <4>1 DEF CloseWaits
        <4>2. CASE s = b /\ j \in 1 .. n
          BY <1>3, <3>2, <4>2 DEF CloseWaits
        <4>3. CASE s = b /\ j = n + 1 /\ queue'[b][j] = packet[t]
          BY <1>2, <3>2, <4>3 DEF CloseWaits, Closing
        <4>4. s = b => j \in 1 .. n \/ (j = n + 1 /\ queue'[b][j] = packet[t])
          BY <1>3, <3>2
        <4> QED BY <4>1, <4>2, <4>3, <4>4
      <3>3. \/ \E j \in DOMAIN queue'[s] : Closing(queue'[s][j], k)
            \/ Ahead(k, s)' /\ packet'[k].cmd = "CLOSE_CONN"
        BY DEF CloseWaits, Closing
      <3> QED BY <3>1, <3>2, <3>3
    <2>2. ASSUME NEW s \in Servers PROVE Counts(s)'
      <3>1. Alive(s)' => Alive(s)
        BY <1>1 DEF Alive, listVars
      <3>2. KnownAt(s)' = KnownAt(s) /\ counted'[s] = counted[s] /\ profiles' = profiles
        BY <1>1 DEF KnownAt, mapVars
      <3> QED BY <1>1, <2>1, <3>1, <3>2, QuietCounts DEF CountInv
    <2> QED BY <2>2 DEF CountsOK
  <1>9. CountedKnown'
    BY <1>1 DEF CountInv, CountedKnown, KnownAt, mapVars
  <1>10. Vectors'
    <2>1. /\ listBackups' = listBackups /\ early' = early /\ up' = up /\ pc' = pc /\ counted' = counted
          /\ \A c : KnownAt(c)' = KnownAt(c)
      BY <1>1 DEF listVars, mapVars, KnownAt
    <2>2. \A c \in Backups : pc[c] \in {"out", "joining"} => queue'[c] = queue[c]
      BY <1>2, <1>3
    <2>3. \A c \in Backups : up[c] # "serving"
      BY <1>2 DEF Types, Places
    <2> QED BY <2>1, <2>2, <2>3 DEF CountInv, Vectors
  <1>11. ClosesOnce'
    <2> SUFFICES ASSUME NEW c \in Backups, NEW k \in Clients, NEW j \in DOMAIN queue'[c], Closing(queue'[c][j], k)
                 PROVE  /\ pc[k] \in {"closing", "ended"} /\ ~Ahead(k, c)'
                        /\ \A m \in DOMAIN queue'[c] : Closing(queue'[c][m], k) => m = j
      BY <1>1 DEF ClosesOnce, Closing
    <2>1. CASE c # b
      BY <1>3, <1>5, <2>1, Members DEF CountInv, ClosesOnce
    <2>2. CASE c = b
      <3>1. CASE packet[t].cmd = "CLOSE_CONN" /\ t = k
        <4>1. \A m \in 1 .. n : ~Closing(queue[b][m], k)
          BY <1>2, <1>3, <2>2, <3>1 DEF CountInv, ClosesOnce
        <4>2. \A m \in DOMAIN queue'[c] : Closing(queue'[c][m], k) => m = n + 1
          <5> SUFFICES ASSUME NEW m \in DOMAIN queue'[b], Closing(queue'[b][m], k) PROVE m = n + 1
            BY <2>2
          <5>1. m \in 1 .. n \/ m = n + 1
            BY <1>3
          <5>2. m \in 1 .. n => queue'[b][m] = queue[b][m]
            BY <1>3
          <5> QED BY <4>1, <5>1, <5>2
        <4>3. ~Ahead(k, c)'
          BY <1>6, <2>2, <3>1 DEF Ahead
        <4>4. j = n + 1
          BY <4>2
        <4> QED BY <1>2, <3>1, <4>2, <4>3, <4>4
      <3>2. CASE ~(packet[t].cmd = "CLOSE_CONN" /\ t = k)
        <4>1. ~Closing(packet[t], k)
          BY <1>2, <3>2 DEF Closing
        <4>2. \A m \in DOMAIN queue'[b] : Closing(queue'[b][m], k) => m \in DOMAIN queue[b] /\ queue'[b][m] = queue[b][m]
          BY <1>3, <4>1
        <4> QED BY <1>5, <2>2, <4>2, Members DEF CountInv, ClosesOnce
      <3> QED BY <3>1, <3>2
    <2> QED BY <2>1, <2>2
  <1>12. LoginsFirst'
    <2> SUFFICES ASSUME NEW c \in early, up[c] = "backup", NEW k \in Clients
                 PROVE  OpensFirst(c, k)' /\ LoginComes(c, k)'
      BY <1>1 DEF LoginsFirst, listVars
    <2>0. c \in Backups /\ counted' = counted /\ up' = up /\ packet' = packet
      BY <1>1 DEF Types, Kinds, mapVars
    <2>1. OpensFirst(c, k) /\ LoginComes(c, k)
      BY DEF CountInv, LoginsFirst
    <2>2. CASE c # b
      <3>1. queue'[c] = queue[c]
        BY <1>3, <2>0, <2>2
      <3>2. Ahead(k, c) => Ahead(k, c)'
        BY <1>7, <2>2, Members
      <3>3. OpensFirst(c, k)'
        BY <2>0, <2>1, <3>1 DEF OpensFirst, Opening, Closing
      <3>4. LoginComes(c, k)'
        BY <2>0, <2>1, <3>1, <3>2 DEF LoginComes, Opening
      <3> QED BY <3>3, <3>4
    <2>3. CASE c = b
      <3>1. DOMAIN queue'[b] = 1 .. n + 1 /\ queue'[b][n + 1] = packet[t]
        BY <1>3, <2>3
      <3>2. ASSUME NEW j \in 1 .. n + 1, Closing(queue'[b][j], k)
            PROVE  k \in counted[b] \/ \E m \in 1 .. n + 1 : m < j /\ Opening(queue'[b][m], k)
        <4>1. CASE j \in 1 .. n
          <5>1. k \in counted[b] \/ \E m \in 1 .. n : m < j /\ Opening(queue[b][m], k)
            BY <1>3, <2>1, <2>3, <3>2, <4>1 DEF OpensFirst
          <5> QED BY <1>3, <5>1
        <4>2. CASE j = n + 1
          <5>1. packet[t].cmd = "CLOSE_CONN" /\ t = k
            BY <1>2, <3>1, <3>2, <4>2 DEF Closing
          <5>2. k \in counted[primary]
            BY <1>2, <5>1 DEF CountInv, CountedKnown
          <5>3. k \in counted[b] \/ \E m \in 1 .. n : Opening(queue[b][m], k)
            BY <1>2, <1>3, <2>1, <2>3, <5>1, <5>2 DEF LoginComes
          <5> QED BY <1>3, <4>2, <5>3
        <4> QED BY <1>3, <4>1, <4>2
      <3>3. OpensFirst(c, k)'
        BY <2>0, <2>3, <3>1, <3>2 DEF OpensFirst, Opening, Closing
      <3>4. LoginComes(c, k)'
        <4> SUFFICES ASSUME k \in counted[primary]
                     PROVE  \/ k \in counted[b]
                            \/ \E m \in 1 .. n + 1 : Opening(queue'[b][m], k)
                            \/ Ahead(k, b)' /\ packet[k].cmd = "PROFILE"
          BY <2>0, <2>3, <3>1 DEF LoginComes, Opening
        <4>1. \/ k \in counted[b]
              \/ \E m \in 1 .. n : Opening(queue[b][m], k)
              \/ Ahead(k, b) /\ packet[k].cmd = "PROFILE"
          BY <1>2, <1>3, <2>1, <2>3 DEF LoginComes
        <4>2. CASE \E m \in 1 .. n : Opening(queue[b][m], k)
          BY <1>3, <4>2
        <4>3. CASE Ahead(k, b) /\ packet[k].cmd = "PROFILE"
          <5>1. CASE k = t
            <6>1. Opening(queue'[b][n + 1], k)
              BY <1>2, <3>1, <4>3, <5>1 DEF Opening
            <6> QED BY <1>3, <6>1
          <5>2. CASE k # t
            BY <1>7, <4>3, <5>2, Members
          <5> QED BY <5>1, <5>2
        <4> QED BY <4>1, <4>2, <4>3
      <3> QED BY <3>3, <3>4
    <2> QED BY <2>2, <2>3
  <1> QED BY <1>8, <1>9, <1>10, <1>11, <1>12 DEF CountInv

LEMMA EndForwardCounts ==
  ASSUME Types, CountInv, NEW t \in Threads, EndForward(t)
  PROVE  CountInv'
  <1>1. /\ Forwarding(t) /\ ~MoreBackups(t)
        /\ i' = [i EXCEPT ![t] = 1]
        /\ packet' = [packet EXCEPT ![t] = nullptr]
        /\ pc' = [pc EXCEPT ![t] =
                    CASE t \in Backups \/ pc[t] = "closing" -> "ended"
                      [] packet[t].cmd = "PROFILE"           -> "fetch"
                      [] OTHER                               -> "idle"]
        /\ UNCHANGED <<up, mapVars, listVars, netVars, at>>
    BY DEF EndForward
  <1>2. /\ up' = up /\ listBackups' = listBackups /\ early' = early /\ queue' = queue
        /\ counted' = counted /\ at' = at /\ profiles' = profiles
        /\ \A s : KnownAt(s)' = KnownAt(s)
    BY <1>1 DEF mapVars, listVars, netVars, KnownAt
  <1>3. /\ packet'[t] = nullptr
        /\ \A c \in Threads \ {t} : packet'[c] = packet[c] /\ i'[c] = i[c] /\ pc'[c] = pc[c]
        /\ pc[t] \in {"forward", "closing"}
        /\ pc'[t] \in {"ended", "fetch", "idle"}
        /\ pc[t] = "closing" \/ t \in Backups => pc'[t] = "ended"
    <2>1. /\ packet'[t] = nullptr
          /\ \A c \in Threads \ {t} : packet'[c] = packet[c] /\ i'[c] = i[c] /\ pc'[c] = pc[c]
      BY <1>1 DEF Types, Kinds
    <2>2. pc[t] \in {"forward", "closing"}
      BY <1>1 DEF Forwarding
    <2>3. pc'[t] = CASE t \in Backups \/ pc[t] = "closing" -> "ended"
                     [] packet[t].cmd = "PROFILE"           -> "fetch"
                     [] OTHER                               -> "idle"
      BY <1>1 DEF Types, Kinds
    <2>4. pc[t] = "closing" \/ t \in Backups => pc'[t] = "ended"
      <3>1. pc[t] = "closing" \/ t \in Backups => packet[t].cmd # "PROFILE"
        BY <2>2, Members DEF Types, PacketsOK, IsList
      <3> QED BY <2>3, <3>1
    <2>5. pc'[t] \in {"ended", "fetch", "idle"}
      BY <2>3, <2>4
    <2> QED BY <2>1, <2>2, <2>4, <2>5
  <1>4. \A d : ~Ahead(t, d)
    <2>1. ASSUME ServerOf(t) = primary PROVE \A y \in DOMAIN listBackups[primary] : ~(i[t] <= y)
      <3>1. ~(i[t] <= Len(listBackups[primary]))
        BY <1>1, <2>1 DEF MoreBackups
      <3>2. listBackups[primary] \in Seq(Backups) /\ i[t] \in Nat
        BY Members DEF Types, Kinds
      <3>3. DOMAIN listBackups[primary] = 1 .. Len(listBackups[primary]) /\ Len(listBackups[primary]) \in Nat
        BY <3>2
      <3> QED BY <3>1, <3>2, <3>3
    <2>2. ASSUME ServerOf(t) # primary PROVE DOMAIN listBackups[primary] = {}
      <3>1. t \in Clients /\ at[t] # primary
        BY <2>2, Members DEF ServerOf
      <3>2. up[primary] = "dead"
        BY <3>1 DEF Types, Places
      <3> QED BY <3>2 DEF CountInv, Vectors
    <2> QED BY <2>1, <2>2 DEF Ahead
  <1>5. \A c \in Threads \ {t} : \A d : Ahead(c, d)' <=> Ahead(c, d)
    BY <1>2, <1>3 DEF Ahead
  <1>6. \A d : ~Ahead(t, d)'
    BY <1>3 DEF Ahead
  <1>7. \A c \in Threads : \A d : Ahead(c, d)' <=> Ahead(c, d)
    BY <1>4, <1>5, <1>6
  <1>8. CountsOK'
    <2>1. ASSUME NEW s \in Servers, NEW k \in Clients
          PROVE  /\ Stays(s, k)' => Stays(s, k)
                 /\ at[k] = s /\ pc[k] # "out" => at'[k] = s /\ pc'[k] # "out"
      <3>1. CASE k = t
        BY <1>2, <1>3, <1>6, <3>1 DEF Stays, CloseWaits, Closing
      <3>2. CASE k # t
        BY <1>2, <1>3, <1>5, <3>2, Members DEF Stays, CloseWaits, Closing
      <3> QED BY <3>1, <3>2
    <2>2. ASSUME NEW s \in Servers PROVE Counts(s)'
      <3>1. Alive(s)' => Alive(s)
        BY <1>2 DEF Alive
      <3> QED BY <1>2, <2>1, <3>1, QuietCounts DEF CountInv
    <2> QED BY <2>2 DEF CountsOK
  <1>9. CountedKnown'
    <2>1. \A k \in Clients : pc'[k] \in {"forward", "fetch", "idle", "closing"} =>
                               pc[k] \in {"forward", "fetch", "idle", "closing"}
      BY <1>3, Members
    <2> QED BY <1>2, <2>1 DEF CountInv, CountedKnown
  <1>10. Vectors'
    <2>1. \A b \in Backups : pc'[b] \in {"out", "joining"} => pc[b] \in {"out", "joining"}
      BY <1>3, Members
    <2> QED BY <1>2, <2>1 DEF CountInv, Vectors
  <1>11. ClosesOnce'
    <2>1. \A k \in Clients : pc[k] \in {"closing", "ended"} => pc'[k] \in {"closing", "ended"}
      BY <1>3, Members
    <2>2. \A k \in Clients : \A b : Ahead(k, b)' => Ahead(k, b)
      BY <1>7, Members
    <2> QED BY <1>2, <2>1, <2>2 DEF CountInv, ClosesOnce, Closing
  <1>12. LoginsFirst'
    <2> SUFFICES ASSUME NEW c \in early, up[c] = "backup", NEW k \in Clients
                 PROVE  OpensFirst(c, k)' /\ LoginComes(c, k)'
      BY <1>2 DEF LoginsFirst
    <2>1. OpensFirst(c, k) /\ LoginComes(c, k)
      BY DEF CountInv, LoginsFirst
    <2>2. OpensFirst(c, k)'
      BY <1>2, <2>1 DEF OpensFirst, Opening, Closing
    <2>3. Ahead(k, c) => k # t /\ Ahead(k, c)' /\ packet'[k] = packet[k]
      BY <1>3, <1>4, <1>5, Members
    <2>4. LoginComes(c, k)'
      BY <1>2, <2>1, <2>3 DEF LoginComes, Opening
    <2> QED BY <2>2, <2>4
  <1> QED BY <1>8, <1>9, <1>10, <1>11, <1>12 DEF CountInv

(* The end of a server: what the others have counted stays as it is. *)
LEMMA DeathCounts ==
  ASSUME Types, CountInv, NEW s \in Servers, Death(s),
         \A b \in Backups : queue'[b] = queue[b] \/ (b = s /\ queue'[b] = <<>>)
  PROVE  CountInv'
  <1>1. /\ up' = [up EXCEPT ![s] = "dead"]
        /\ profiles' = [profiles EXCEPT ![s] = EmptyMap]
        /\ counted' = [counted EXCEPT ![s] = {}]
        /\ listBackups' = [listBackups EXCEPT ![s] = <<>>]
        /\ early' = early \ {s}
        /\ packet' = [t \in Threads |-> IF ServerOf(t) = s THEN nullptr ELSE packet[t]]
        /\ i' = [t \in Threads |-> IF ServerOf(t) = s THEN 1 ELSE i[t]]
        /\ pc' = [t \in Threads |->
                     IF ServerOf(t) # s \/ pc[t] = "out" THEN pc[t]
                     ELSE IF t \in Backups \/ pc[t] \in {"closing", "ended"} THEN "ended"
                     ELSE "idle"]
        /\ at' = at
    BY DEF Death
  <1>2. /\ up'[s] = "dead" /\ counted'[s] = {} /\ KnownAt(s)' = {} /\ listBackups'[s] = <<>>
        /\ \A r \in Servers \ {s} :
             /\ up'[r] = up[r] /\ profiles'[r] = profiles[r] /\ counted'[r] = counted[r]
             /\ listBackups'[r] = listBackups[r] /\ KnownAt(r)' = KnownAt(r)
    <2>1. profiles'[s] = EmptyMap
      BY <1>1 DEF Types, Kinds
    <2>2. KnownAt(s)' = {}
      BY <2>1 DEF KnownAt, EmptyMap
    <2>3. \A r \in Servers \ {s} : profiles'[r] = profiles[r]
      BY <1>1 DEF Types, Kinds
    <2>4. \A r \in Servers \ {s} : KnownAt(r)' = KnownAt(r)
      BY <2>3 DEF KnownAt
    <2> QED BY <1>1, <2>2, <2>3, <2>4 DEF Types, Kinds
  <1>3. \A t \in Threads :
          /\ pc'[t] = "out" <=> pc[t] = "out"
          /\ pc[t] \in {"closing", "ended"} => pc'[t] \in {"closing", "ended"}
          /\ pc'[t] \in {"closing", "ended"} /\ t \in Clients => pc[t] \in {"closing", "ended"}
          /\ packet'[t] # nullptr => packet'[t] = packet[t] /\ i'[t] = i[t]
          /\ ServerOf(t) # s => packet'[t] = packet[t] /\ i'[t] = i[t] /\ pc'[t] = pc[t]
          /\ t \in Backups /\ pc'[t] = "joining" => pc[t] = "joining"
    BY <1>1, Members
  <1>4. \A t \in Threads : \A b : Ahead(t, b)' => Ahead(t, b)
    <2> SUFFICES ASSUME NEW t \in Threads, NEW b, Ahead(t, b)' PROVE Ahead(t, b)
      OBVIOUS
    <2>1. packet'[t] # nullptr /\ \E x \in DOMAIN listBackups'[primary] :
            i'[t] <= x /\ listBackups'[primary][x] = b
      BY DEF Ahead
    <2>2. packet'[t] = packet[t] /\ i'[t] = i[t]
      BY <1>3, <2>1
    <2>3. s # primary
      <3>1. DOMAIN <<>> = {}
        OBVIOUS
      <3> QED BY <1>2, <2>1, <3>1
    <2>4. listBackups'[primary] = listBackups[primary]
      BY <1>2, <2>3, Members
    <2> QED BY <2>1, <2>2, <2>4 DEF Ahead
  <1>5. CountsOK'
    <2>1. Counts(s)'
      BY <1>2 DEF Counts
    <2>2. ASSUME NEW r \in Servers \ {s} PROVE Counts(r)'
      <3>1. Alive(r)' => Alive(r)
        BY <1>1, <1>2 DEF Alive
      <3>2. ASSUME NEW k \in Clients
            PROVE  /\ at[k] = r /\ pc[k] # "out" => at'[k] = r /\ pc'[k] # "out"
                   /\ Stays(r, k)' => Stays(r, k)
        <4>1. r \in Backups => queue'[r] = queue[r]
          OBVIOUS
        <4>2. r \in Backups /\ CloseWaits(r, k)' => CloseWaits(r, k)
          <5>1. Ahead(k, r)' => Ahead(k, r) /\ packet'[k] = packet[k]
            BY <1>3, <1>4, Members DEF Ahead
          <5> QED BY <4>1, <5>1 DEF CloseWaits, Closing
        <4>3. pc[k] \in {"closing", "ended"} => pc'[k] \in {"closing", "ended"}
          BY <1>3, Members
        <4>4. pc'[k] = "out" => pc[k] = "out"
          BY <1>3, Members
        <4> QED BY <1>1, <4>2, <4>3, <4>4 DEF Stays
      <3> QED BY <1>2, <3>1, <3>2, QuietCounts DEF CountInv
    <2> QED BY <2>1, <2>2 DEF CountsOK
  <1>6. CountedKnown'
    <2>1. \A r \in Servers : \A k \in counted'[r] : profileOf[k] \in KnownAt(r)'
      BY <1>2 DEF CountInv, CountedKnown
    <2>2. ASSUME NEW k \in Clients, at'[k] = primary, up'[primary] = "serving",
                 pc'[k] \in {"forward", "fetch", "idle", "closing"}
          PROVE  k \in counted'[primary]
      <3>1. s # primary
        BY <1>2, <2>2
      <3>2. pc'[k] = pc[k] /\ at[k] = primary /\ up[primary] = "serving"
        BY <1>1, <1>2, <1>3, <2>2, <3>1, Members DEF ServerOf
      <3> QED BY <1>2, <2>2, <3>1, <3>2, Members DEF CountInv, CountedKnown
    <2> QED BY <2>1, <2>2 DEF CountedKnown
  <1>7. Vectors'
    <2>1. \A b \in Backups : listBackups'[b] = <<>>
      BY <1>2, Members DEF CountInv, Vectors
    <2>2. up'[primary] = "dead" => listBackups'[primary] = <<>>
      BY <1>2, Members DEF CountInv, Vectors
    <2>3. listBackups'[primary] = <<>> \/ (s # primary /\ listBackups'[primary] = listBackups[primary])
      BY <1>2, Members
    <2>4. \A x, y \in DOMAIN listBackups'[primary] :
            listBackups'[primary][x] = listBackups'[primary][y] => x = y
      <3>1. DOMAIN <<>> = {}
        OBVIOUS
      <3> QED BY <2>3, <3>1 DEF CountInv, Vectors
    <2>5. ASSUME NEW b \in Backups, pc'[b] \in {"out", "joining"}
          PROVE  /\ b \notin early'
                 /\ up'[primary] = "serving" =>
                      /\ \A x \in DOMAIN listBackups'[primary] : listBackups'[primary][x] # b
                      /\ queue'[b] = <<>> /\ KnownAt(b)' = {} /\ counted'[b] = {}
      <3>1. pc[b] \in {"out", "joining"}
        BY <1>3, <2>5, Members
      <3>2. b \notin early'
        BY <1>1, <3>1 DEF CountInv, Vectors
      <3>3. ASSUME up'[primary] = "serving"
            PROVE  /\ \A x \in DOMAIN listBackups'[primary] : listBackups'[primary][x] # b
                   /\ queue'[b] = <<>> /\ KnownAt(b)' = {} /\ counted'[b] = {}
        <4>1. s # primary
          BY <1>2, <3>3
        <4>2. up[primary] = "serving" /\ listBackups'[primary] = listBackups[primary]
          BY <1>2, <3>3, <4>1, Members
        <4>3. /\ \A x \in DOMAIN listBackups[primary] : listBackups[primary][x] # b
              /\ queue[b] = <<>> /\ KnownAt(b) = {} /\ counted[b] = {}
          BY <3>1, <4>2 DEF CountInv, Vectors
        <4> QED BY <1>2, <4>2, <4>3, Members
      <3> QED BY <3>2, <3>3
    <2>6. ASSUME NEW b \in early', up'[primary] = "serving"
          PROVE  \E x \in DOMAIN listBackups'[primary] : listBackups'[primary][x] = b
      <3>1. s # primary /\ b \in early
        BY <1>1, <1>2, <2>6
      <3>2. up[primary] = "serving" /\ listBackups'[primary] = listBackups[primary]
        BY <1>2, <2>6, <3>1, Members
      <3> QED BY <3>1, <3>2 DEF CountInv, Vectors
    <2>7. \A b \in Backups : up'[b] = "serving" => queue'[b] = <<>>
      BY <1>2, Members DEF CountInv, Vectors
    <2> QED BY <2>1, <2>2, <2>4, <2>5, <2>6, <2>7 DEF Vectors
  <1>8. ClosesOnce'
    <2> SUFFICES ASSUME NEW b \in Backups, NEW k \in Clients, NEW j \in DOMAIN queue'[b], Closing(queue'[b][j], k)
                 PROVE  /\ pc'[k] \in {"closing", "ended"} /\ ~Ahead(k, b)'
                        /\ \A m \in DOMAIN queue'[b] : Closing(queue'[b][m], k) => m = j
      BY DEF ClosesOnce, Closing
    <2>1. queue'[b] = queue[b]
      <3>1. DOMAIN <<>> = {}
        OBVIOUS
      <3> QED BY <3>1
    <2>2. /\ pc[k] \in {"closing", "ended"} /\ ~Ahead(k, b)
          /\ \A m \in DOMAIN queue[b] : Closing(queue[b][m], k) => m = j
      BY <2>1 DEF CountInv, ClosesOnce
    <2> QED BY <1>3, <1>4, <2>1, <2>2, Members
  <1>9. LoginsFirst'
    <2> SUFFICES ASSUME NEW c \in early', up'[c] = "backup", NEW k \in Clients
                 PROVE  OpensFirst(c, k)' /\ LoginComes(c, k)'
      BY DEF LoginsFirst
    <2>1. c \in early /\ c \in Backups /\ c # s
      BY <1>1 DEF Types, Kinds
    <2>2. up[c] = "backup" /\ queue'[c] = queue[c] /\ counted'[c] = counted[c]
      BY <1>2, <2>1, Members
    <2>3. OpensFirst(c, k) /\ LoginComes(c, k)
      BY <2>1, <2>2 DEF CountInv, LoginsFirst
    <2>4. OpensFirst(c, k)'
      BY <2>2, <2>3 DEF OpensFirst, Opening, Closing
    <2>5. LoginComes(c, k)'
      <3> SUFFICES ASSUME up'[primary] = "serving", k \in counted'[primary]
                   PROVE  \/ k \in counted[c]
                          \/ \E m \in DOMAIN queue[c] : Opening(queue[c][m], k)
                          \/ Ahead(k, c)' /\ packet'[k].cmd = "PROFILE"
        BY <2>2 DEF LoginComes, Opening
      <3>1. s # primary
        BY <1>2
      <3>2. up[primary] = "serving" /\ k \in counted[primary] /\ listBackups'[primary] = listBackups[primary]
        BY <1>2, <3>1, Members
      <3>3. ServerOf(k) = primary
        BY <3>2 DEF ServerOf, Types, Places
      <3>4. packet'[k] = packet[k] /\ i'[k] = i[k]
        BY <1>3, <3>1, <3>3, Members
      <3>5. Ahead(k, c)' <=> Ahead(k, c)
        BY <3>2, <3>4 DEF Ahead
      <3> QED BY <2>3, <3>2, <3>4, <3>5 DEF LoginComes
    <2> QED BY <2>4, <2>5
  <1> QED BY <1>5, <1>6, <1>7, <1>8, <1>9 DEF CountInv

LEMMA SetBackupCounts ==
  ASSUME Types, CountInv, NEW b \in Backups, SetBackup(b)
  PROVE  CountInv'
  <1>1. /\ up[b] = "off" /\ up[primary] = "serving"
        /\ up' = [up EXCEPT ![b] = "backup"]
        /\ pc' = [pc EXCEPT ![b] = "joining"]
        /\ UNCHANGED <<mapVars, listVars, netVars, at, packet, i>>
    BY DEF SetBackup
  <1>2. /\ listBackups' = listBackups /\ early' = early /\ queue' = queue
        /\ counted' = counted /\ at' = at /\ profiles' = profiles
        /\ \A s : KnownAt(s)' = KnownAt(s)
        /\ \A t, d : Ahead(t, d)' <=> Ahead(t, d)
        /\ packet' = packet
    BY <1>1 DEF mapVars, listVars, netVars, KnownAt, Ahead
  <1>3. /\ \A s \in Servers \ {b} : up'[s] = up[s]
        /\ up'[b] = "backup" /\ up'[primary] = "serving"
        /\ \A t \in Threads \ {b} : pc'[t] = pc[t]
        /\ \A k \in Clients : pc'[k] = pc[k]
        /\ pc[b] = "out" /\ pc'[b] = "joining"
    <2>1. pc[b] = "out"
      BY <1>1 DEF Types, Places
    <2> QED BY <1>1, <2>1, Members DEF Types, Kinds
  <1>4. b \notin early /\ b # primary
    BY <1>3, Members DEF CountInv, Vectors
  <1>5. CountsOK'
    <2>1. ASSUME NEW s \in Servers PROVE Counts(s)'
      <3>1. Alive(s)' => Alive(s)
        BY <1>2, <1>3, <1>4 DEF Alive
      <3>2. \A k \in Clients : Stays(s, k)' => Stays(s, k)
        BY <1>2, <1>3 DEF Stays, CloseWaits, Closing
      <3> QED BY <1>2, <1>3, <3>1, <3>2, QuietCounts DEF CountInv
    <2> QED BY <2>1 DEF CountsOK
  <1>6. CountedKnown'
    BY <1>1, <1>2, <1>3 DEF CountInv, CountedKnown
  <1>7. Vectors'
    <2>1. \A c \in Backups : pc'[c] \in {"out", "joining"} => pc[c] \in {"out", "joining"}
      BY <1>3, Members
    <2>2. \A c \in Backups : up'[c] = "serving" => up[c] = "serving"
      BY <1>3, Members
    <2> QED BY <1>1, <1>2, <1>3, <2>1, <2>2 DEF CountInv, Vectors
  <1>8. ClosesOnce'
    BY <1>2, <1>3 DEF CountInv, ClosesOnce, Closing
  <1>9. LoginsFirst'
    <2> SUFFICES ASSUME NEW c \in early, up'[c] = "backup", NEW k \in Clients
                 PROVE  OpensFirst(c, k)' /\ LoginComes(c, k)'
      BY <1>2 DEF LoginsFirst
    <2>1. up[c] = "backup"
      BY <1>3, <1>4, Members DEF Types, Kinds
    <2>2. OpensFirst(c, k) /\ LoginComes(c, k)
      BY <2>1 DEF CountInv, LoginsFirst
    <2>3. OpensFirst(c, k)'
      BY <1>2, <2>2 DEF OpensFirst, Opening, Closing
    <2>4. LoginComes(c, k)'
      BY <1>1, <1>2, <2>2 DEF LoginComes, Opening
    <2> QED BY <2>3, <2>4
  <1> QED BY <1>5, <1>6, <1>7, <1>8, <1>9 DEF CountInv

LEMMA PromoteCounts ==
  ASSUME Types, CountInv, NEW b \in Backups, Promote(b)
  PROVE  CountInv'
  <1>1. /\ up[b] = "backup" /\ up[primary] = "dead" /\ queue[b] = <<>>
        /\ up' = [up EXCEPT ![b] = "serving"]
        /\ UNCHANGED <<mapVars, listVars, netVars, threadVars>>
    BY DEF Promote
  <1>2. /\ listBackups' = listBackups /\ early' = early /\ queue' = queue
        /\ counted' = counted /\ at' = at /\ profiles' = profiles
        /\ \A s : KnownAt(s)' = KnownAt(s)
        /\ \A t, d : Ahead(t, d)' <=> Ahead(t, d)
        /\ packet' = packet /\ pc' = pc
    BY <1>1 DEF mapVars, listVars, netVars, threadVars, KnownAt, Ahead
  <1>3. /\ \A s \in Servers \ {b} : up'[s] = up[s]
        /\ up'[b] = "serving" /\ up'[primary] = "dead"
    BY <1>1, Members DEF Types, Kinds
  <1>4. CountsOK'
    <2>1. ASSUME NEW s \in Servers PROVE Counts(s)'
      <3>1. Alive(s)' => Alive(s)
        BY <1>1, <1>2, <1>3 DEF Alive
      <3>2. \A k \in Clients : Stays(s, k)' => Stays(s, k)
        BY <1>2 DEF Stays, CloseWaits, Closing
      <3> QED BY <1>2, <3>1, <3>2, QuietCounts DEF CountInv
    <2> QED BY <2>1 DEF CountsOK
  <1>5. CountedKnown'
    BY <1>2, <1>3 DEF CountInv, CountedKnown
  <1>6. Vectors'
    BY <1>1, <1>2, <1>3, Members DEF CountInv, Vectors
  <1>7. ClosesOnce'
    BY <1>2 DEF CountInv, ClosesOnce, Closing
  <1>8. LoginsFirst'
    <2> SUFFICES ASSUME NEW c \in early, up'[c] = "backup", NEW k \in Clients
                 PROVE  OpensFirst(c, k)' /\ LoginComes(c, k)'
      BY <1>2 DEF LoginsFirst
    <2>1. up[c] = "backup"
      BY <1>1, <1>3, Members DEF Types, Kinds
    <2>2. OpensFirst(c, k)
      BY <2>1 DEF CountInv, LoginsFirst
    <2>3. OpensFirst(c, k)'
      BY <1>2, <2>2 DEF OpensFirst, Opening, Closing
    <2> QED BY <1>3, <2>3 DEF LoginComes
  <1> QED BY <1>4, <1>5, <1>6, <1>7, <1>8 DEF CountInv

LEMMA JoinCounts ==
  ASSUME Types, CountInv, NEW b \in Backups, Join(b)
  PROVE  CountInv'
  <1> DEFINE pkt == Packet("BACKUP_PROPAGATION", electionServerList'[primary], nullptr, nullptr)
             l == listBackups[primary]
             r == listBackups'[primary]
  <1>1. /\ pc[b] = "joining" /\ up[primary] = "serving"
        /\ \/ /\ listBackups' = [listBackups EXCEPT ![primary] = Append(@, b)]
              /\ early' = IF KnownAt(primary) = {} THEN early \cup {b} ELSE early
           \/ UNCHANGED <<listBackups, early>>
        /\ StartForward(b, pkt)
        /\ UNCHANGED <<up, mapVars, netVars, at>>
    BY DEF Join, serverListToString
  <1>2. /\ queue' = queue /\ up' = up
        /\ counted' = counted /\ at' = at /\ profiles' = profiles
        /\ \A s : KnownAt(s)' = KnownAt(s)
    BY <1>1 DEF mapVars, netVars, KnownAt
  <1>3. /\ pc'[b] = "forward"
        /\ \A t \in Threads \ {b} : packet'[t] = packet[t] /\ i'[t] = i[t] /\ pc'[t] = pc[t]
    <2>1. pkt.cmd # "CLOSE_CONN" /\ b \in Threads
      BY Members DEF Packet
    <2> HIDE DEF pkt
    <2> QED BY <1>1, <2>1, StartsForward
  <1>4. \A k \in Clients : packet'[k] = packet[k] /\ i'[k] = i[k] /\ pc'[k] = pc[k]
    BY <1>3, Members
  <1>5. /\ b \notin early /\ \A x \in DOMAIN l : l[x] # b
        /\ queue[b] = <<>> /\ DOMAIN queue[b] = {} /\ KnownAt(b) = {} /\ counted[b] = {}
    BY <1>1 DEF CountInv, Vectors
  <1>6. /\ DOMAIN l \subseteq DOMAIN r /\ \A x \in DOMAIN l : r[x] = l[x]
        /\ \A x \in DOMAIN r : x \notin DOMAIN l => r[x] = b
        /\ \A x, y \in DOMAIN r : r[x] = b /\ r[y] = b => x = y
        /\ \A d \in Backups : listBackups'[d] = listBackups[d]
        /\ early' \subseteq early \cup {b} /\ early \subseteq early'
        /\ b \in early' => KnownAt(primary) = {} /\ \E x \in DOMAIN r : r[x] = b
    <2>1. l \in Seq(Backups) /\ listBackups \in [Servers -> Seq(Backups)]
      BY Members DEF Types, Kinds
    <2> DEFINE n == Len(l)
               a == Append(l, b)
    <2>2. /\ n \in Nat /\ DOMAIN l = 1 .. n /\ DOMAIN a = 1 .. n + 1
          /\ a[n + 1] = b /\ \A x \in 1 .. n : a[x] = l[x]
      BY <2>1
    <2>3. \A d \in Backups : listBackups'[d] = listBackups[d]
      BY <1>1, <2>1, Members
    <2>4. \/ r = a /\ early' = IF KnownAt(primary) = {} THEN early \cup {b} ELSE early
          \/ r = l /\ early' = early
      BY <1>1, <2>1, Members
    <2> HIDE DEF n, a, l, r
    <2>5. CASE r = a /\ early' = IF KnownAt(primary) = {} THEN early \cup {b} ELSE early
      <3>1. \A x \in DOMAIN r : x \in 1 .. n \/ x = n + 1
        BY <2>2, <2>5
      <3>2. \A x \in DOMAIN r : r[x] = b => x = n + 1
        BY <1>5, <2>2, <2>5, <3>1
      <3>3. n + 1 \in DOMAIN r /\ r[n + 1] = b
        BY <2>2, <2>5
      <3>4. /\ early' \subseteq early \cup {b} /\ early \subseteq early'
            /\ b \in early' => KnownAt(primary) = {}
        BY <1>5, <2>5
      <3>5. DOMAIN l \subseteq DOMAIN r /\ \A x \in DOMAIN l : r[x] = l[x]
        BY <2>2, <2>5
      <3>6. \A x \in DOMAIN r : x \notin DOMAIN l => r[x] = b
        BY <2>2, <2>5, <3>1
      <3> QED BY <2>3, <3>2, <3>3, <3>4, <3>5, <3>6
    <2>6. CASE r = l /\ early' = early
      BY <1>5, <2>3, <2>6
    <2> QED BY <2>4, <2>5, <2>6
  <1> HIDE DEF pkt
  <1>7. \A k \in Clients : \A d : d # b => (Ahead(k, d)' <=> Ahead(k, d))
    BY <1>4, <1>6 DEF Ahead
  <1>8. CountsOK'
    <2>1. Counts(b)'
      BY <1>2, <1>5 DEF Counts
    <2>2. ASSUME NEW s \in Servers, s # b PROVE Counts(s)'
      <3>1. Alive(s)' => Alive(s)
        BY <1>2, <1>6, <2>2 DEF Alive
      <3>2. \A k \in Clients : Stays(s, k)' => Stays(s, k)
        BY <1>2, <1>4, <1>7, <2>2 DEF Stays, CloseWaits, Closing
      <3> QED BY <1>2, <1>4, <3>1, <3>2, QuietCounts DEF CountInv
    <2> QED BY <2>1, <2>2 DEF CountsOK
  <1>9. CountedKnown'
    BY <1>2, <1>4 DEF CountInv, CountedKnown
  <1>10. Vectors'
    <2>1. \A x, y \in DOMAIN r : r[x] = r[y] => x = y
      <3> SUFFICES ASSUME NEW x \in DOMAIN r, NEW y \in DOMAIN r, r[x] = r[y] PROVE x = y
        OBVIOUS
      <3>1. CASE r[x] = b
        BY <1>6, <3>1
      <3>2. CASE r[x] # b
        <4>1. x \in DOMAIN l /\ y \in DOMAIN l /\ l[x] = l[y]
          BY <1>6, <3>2
        <4> QED BY <4>1 DEF CountInv, Vectors
      <3> QED BY <3>1, <3>2
    <2>2. ASSUME NEW c \in Backups, pc'[c] \in {"out", "joining"}
          PROVE  /\ c \notin early'
                 /\ \A x \in DOMAIN r : r[x] # c
                 /\ queue[c] = <<>> /\ KnownAt(c) = {} /\ counted[c] = {}
      <3>1. c # b /\ pc[c] \in {"out", "joining"}
        BY <1>3, <2>2, Members
      <3>2. /\ c \notin early /\ \A x \in DOMAIN l : l[x] # c
            /\ queue[c] = <<>> /\ KnownAt(c) = {} /\ counted[c] = {}
        BY <1>1, <3>1 DEF CountInv, Vectors
      <3> QED BY <1>6, <3>1, <3>2
    <2>3. ASSUME NEW c \in early' PROVE \E x \in DOMAIN r : r[x] = c
      <3>1. CASE c = b
        BY <1>6, <2>3, <3>1
      <3>2. CASE c # b
        <4>1. c \in early
          BY <1>6, <2>3, <3>2
        <4>2. \E x \in DOMAIN l : l[x] = c
          BY <1>1, <4>1 DEF CountInv, Vectors
        <4> QED BY <1>6, <4>2
      <3> QED BY <3>1, <3>2
    <2> QED BY <1>1, <1>2, <1>6, <2>1, <2>2, <2>3 DEF CountInv, Vectors
  <1>11. ClosesOnce'
    <2> SUFFICES ASSUME NEW c \in Backups, NEW k \in Clients, NEW j \in DOMAIN queue[c], Closing(queue[c][j], k)
                 PROVE  /\ pc'[k] \in {"closing", "ended"} /\ ~Ahead(k, c)'
                        /\ \A m \in DOMAIN queue[c] : Closing(queue[c][m], k) => m = j
      BY <1>2 DEF ClosesOnce, Closing
    <2>1. c # b
      BY <1>5
    <2>2. /\ pc[k] \in {"closing", "ended"} /\ ~Ahead(k, c)
          /\ \A m \in DOMAIN queue[c] : Closing(queue[c][m], k) => m = j
      BY DEF CountInv, ClosesOnce
    <2> QED BY <1>4, <1>7, <2>1, <2>2
  <1>12. LoginsFirst'
    <2> SUFFICES ASSUME NEW c \in early', up[c] = "backup", NEW k \in Clients
                 PROVE  OpensFirst(c, k)' /\ LoginComes(c, k)'
      BY <1>2 DEF LoginsFirst
    <2>1. CASE c = b
      <3>1. KnownAt(primary) = {}
        BY <1>6, <2>1
      <3>2. k \notin counted[primary]
        BY <3>1, Members DEF CountInv, CountedKnown
      <3> QED BY <1>2, <1>5, <2>1, <3>2 DEF OpensFirst, LoginComes
    <2>2. CASE c # b
      <3>1. c \in early
        BY <1>6, <2>2
      <3>2. OpensFirst(c, k) /\ LoginComes(c, k)
        BY <3>1 DEF CountInv, LoginsFirst
      <3>3. OpensFirst(c, k)'
        BY <1>2, <3>2 DEF OpensFirst, Opening, Closing
      <3>4. LoginComes(c, k)'
        BY <1>2, <1>4, <1>7, <2>2, <3>2 DEF LoginComes, Opening
      <3> QED BY <3>3, <3>4
    <2> QED BY <2>1, <2>2
  <1> QED BY <1>8, <1>9, <1>10, <1>11, <1>12 DEF CountInv

(* A backup reads a packet: a PROFILE counts the login, the CLOSE_CONN of a
   client comes after it. *)
LEMMA ApplyCounts ==
  ASSUME Types, CountInv, NEW b \in Backups, Apply(b)
  PROVE  CountInv'
  <1> DEFINE n == Len(queue[b])
             new == processPacket(profiles[b], nullptr, Head(queue[b]))
  <1>0. PICK pkt \in Packets : pkt = Head(queue[b])
    BY Taken DEF Apply
  <1>1. /\ up[b] = "backup" /\ queue[b] # <<>> /\ ~Dereferences(profiles[b], pkt)
        /\ queue' = [queue EXCEPT ![b] = Tail(@)]
        /\ profiles' = [profiles EXCEPT ![b] = new]
        /\ counted' = [counted EXCEPT ![b] = countedAfter(@, pkt)]
        /\ UNCHANGED <<up, listBackups, early, threadVars>>
    BY <1>0 DEF Apply, Receives
  <1>2. /\ b \in Servers /\ WellFormed(pkt) /\ n \in Nat \ {0}
        /\ DOMAIN queue[b] = 1 .. n /\ queue[b][1] = pkt
        /\ DOMAIN queue'[b] = 1 .. n - 1
        /\ \A j \in 1 .. n - 1 : queue'[b][j] = queue[b][j + 1]
        /\ \A c \in Backups \ {b} : queue'[c] = queue[c]
    <2>1. /\ b \in Servers /\ WellFormed(pkt) /\ n \in Nat \ {0}
          /\ Tail(queue[b]) \in Seq(Packets) /\ queue[b] \in Seq(Packets)
          /\ pkt = queue[b][1] /\ Len(Tail(queue[b])) = n - 1
          /\ \A j \in 1 .. n - 1 : Tail(queue[b])[j] = queue[b][j + 1]
      BY <1>0, Taken DEF Apply
    <2>2. queue'[b] = Tail(queue[b]) /\ \A c \in Backups \ {b} : queue'[c] = queue[c]
      BY <1>1 DEF Types, Kinds
    <2>3. DOMAIN queue[b] = 1 .. n /\ DOMAIN Tail(queue[b]) = 1 .. Len(Tail(queue[b]))
      BY <2>1
    <2> QED BY <2>1, <2>2, <2>3
  <1> HIDE DEF n
  <1>3. /\ new = processPacket(profiles[b], nullptr, pkt)
        /\ profiles'[b] = new /\ counted'[b] = countedAfter(counted[b], pkt)
        /\ \A r \in Servers \ {b} : profiles'[r] = profiles[r] /\ counted'[r] = counted[r] /\ KnownAt(r)' = KnownAt(r)
    <2>1. \A r \in Servers \ {b} : profiles'[r] = profiles[r] /\ counted'[r] = counted[r]
      BY <1>1 DEF Types, Kinds
    <2>2. \A r \in Servers \ {b} : KnownAt(r)' = KnownAt(r)
      BY <2>1 DEF KnownAt
    <2> QED BY <1>0, <1>1, <1>2, <2>1, <2>2 DEF Types, Kinds
  <1> HIDE DEF new
  <1>4. /\ up' = up /\ listBackups' = listBackups /\ early' = early
        /\ packet' = packet /\ i' = i /\ pc' = pc /\ at' = at
        /\ \A t, d : Ahead(t, d)' <=> Ahead(t, d)
    BY <1>1 DEF threadVars, Ahead
  <1>5. /\ pkt.cmd = "PROFILE" => pkt.client \in Clients /\ pkt.payload = profileOf[pkt.client]
        /\ pkt.cmd = "CLOSE_CONN" => pkt.client \in Clients /\ pkt.sender = profileOf[pkt.client]
                                     /\ pkt.sender \in Names(profiles[b])
        /\ pkt.cmd \in {"FOLLOW", "SEND"} => pkt.sender \in Names(profiles[b])
    <2>1. pkt.cmd \in {"FOLLOW", "SEND", "CLOSE_CONN"} => pkt.sender # nullptr /\ profiles[b][pkt.sender] # nullptr
      BY <1>1 DEF Dereferences
    <2>2. pkt.sender # nullptr => pkt.sender \in ProfileIds
      BY DEF Packets
    <2>3. pkt.cmd \in {"FOLLOW", "SEND", "CLOSE_CONN"} => pkt.sender \in Names(profiles[b])
      BY <2>1, <2>2 DEF Names
    <2>4. /\ pkt.cmd = "PROFILE" => pkt.client \in Clients /\ pkt.payload = profileOf[pkt.client]
          /\ pkt.cmd = "CLOSE_CONN" => pkt.client \in Clients /\ pkt.sender \in {profileOf[pkt.client], nullptr}
      BY <1>2 DEF WellFormed, FromClient, IsList
    <2> QED BY <2>1, <2>3, <2>4
  <1>6. /\ KnownAt(b)' = KnownAt(b) \cup (IF pkt.cmd = "PROFILE" THEN {pkt.payload} ELSE {})
        /\ \A p \in KnownAt(b) :
             /\ profiles[b][p].sessions_on \in Int /\ profiles'[b][p].sessions_on \in Int
             /\ IF pkt.cmd = "PROFILE" /\ pkt.payload = p
                THEN profiles'[b][p].sessions_on = profiles[b][p].sessions_on + 1
                ELSE IF pkt.cmd = "CLOSE_CONN" /\ pkt.sender = p
                THEN profiles'[b][p].sessions_on >= profiles[b][p].sessions_on - 1
                ELSE profiles'[b][p].sessions_on = profiles[b][p].sessions_on
        /\ pkt.cmd = "PROFILE" /\ pkt.payload \notin KnownAt(b) => profiles'[b][pkt.payload].sessions_on = 1
    <2>1. nullptr \in ConnsOrNull /\ KnownAt(b)' = Names(new) /\ KnownAt(b) = Names(profiles[b])
      BY <1>3 DEF ConnsOrNull, KnownAt, Names
    <2>2. Closed(profiles[b]) /\ SenderKnown(profiles[b], pkt)
      BY <1>2, <1>5, MapsClosed DEF SenderKnown
    <2> QED BY <1>2, <1>3, <2>1, <2>2, Sessions
  <1>7. \A j \in 1 .. n - 1 : j + 1 \in 1 .. n /\ j < j + 1
    BY <1>2
  <1>8. \A s \in Servers : \A k \in Clients : Stays(s, k)' => Stays(s, k)
    <2> SUFFICES ASSUME NEW s \in Backups, NEW k \in Clients, CloseWaits(s, k)' PROVE CloseWaits(s, k)
      BY <1>4 DEF Stays
    <2>1. CASE Ahead(k, s)' /\ packet'[k].cmd = "CLOSE_CONN"
      BY <1>4, <2>1 DEF CloseWaits
    <2>2. ASSUME NEW j \in DOMAIN queue'[s], Closing(queue'[s][j], k) PROVE CloseWaits(s, k)
      <3>1. CASE s = b
        BY <1>2, <1>7, <2>2, <3>1 DEF CloseWaits
      <3>2. CASE s # b
        BY <1>2, <2>2, <3>2 DEF CloseWaits
      <3> QED BY <3>1, <3>2
    <2>3. \/ \E j \in DOMAIN queue'[s] : Closing(queue'[s][j], k)
          \/ Ahead(k, s)' /\ packet'[k].cmd = "CLOSE_CONN"
      BY DEF CloseWaits, Closing
    <2> QED BY <2>1, <2>2, <2>3
  <1>9. /\ \A s : Alive(s)' <=> Alive(s)
        /\ \A k \in Clients : at[k] # b
        /\ up[primary] = "serving" \/ up[primary] = "dead"
    BY <1>1, <1>4 DEF Alive, Types, Places
  <1>10. counted'[b] = IF pkt.cmd = "PROFILE" THEN counted[b] \cup {pkt.client} ELSE counted[b]
    BY <1>3 DEF countedAfter
  <1>11. CountsOK'
    <2>1. ASSUME NEW s \in Servers, s # b PROVE Counts(s)'
      <3>1. /\ Alive(s)' => Alive(s)
            /\ KnownAt(s)' = KnownAt(s) /\ counted'[s] = counted[s] /\ profiles'[s] = profiles[s]
        BY <1>3, <1>9, <2>1
      <3> QED BY <1>4, <1>8, <3>1, QuietCounts DEF CountInv
    <2>2. CASE pkt.cmd = "PROFILE"
      <3> DEFINE k == pkt.client
      <3>1. k \in Clients /\ counted'[b] = counted[b] \cup {k} /\ pkt.payload = profileOf[k]
        BY <1>5, <1>10, <2>2
      <3> HIDE DEF k
      <3>2. /\ KnownAt(b)' = KnownAt(b) \cup {profileOf[k]}
            /\ \A p \in KnownAt(b) :
                 profiles'[b][p].sessions_on = IF p = profileOf[k] THEN profiles[b][p].sessions_on + 1
                                               ELSE profiles[b][p].sessions_on
            /\ profileOf[k] \notin KnownAt(b) => profiles'[b][profileOf[k]].sessions_on = 1
        BY <1>6, <2>2, <3>1
      <3>3. Counts(b)'
        BY <1>2, <1>8, <1>9, <3>1, <3>2, OpenedCounts
      <3> QED BY <2>1, <3>3 DEF CountsOK
    <2>3. CASE pkt.cmd = "CLOSE_CONN"
      <3> DEFINE k == pkt.client
      <3>1. k \in Clients /\ counted'[b] = counted[b] /\ pkt.sender = profileOf[k] /\ Closing(pkt, k)
        BY <1>5, <1>10, <2>3 DEF Closing
      <3> HIDE DEF k
      <3>2. /\ KnownAt(b)' = KnownAt(b)
            /\ \A p \in KnownAt(b) :
                 /\ profiles'[b][p].sessions_on \in Int
                 /\ IF p = profileOf[k] THEN profiles'[b][p].sessions_on >= profiles[b][p].sessions_on - 1
                    ELSE profiles'[b][p].sessions_on = profiles[b][p].sessions_on
        BY <1>6, <2>3, <3>1
      <3>3. 1 \in DOMAIN queue[b] /\ Closing(queue[b][1], k)
        BY <1>2, <3>1
      <3>4. /\ pc[k] \in {"closing", "ended"} /\ ~Ahead(k, b)
            /\ \A m \in DOMAIN queue[b] : Closing(queue[b][m], k) => m = 1
        BY <3>1, <3>3 DEF CountInv, ClosesOnce
      <3>5. Stays(b, k)
        BY <3>3 DEF Stays, CloseWaits
      <3>6. ~Stays(b, k)'
        <4>1. \A j \in DOMAIN queue'[b] : ~Closing(queue'[b][j], k)
          <5> SUFFICES ASSUME NEW j \in 1 .. n - 1, Closing(queue'[b][j], k) PROVE FALSE
            BY <1>2
          <5>1. j + 1 \in DOMAIN queue[b] /\ Closing(queue[b][j + 1], k)
            BY <1>2, <1>7
          <5>2. j + 1 # 1
            BY <1>2
          <5> QED BY <3>4, <5>1, <5>2
        <4>2. ~CloseWaits(b, k)'
          BY <1>4, <3>4, <4>1 DEF CloseWaits, Closing
        <4> QED BY <1>4, <3>4, <4>2 DEF Stays
      <3>7. Alive(b) => k \in counted[b]
        <4> SUFFICES ASSUME Alive(b) PROVE k \in counted[b]
          OBVIOUS
        <4>1. b \in early
          BY Members DEF Alive
        <4>2. k \in counted[b] \/ \E m \in DOMAIN queue[b] : m < 1 /\ Opening(queue[b][m], k)
          BY <1>1, <3>1, <3>3, <4>1 DEF CountInv, LoginsFirst, OpensFirst
        <4> QED BY <1>2, <4>2
      <3>8. Counts(b)'
        BY <1>2, <1>4, <1>8, <1>9, <3>1, <3>2, <3>5, <3>6, <3>7, ClosedCounts
      <3> QED BY <2>1, <3>8 DEF CountsOK
    <2>4. CASE pkt.cmd \notin {"PROFILE", "CLOSE_CONN"}
      <3>1. /\ KnownAt(b)' = KnownAt(b) /\ counted'[b] = counted[b]
            /\ \A p \in KnownAt(b) : profiles'[b][p].sessions_on = profiles[b][p].sessions_on
        BY <1>6, <1>10, <2>4
      <3>2. Counts(b)'
        BY <1>2, <1>4, <1>8, <1>9, <3>1, QuietCounts DEF CountInv
      <3> QED BY <2>1, <3>2 DEF CountsOK
    <2> QED BY <2>2, <2>3, <2>4
  <1>12. CountedKnown'
    <2>1. ASSUME NEW s \in Servers, NEW k \in counted'[s] PROVE profileOf[k] \in KnownAt(s)'
      <3>1. CASE s # b
        BY <1>3, <2>1, <3>1 DEF CountInv, CountedKnown
      <3>2. CASE s = b /\ k \in counted[b]
        BY <1>2, <1>6, <3>2 DEF CountInv, CountedKnown
      <3>3. CASE s = b /\ k \notin counted[b]
        BY <1>5, <1>6, <1>10, <2>1, <3>3
      <3> QED BY <3>1, <3>2, <3>3
    <2>2. counted'[primary] = counted[primary]
      BY <1>3, Members
    <2> QED BY <1>4, <2>1, <2>2 DEF CountInv, CountedKnown
  <1>13. Vectors'
    <2>1. ASSUME NEW c \in Backups, pc[c] \in {"out", "joining"}, up[primary] = "serving"
          PROVE  queue'[c] = <<>> /\ KnownAt(c)' = {} /\ counted'[c] = {}
      <3>1. queue[c] = <<>> /\ KnownAt(c) = {} /\ counted[c] = {}
        BY <2>1 DEF CountInv, Vectors
      <3>2. c # b
        BY <1>1, <3>1
      <3> QED BY <1>2, <1>3, <3>1, <3>2, Members
    <2>2. \A c \in Backups : up[c] = "serving" => queue'[c] = queue[c]
      BY <1>1, <1>2
    <2> QED BY <1>4, <2>1, <2>2 DEF CountInv, Vectors
  <1>14. ClosesOnce'
    <2> SUFFICES ASSUME NEW c \in Backups, NEW k \in Clients, NEW j \in DOMAIN queue'[c], Closing(queue'[c][j], k)
                 PROVE  /\ pc[k] \in {"closing", "ended"} /\ ~Ahead(k, c)
                        /\ \A m \in DOMAIN queue'[c] : Closing(queue'[c][m], k) => m = j
      BY <1>4 DEF ClosesOnce, Closing
    <2>1. CASE c # b
      <3>1. queue'[c] = queue[c]
        BY <1>2, <2>1
      <3> QED BY <3>1 DEF CountInv, ClosesOnce
    <2>2. CASE c = b
      <3>1. j \in 1 .. n - 1 /\ j + 1 \in DOMAIN queue[b] /\ Closing(queue[b][j + 1], k)
        BY <1>2, <1>7, <2>2
      <3>2. /\ pc[k] \in {"closing", "ended"} /\ ~Ahead(k, b)
            /\ \A m \in DOMAIN queue[b] : Closing(queue[b][m], k) => m = j + 1
        BY <3>1 DEF CountInv, ClosesOnce
      <3>3. ASSUME NEW m \in DOMAIN queue'[b], Closing(queue'[b][m], k) PROVE m = j
        <4>1. m \in 1 .. n - 1 /\ m + 1 \in DOMAIN queue[b] /\ Closing(queue[b][m + 1], k)
          BY <1>2, <1>7, <3>3
        <4>2. m + 1 = j + 1
          BY <3>2, <4>1
        <4> QED BY <1>2, <3>1, <4>1, <4>2
      <3> QED BY <2>2, <3>2, <3>3
    <2> QED BY <2>1, <2>2
  <1>15. LoginsFirst'
    <2> SUFFICES ASSUME NEW c \in early, up[c] = "backup", NEW k \in Clients
                 PROVE  OpensFirst(c, k)' /\ LoginComes(c, k)'
      BY <1>4 DEF LoginsFirst
    <2>0. c \in Backups /\ counted'[primary] = counted[primary]
      BY <1>3, Members DEF Types, Kinds
    <2>1. OpensFirst(c, k) /\ LoginComes(c, k)
      BY DEF CountInv, LoginsFirst
    <2>2. CASE c # b
      <3>1. queue'[c] = queue[c] /\ counted'[c] = counted[c]
        BY <1>2, <1>3, <2>0, <2>2, Members
      <3>2. OpensFirst(c, k)'
        BY <2>1, <3>1 DEF OpensFirst, Opening, Closing
      <3>3. LoginComes(c, k)'
        BY <1>4, <2>0, <2>1, <3>1 DEF LoginComes, Opening
      <3> QED BY <3>2, <3>3
    <2>3. CASE c = b
      <3>1. ASSUME NEW m \in DOMAIN queue[b], Opening(queue[b][m], k)
            PROVE  k \in counted'[b] \/ (m - 1 \in 1 .. n - 1 /\ Opening(queue'[b][m - 1], k))
        <4>1. CASE m = 1
          BY <1>2, <1>10, <3>1, <4>1 DEF Opening
        <4>2. CASE m # 1
          <5>1. m - 1 \in 1 .. n - 1 /\ (m - 1) + 1 = m
            BY <1>2, <4>2
          <5> QED BY <1>2, <3>1, <5>1
        <4> QED BY <4>1, <4>2
      <3>2. k \in counted[b] => k \in counted'[b]
        BY <1>10
      <3>3. ASSUME NEW j \in 1 .. n - 1, Closing(queue'[b][j], k)
            PROVE  k \in counted'[b] \/ \E m \in 1 .. n - 1 : m < j /\ Opening(queue'[b][m], k)
        <4>1. j + 1 \in DOMAIN queue[b] /\ Closing(queue[b][j + 1], k)
          BY <1>2, <1>7, <3>3
        <4>2. k \in counted[b] \/ \E m \in DOMAIN queue[b] : m < j + 1 /\ Opening(queue[b][m], k)
          BY <2>1, <2>3, <4>1 DEF OpensFirst
        <4>3. ASSUME NEW m \in DOMAIN queue[b], m < j + 1, Opening(queue[b][m], k)
              PROVE  k \in counted'[b] \/ \E x \in 1 .. n - 1 : x < j /\ Opening(queue'[b][x], k)
          <5>1. m \in Nat /\ m - 1 < j
            BY <1>2, <4>3
          <5> QED BY <3>1, <4>3, <5>1
        <4> QED BY <3>2, <4>2, <4>3
      <3>4. OpensFirst(c, k)'
        <4>1. \A j \in DOMAIN queue'[b] : Closing(queue'[b][j], k) =>
                k \in counted'[b] \/ \E m \in DOMAIN queue'[b] : m < j /\ Opening(queue'[b][m], k)
          BY <1>2, <3>3
        <4> QED BY <2>3, <4>1 DEF OpensFirst, Opening, Closing
      <3>5. LoginComes(c, k)'
        <4> SUFFICES ASSUME up[primary] = "serving", k \in counted[primary]
                     PROVE  \/ k \in counted'[b]
                            \/ \E m \in 1 .. n - 1 : Opening(queue'[b][m], k)
                            \/ Ahead(k, b) /\ packet[k].cmd = "PROFILE"
          BY <1>2, <1>4, <2>0, <2>3 DEF LoginComes, Opening
        <4>1. \/ k \in counted[b]
              \/ \E m \in DOMAIN queue[b] : Opening(queue[b][m], k)
              \/ Ahead(k, b) /\ packet[k].cmd = "PROFILE"
          BY <2>1, <2>3 DEF LoginComes
        <4> QED BY <3>1, <3>2, <4>1
      <3> QED BY <3>4, <3>5
    <2> QED BY <2>2, <2>3
  <1> QED BY <1>11, <1>12, <1>13, <1>14, <1>15 DEF CountInv

LEMMA DeathsCounts ==
  ASSUME Types, CountInv
  PROVE  /\ \A t \in Threads : ForwardDies(t) => CountInv'
         /\ \A k \in Clients : FetchDies(k) => CountInv'
         /\ \A k \in Clients : \A s \in Servers : ReconnectDies(k, s) => CountInv'
         /\ \A b \in Backups : JoinDies(b) => CountInv'
         /\ \A b \in Backups : ApplyDies(b) => CountInv'
         /\ Kill => CountInv'
  <1>1. ASSUME NEW s \in Servers, Death(s), UNCHANGED netVars PROVE CountInv'
    BY <1>1, DeathCounts DEF netVars
  <1>2. ASSUME NEW b \in Backups, ApplyDies(b) PROVE CountInv'
    <2>1. Death(b) /\ queue' = [queue EXCEPT ![b] = <<>>]
      BY <1>2 DEF ApplyDies
    <2>2. \A c \in Backups : queue'[c] = queue[c] \/ (c = b /\ queue'[c] = <<>>)
      BY <2>1 DEF Types, Kinds
    <2> QED BY <2>1, <2>2, Members, DeathCounts
  <1>3. \A k \in Clients : at[k] \in Servers
    BY DEF Types, Kinds
  <1>4. \A t \in Threads : ServerOf(t) \in Servers
    BY ServerOfOK DEF Types
  <1> QED
    BY <1>1, <1>2, <1>3, <1>4, Members DEF ForwardDies, FetchDies, ReconnectDies, JoinDies, Kill

LEMMA NextCounts == Types /\ CountInv /\ [Next]_vars => CountInv'
  <1> SUFFICES ASSUME Types, CountInv, [Next]_vars PROVE CountInv'
    OBVIOUS
  <1>1. ASSUME NEW t \in Threads, Proceed(t) PROVE CountInv'
    BY <1>1, ForwardCounts, EndForwardCounts, DeathsCounts DEF Proceed
  <1>2. ASSUME NEW b \in Backups, SetBackup(b) \/ Backup(b) PROVE CountInv'
    BY <1>2, SetBackupCounts, JoinCounts, ApplyCounts, PromoteCounts, DeathsCounts DEF Backup
  <1>3. ASSUME NEW k \in Clients, Welcome(k) PROVE CountInv'
    BY <1>3, FetchCounts, DeathsCounts DEF Welcome
  <1>4. ASSUME NEW k \in Clients, ClientStep(k) PROVE CountInv'
    BY <1>4, LoginCounts, LoginRefusedCounts, FollowCounts, TweetCounts, CloseCounts,
       ReconnectCounts, StartClientCounts, DeathsCounts DEF ClientStep
  <1>5. CASE Kill
    BY <1>5, DeathsCounts
  <1>6. CASE UNCHANGED vars
    <2>1. /\ UNCHANGED <<up, profiles, counted, listBackups, early, queue, pc, at, packet, i>>
      BY <1>6 DEF vars, mapVars, listVars, netVars, threadVars
    <2>2. /\ \A s : KnownAt(s)' = KnownAt(s)
          /\ \A t, d : Ahead(t, d)' <=> Ahead(t, d)
      BY <2>1 DEF KnownAt, Ahead
    <2>3. \A s, k : Stays(s, k)' <=> Stays(s, k)
      BY <2>1, <2>2 DEF Stays, CloseWaits, Closing
    <2>4. \A s, p : Active(s, p)' = Active(s, p)
      BY <2>1, <2>3 DEF Active
    <2>5. CountsOK'
      BY <2>1, <2>2, <2>4 DEF CountInv, CountsOK, Counts, Alive, AllCounted
    <2>6. CountedKnown' /\ Vectors'
      BY <2>1, <2>2 DEF CountInv, CountedKnown, Vectors
    <2>7. ClosesOnce' /\ LoginsFirst'
      BY <2>1, <2>2 DEF CountInv, ClosesOnce, LoginsFirst, OpensFirst, LoginComes, Opening, Closing
    <2> QED BY <2>5, <2>6, <2>7 DEF CountInv
  <1> QED BY <1>1, <1>2, <1>3, <1>4, <1>5, <1>6 DEF Next

(* ProfilesManager's updateSessionsOn adds a session and does not count it.
   On a server that has seen every login from the start and has counted all
   the clients of a profile that are connected to it, sessions_on is at least
   the number of those that are online, so that keepsPacket is not mistaken. *)
THEOREM OnlineAlwaysCounted == Spec => []OnlineIsCounted
  <1>1. Init => Types /\ CountInv
    BY InitTypes, InitCounts
  <1>2. Types /\ CountInv /\ [Next]_vars => (Types /\ CountInv)'
    BY NextTypes, NextCounts
  <1>3. Types /\ CountInv => OnlineIsCounted
    <2> SUFFICES ASSUME Types, CountInv, NEW s \in early \cup {primary}, up[s] = "serving",
                        NEW p \in KnownAt(s), AllCounted(s, p)
                 PROVE  profiles[s][p].sessions_on >= Cardinality(Online(s, p))
      BY DEF OnlineIsCounted, AllCounted
    <2>1. s \in Servers
      BY Members DEF Types, Kinds
    <2>2. Online(s, p) \subseteq Active(s, p)
      BY DEF Online, AllCounted, Active, Stays
    <2>3. profiles[s][p].sessions_on >= Cardinality(Active(s, p))
      BY <2>1 DEF CountInv, CountsOK, Counts, Alive
    <2>4. profiles[s][p].sessions_on \in Int
      BY <2>1, KnownObject
    <2> QED BY <2>1, <2>2, <2>3, <2>4, FiniteCounted, Fewer
  <1> QED BY <1>1, <1>2, <1>3, PTL DEF Spec
=============================================================================
