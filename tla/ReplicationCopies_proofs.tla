---------------------- MODULE ReplicationCopies_proofs ----------------------
(***************************************************************************)
(* The copy of the profile map that a backup has when it has read its      *)
(* queue, and what it has in common with the map of the primary.           *)
(*                                                                         *)
(* For a backup that joined before the first login there is a sequence of  *)
(* maps, from the one it has to the one it will have, each made of the one *)
(* before by the next packet of its queue.  The last one knows the clients *)
(* whose PROFILE it has been handed, and a profile of it differs from the  *)
(* primary's only by the packet of the one thread that touches the profile *)
(* and has not yet come to this backup: if two such threads touch one      *)
(* profile, the profile is in raced.                                       *)
(***************************************************************************)
EXTENDS Replication_proofs

(* A CLOSE_CONN that names nobody ends the backup that reads it. *)
NullClose(pkt) == pkt.cmd = "CLOSE_CONN" /\ pkt.sender = nullptr
Doomed(b) == \E j \in DOMAIN queue[b] : NullClose(queue[b][j])

(* What the thread k still has to hand to b. *)
Brings(k, b, cmd) == Ahead(k, b) /\ packet[k].cmd = cmd

Followers(map, a) == IF map[a] = nullptr THEN {} ELSE ToSet(map[a].followers)

(* What the packet of a thread touches in the map of the primary (Touches). *)
Touched(map, pkt) ==
  CASE pkt.cmd = "PROFILE"            -> {pkt.payload}
    [] pkt.cmd = "FOLLOW"             -> {pkt.payload, pkt.sender}
    [] pkt.cmd = "CLOSE_CONN"         -> {profileOf[pkt.client]}
    [] pkt.cmd = "SEND"               -> {pkt.sender} \cup Followers(map, pkt.sender)
    [] pkt.cmd = "BACKUP_PROPAGATION" -> {nullptr}
Under(t) == Touched(profiles[primary], packet[t])

(* The clients with a session on the primary, and those that have one in the
   copy that b will have when it has read its queue. *)
Sessions1(p) == {k \in counted[primary] : profileOf[k] = p /\ pc[k] \notin {"closing", "ended"}}
Arrived(b, k) == k \in counted[primary] /\ ~Brings(k, b, "PROFILE")
SessionsAt(b, p) ==
  {k \in Clients : /\ Arrived(b, k) /\ profileOf[k] = p
                   /\ pc[k] \notin {"closing", "ended"} \/ Brings(k, b, "CLOSE_CONN")}

(* The map of the primary. *)
PrimaryOK ==
  up[primary] = "serving" =>
    /\ \A k \in counted[primary] : pc[k] # "out"
    /\ \A p \in KnownAt(primary) :
         /\ \E k \in counted[primary] : profileOf[k] = p
         /\ profiles[primary][p].sessions_on = Cardinality(Sessions1(p))
         /\ profiles[primary][p].sessions_on <= MAX_SESSIONS
    /\ \A k \in Clients : pc[k] \in {"forward", "fetch", "idle"} =>
         k \in ToSet(profiles[primary][profileOf[k]].sessions)

(* Two commands under way that touch one object. *)
RacedOK ==
  up[primary] = "serving" =>
    \A t, u \in Threads :
      /\ t # u /\ packet[t] # nullptr /\ packet[u] # nullptr
      /\ Under(t) \cap Under(u) # {}
      => Under(t) \subseteq raced

(* A FOLLOW that is being forwarded has been carried out. *)
FollowsOK ==
  up[primary] = "serving" =>
    \A k \in Clients : packet[k] # nullptr /\ packet[k].cmd = "FOLLOW" =>
      /\ packet[k].payload # packet[k].sender
      /\ packet[k].payload \in KnownAt(primary) /\ packet[k].sender \notin raced =>
           packet[k].sender \in Followers(profiles[primary], packet[k].payload)

NamesArrived(b, map) ==
  \A p \in ProfileIds : map[p] # nullptr <=> \E k \in Clients : Arrived(b, k) /\ profileOf[k] = p

SessionsArrived(b, map) ==
  \A p \in Names(map) :
    /\ map[p].sessions \in Seq({nullptr})
    /\ Len(map[p].sessions) = map[p].sessions_on
    /\ map[p].sessions_on = Cardinality(SessionsAt(b, p))

FollowersArrived(b, map, p) ==
  \A a \in ProfileIds :
    /\ p \in Followers(map, a) => p \in Followers(profiles[primary], a)
    /\ p \in Followers(profiles[primary], a) =>
         \/ p \in Followers(map, a)
         \/ \E k \in Clients : Brings(k, b, "FOLLOW") /\ packet[k].payload = a /\ packet[k].sender = p

Untouched(b, p) == \A t \in Threads : Ahead(t, b) => p \notin Under(t)

ProfileArrived(b, map, p) ==
  /\ Untouched(b, p) => SameProfile(map[p], profiles[primary][p])
  /\ \A t \in Threads : Ahead(t, b) /\ p \in Under(t) /\ ~NullClose(packet[t]) =>
       SameProfile(processPacket(map, nullptr, packet[t])[p], profiles[primary][p])

(* The copy of b when it has read its queue. *)
Copies(b, map) ==
  /\ NamesArrived(b, map)
  /\ SessionsArrived(b, map)
  /\ \A p \in ProfileIds \ raced : FollowersArrived(b, map, p)
  /\ \A p \in KnownAt(primary) \ raced : ProfileArrived(b, map, p)

(* The copies of b while it reads its queue. *)
Replays(b, m) ==
  /\ m[0] = profiles[b]
  /\ \A j \in DOMAIN queue[b] :
       \/ \E x \in DOMAIN queue[b] : x <= j /\ NullClose(queue[b][x])
       \/ /\ m[j] = processPacket(m[j - 1], nullptr, queue[b][j])
          /\ \/ ~Dereferences(m[j - 1], queue[b][j])
             \/ queue[b][j].cmd = "PROFILE" /\ queue[b][j].payload \in raced

CopyOK(b, m, map) ==
  /\ \A j \in 0 .. Len(queue[b]) : Closed(m[j])
  /\ Replays(b, m)
  /\ map = m[Len(queue[b])]
  /\ up[primary] = "serving" /\ ~Doomed(b) => Copies(b, map)

HasCopy(b) == \E m \in [0 .. Len(queue[b]) -> Maps] : \E map \in Maps : CopyOK(b, m, map)

CopiesOK == \A b \in early : up[b] = "backup" => HasCopy(b)

CopyInv == PrimaryOK /\ RacedOK /\ FollowsOK /\ CopiesOK

-----------------------------------------------------------------------------
(* What a packet makes of one profile. *)
LEMMA Effect ==
  ASSUME NEW map, Closed(map), NEW conn, NEW pkt, WellFormed(pkt), NEW p \in ProfileIds,
         pkt.cmd \in {"FOLLOW", "SEND"} => pkt.sender \in Names(map)
  PROVE  LET new == processPacket(map, conn, pkt) IN
         /\ pkt.cmd = "PROFILE" =>
              new[p] = IF p = pkt.payload
                       THEN incSessionsOn(IF map[p] = nullptr THEN NewProfile ELSE map[p], conn)
                       ELSE map[p]
         /\ pkt.cmd = "FOLLOW" =>
              new[p] = IF p = pkt.payload /\ p # pkt.sender /\ p \in Names(map)
                          /\ pkt.sender \notin Followers(map, p)
                       THEN addFollower(map[p], pkt.sender)
                       ELSE map[p]
         /\ pkt.cmd = "SEND" =>
              new[p] = IF p \in Followers(map, pkt.sender) /\ keepsPacket(map[p])
                       THEN insertPacket(map[p], pkt.payload)
                       ELSE map[p]
         /\ pkt.cmd = "CLOSE_CONN" =>
              new[p] = IF p = pkt.sender THEN decSessionsOn(map[p], conn) ELSE map[p]
         /\ pkt.cmd = BP => new[p] = map[p]
  <1> DEFINE new == processPacket(map, conn, pkt)
  <1>1. map \in Maps /\ DOMAIN map = ProfileIds
    BY DEF Closed, Maps
  <1>2. \A a \in Names(map) : \A f : follows(map[a], f) <=> f \in Followers(map, a)
    <2> SUFFICES ASSUME NEW a \in Names(map), NEW f
                 PROVE  follows(map[a], f) <=> f \in Followers(map, a)
      OBVIOUS
    <2>1. map[a] \in Objects /\ map[a] # nullptr
      BY <1>1, NamesObject DEF Names
    <2>2. map[a].followers \in Seq(ProfileIds)
      BY <2>1 DEF Objects
    <2> QED BY <2>1, <2>2, ContainsToSet DEF follows, Followers
  <1>3. CASE pkt.cmd = "PROFILE"
    <2>1. new = createProfileIfNotExists(map, pkt.payload, conn)
      BY <1>3 DEF processPacket
    <2>2. new[p] = IF p = pkt.payload
                   THEN incSessionsOn(IF map[p] = nullptr THEN NewProfile ELSE map[p], conn)
                   ELSE map[p]
      BY <1>1, <2>1 DEF createProfileIfNotExists
    <2> QED BY <1>3, <2>2 DEF BP
  <1>4. CASE pkt.cmd = "FOLLOW"
    <2>1. new = addFollowerTo(map, pkt.payload, pkt.sender)
      BY <1>4 DEF processPacket
    <2>2. pkt.payload \in ProfileIds
      BY <1>4 DEF WellFormed, FromClient, IsList
    <2>3. map[pkt.payload] # nullptr <=> pkt.payload \in Names(map)
      BY <2>2 DEF Names
    <2> DEFINE go == pkt.payload # pkt.sender /\ map[pkt.payload] # nullptr /\ ~follows(map[pkt.payload], pkt.sender)
    <2>4. go <=> /\ pkt.payload # pkt.sender /\ pkt.payload \in Names(map)
                 /\ pkt.sender \notin Followers(map, pkt.payload)
      BY <1>2, <2>3
    <2>5. CASE go
      <3>1. new = [map EXCEPT ![pkt.payload] = addFollower(map[pkt.payload], pkt.sender)]
        BY <2>1, <2>5 DEF addFollowerTo
      <3>2. new[p] = IF p = pkt.payload THEN addFollower(map[p], pkt.sender) ELSE map[p]
        BY <1>1, <3>1
      <3> QED BY <1>4, <2>4, <2>5, <3>2 DEF BP
    <2>6. CASE ~go
      <3>1. new = map
        BY <2>1, <2>6 DEF addFollowerTo
      <3> QED BY <1>4, <2>4, <2>6, <3>1 DEF BP
    <2> QED BY <2>5, <2>6
  <1>5. CASE pkt.cmd = "SEND"
    <2>1. new = sendToFollowersOf(map, pkt.sender, pkt.payload)
      BY <1>5 DEF processPacket
    <2>2. new[p] = IF follows(map[pkt.sender], p) /\ keepsPacket(map[p])
                   THEN insertPacket(map[p], pkt.payload) ELSE map[p]
      BY <2>1 DEF sendToFollowersOf
    <2> QED BY <1>2, <1>5, <2>2 DEF BP
  <1>6. CASE pkt.cmd = "CLOSE_CONN"
    <2>1. new = [map EXCEPT ![pkt.sender] = decSessionsOn(@, conn)]
      BY <1>6 DEF processPacket
    <2>2. new[p] = IF p = pkt.sender THEN decSessionsOn(map[p], conn) ELSE map[p]
      BY <1>1, <2>1
    <2> QED BY <1>6, <2>2 DEF BP
  <1>7. CASE pkt.cmd = BP
    BY <1>7 DEF processPacket, BP
  <1>8. pkt.cmd \in {"PROFILE", "FOLLOW", "SEND", "CLOSE_CONN", BP}
    BY DEF WellFormed, FromClient, IsList, BP
  <1> HIDE DEF new
  <1> QED BY <1>3, <1>4, <1>5, <1>6, <1>7, <1>8 DEF new

(* What the methods of an object leave alone. *)
LEMMA Methods ==
  ASSUME NEW o \in Objects, NEW conn \in ConnsOrNull
  PROVE  /\ incSessionsOn(o, conn).sessions_on = o.sessions_on + 1
         /\ incSessionsOn(o, conn).sessions = Append(o.sessions, conn)
         /\ incSessionsOn(o, conn).followers = o.followers
         /\ incSessionsOn(o, conn).inbox = o.inbox
         /\ decSessionsOn(o, conn).followers = o.followers
         /\ decSessionsOn(o, conn).inbox = o.inbox
         /\ conn \in ToSet(o.sessions) =>
              /\ decSessionsOn(o, conn).sessions_on = o.sessions_on - 1
              /\ decSessionsOn(o, conn).sessions = RemoveFirst(o.sessions, conn)
         /\ emptied(o).sessions_on = o.sessions_on
         /\ emptied(o).sessions = o.sessions
         /\ emptied(o).followers = o.followers
         /\ emptied(o).inbox = <<>>
         /\ \A f : /\ addFollower(o, f).sessions_on = o.sessions_on
                   /\ addFollower(o, f).sessions = o.sessions
                   /\ addFollower(o, f).followers = Append(o.followers, f)
                   /\ addFollower(o, f).inbox = o.inbox
         /\ \A x : /\ insertPacket(o, x).sessions_on = o.sessions_on
                   /\ insertPacket(o, x).sessions = o.sessions
                   /\ insertPacket(o, x).followers = o.followers
                   /\ insertPacket(o, x).inbox = Append(o.inbox, x)
  <1>1. o.sessions \in Seq(ConnsOrNull) /\ DOMAIN o = {"sessions_on", "sessions", "followers", "inbox"}
    BY DEF Objects, ConnsOrNull
  <1>2. Contains(o.sessions, conn) <=> conn \in ToSet(o.sessions)
    BY <1>1, ContainsToSet
  <1>3. /\ incSessionsOn(o, conn).sessions_on = o.sessions_on + 1
        /\ incSessionsOn(o, conn).sessions = Append(o.sessions, conn)
        /\ incSessionsOn(o, conn).followers = o.followers
        /\ incSessionsOn(o, conn).inbox = o.inbox
    BY <1>1 DEF incSessionsOn
  <1>4. /\ decSessionsOn(o, conn).followers = o.followers
        /\ decSessionsOn(o, conn).inbox = o.inbox
        /\ conn \in ToSet(o.sessions) =>
              /\ decSessionsOn(o, conn).sessions_on = o.sessions_on - 1
              /\ decSessionsOn(o, conn).sessions = RemoveFirst(o.sessions, conn)
    <2>1. CASE conn \in ToSet(o.sessions)
      <3>1. decSessionsOn(o, conn) = [o EXCEPT !.sessions_on = @ - 1, !.sessions = RemoveFirst(@, conn)]
        BY <1>2, <2>1 DEF decSessionsOn
      <3> QED BY <1>1, <3>1
    <2>2. CASE conn \notin ToSet(o.sessions)
      BY <1>2, <2>2 DEF decSessionsOn
    <2> QED BY <2>1, <2>2
  <1>5. /\ emptied(o).sessions_on = o.sessions_on
        /\ emptied(o).sessions = o.sessions
        /\ emptied(o).followers = o.followers
        /\ emptied(o).inbox = <<>>
    BY <1>1 DEF emptied
  <1>6. \A f : /\ addFollower(o, f).sessions_on = o.sessions_on
               /\ addFollower(o, f).sessions = o.sessions
               /\ addFollower(o, f).followers = Append(o.followers, f)
               /\ addFollower(o, f).inbox = o.inbox
    BY <1>1 DEF addFollower
  <1>7. \A x : /\ insertPacket(o, x).sessions_on = o.sessions_on
               /\ insertPacket(o, x).sessions = o.sessions
               /\ insertPacket(o, x).followers = o.followers
               /\ insertPacket(o, x).inbox = Append(o.inbox, x)
    BY <1>1 DEF insertPacket
  <1> QED BY <1>3, <1>4, <1>5, <1>6, <1>7

(* A follower is gained by FOLLOW and never lost. *)
LEMMA FollowersEffect ==
  ASSUME NEW map, Closed(map), NEW conn \in ConnsOrNull, NEW pkt, WellFormed(pkt),
         pkt.cmd \in {"FOLLOW", "SEND", "CLOSE_CONN"} => pkt.sender \in Names(map),
         NEW a \in ProfileIds
  PROVE  Followers(processPacket(map, conn, pkt), a)
           = IF pkt.cmd = "FOLLOW" /\ a = pkt.payload /\ a # pkt.sender /\ a \in Names(map)
             THEN Followers(map, a) \cup {pkt.sender} ELSE Followers(map, a)
  <1> DEFINE new == processPacket(map, conn, pkt)
  <1>1. map \in Maps /\ (a \in Names(map) => map[a] \in Objects /\ map[a] # nullptr)
    BY NamesObject DEF Closed, Names
  <1>2. a \notin Names(map) => map[a] = nullptr
    BY DEF Names
  <1>3. pkt.cmd \in {"PROFILE", "FOLLOW", "SEND", "CLOSE_CONN", BP}
    BY DEF WellFormed, FromClient, IsList, BP
  <1> DEFINE same == new[a] = map[a]
                     \/ (new[a] \in Objects /\ map[a] \in Objects /\ new[a].followers = map[a].followers)
                     \/ (new[a] \in Objects /\ map[a] = nullptr /\ new[a].followers = <<>>)
  <1>4. same => Followers(new, a) = Followers(map, a)
    <2>1. ToSet(<<>>) = {}
      BY DEF ToSet
    <2> QED BY <2>1, ObjectIsNotNull DEF Followers
  <1>5. CASE pkt.cmd = "PROFILE"
    <2>1. new[a] = IF a = pkt.payload
                   THEN incSessionsOn(IF map[a] = nullptr THEN NewProfile ELSE map[a], conn) ELSE map[a]
      BY <1>5, Effect
    <2>2. CASE a = pkt.payload /\ a \in Names(map)
      BY <1>1, <1>4, <1>5, <2>1, <2>2, IncSessionsOn
    <2>3. CASE a = pkt.payload /\ a \notin Names(map)
      BY <1>2, <1>4, <1>5, <2>1, <2>3, IncSessionsOn, NewProfileOK
    <2> QED BY <1>4, <1>5, <2>1, <2>2, <2>3
  <1>6. CASE pkt.cmd = "FOLLOW"
    <2>1. new[a] = IF a = pkt.payload /\ a # pkt.sender /\ a \in Names(map)
                      /\ pkt.sender \notin Followers(map, a)
                   THEN addFollower(map[a], pkt.sender) ELSE map[a]
      BY <1>6, Effect
    <2>2. CASE a = pkt.payload /\ a # pkt.sender /\ a \in Names(map) /\ pkt.sender \notin Followers(map, a)
      <3>1. pkt.sender \in ProfileIds
        BY <1>6 DEF Names
      <3>2. /\ new[a] \in Objects
            /\ ToSet(new[a].followers) = ToSet(map[a].followers) \cup {pkt.sender}
        BY <1>1, <2>1, <2>2, <3>1, AddFollower
      <3> QED BY <1>1, <1>6, <2>2, <3>2, ObjectIsNotNull DEF Followers
    <2>3. CASE ~(a = pkt.payload /\ a # pkt.sender /\ a \in Names(map) /\ pkt.sender \notin Followers(map, a))
      BY <1>4, <1>6, <2>1, <2>3
    <2> QED BY <2>2, <2>3
  <1>7. CASE pkt.cmd = "SEND"
    <2>1. new[a] = IF a \in Followers(map, pkt.sender) /\ keepsPacket(map[a])
                   THEN insertPacket(map[a], pkt.payload) ELSE map[a]
      BY <1>7, Effect
    <2>2. a \in Followers(map, pkt.sender) => a \in Names(map)
      BY <1>7 DEF Followers, Closed, Names
    <2>3. pkt.payload \in Clients \X Nat
      BY <1>7 DEF WellFormed, FromClient, IsList
    <2> QED BY <1>1, <1>4, <1>7, <2>1, <2>2, <2>3, InsertPacket
  <1>8. CASE pkt.cmd = "CLOSE_CONN"
    <2>1. new[a] = IF a = pkt.sender THEN decSessionsOn(map[a], conn) ELSE map[a]
      BY <1>8, Effect
    <2> QED BY <1>1, <1>4, <1>8, <2>1, DecSessionsOn
  <1>9. CASE pkt.cmd = BP
    BY <1>4, <1>9, Effect DEF BP
  <1> QED BY <1>3, <1>5, <1>6, <1>7, <1>8, <1>9

(* A packet makes the same of two profiles that are the same. *)
LEMMA SameEffect ==
  ASSUME NEW map1, Closed(map1), NEW map2, Closed(map2),
         NEW c1 \in ConnsOrNull, NEW c2 \in ConnsOrNull, NEW pkt, WellFormed(pkt),
         pkt.cmd \in {"FOLLOW", "SEND"} => pkt.sender \in Names(map1) /\ pkt.sender \in Names(map2),
         NEW p \in ProfileIds,
         \/ /\ p \in Names(map1) /\ p \in Names(map2)
            /\ SameProfile(map1[p], map2[p])
            /\ map1[p].sessions_on = map2[p].sessions_on
         \/ p \notin Names(map1) /\ p \notin Names(map2) /\ pkt.cmd = "PROFILE" /\ pkt.payload = p,
         pkt.cmd = "SEND" =>
           (p \in Followers(map1, pkt.sender) <=> p \in Followers(map2, pkt.sender))
  PROVE  SameProfile(processPacket(map1, c1, pkt)[p], processPacket(map2, c2, pkt)[p])
  <1> DEFINE new1 == processPacket(map1, c1, pkt)[p]
             new2 == processPacket(map2, c2, pkt)[p]
             o1 == map1[p]
             o2 == map2[p]
  <1>1. /\ p \in Names(map1) => o1 \in Objects
        /\ p \in Names(map2) => o2 \in Objects
    BY NamesObject DEF Closed
  <1>2. CASE /\ p \in Names(map1) /\ p \in Names(map2)
             /\ SameProfile(o1, o2) /\ o1.sessions_on = o2.sessions_on
    <2>1. /\ o1 \in Objects /\ o2 \in Objects /\ o1 # nullptr /\ o2 # nullptr
          /\ o1.followers = o2.followers /\ IsSuffix(o2.inbox, o1.inbox)
      BY <1>1, <1>2 DEF SameProfile, Names
    <2>2. o1.inbox \in Seq(Clients \X Nat) /\ o2.inbox \in Seq(Clients \X Nat)
      BY <2>1 DEF Objects
    <2>3. CASE pkt.cmd = "PROFILE"
      <3>1. /\ new1 = IF p = pkt.payload THEN incSessionsOn(o1, c1) ELSE o1
            /\ new2 = IF p = pkt.payload THEN incSessionsOn(o2, c2) ELSE o2
        BY <2>1, <2>3, Effect
      <3> HIDE DEF o1, o2, new1, new2
      <3> QED BY <2>1, <3>1, Methods DEF SameProfile, new1, new2
    <2>4. CASE pkt.cmd = "FOLLOW"
      <3>1. Followers(map1, p) = Followers(map2, p)
        BY <2>1 DEF Followers
      <3> DEFINE go == p = pkt.payload /\ p # pkt.sender /\ pkt.sender \notin Followers(map1, p)
      <3>2. /\ new1 = IF go THEN addFollower(o1, pkt.sender) ELSE o1
            /\ new2 = IF go THEN addFollower(o2, pkt.sender) ELSE o2
        BY <1>2, <2>4, <3>1, Effect
      <3> HIDE DEF o1, o2, new1, new2, go
      <3>3. \A o \in Objects : /\ addFollower(o, pkt.sender).followers = Append(o.followers, pkt.sender)
                              /\ addFollower(o, pkt.sender).inbox = o.inbox
        <4>1. nullptr \in ConnsOrNull
          BY DEF ConnsOrNull
        <4> QED BY <4>1, Methods
      <3> QED BY <2>1, <3>2, <3>3 DEF SameProfile, new1, new2
    <2>5. CASE pkt.cmd = "SEND"
      <3>1. pkt.payload \in Clients \X Nat
        BY <2>5 DEF WellFormed, FromClient, IsList
      <3>2. keepsPacket(o1) <=> keepsPacket(o2)
        BY <1>2 DEF keepsPacket
      <3> DEFINE go == p \in Followers(map1, pkt.sender) /\ keepsPacket(o1)
      <3>3. /\ new1 = IF go THEN insertPacket(o1, pkt.payload) ELSE o1
            /\ new2 = IF go THEN insertPacket(o2, pkt.payload) ELSE o2
        BY <2>5, <3>2, Effect
      <3> HIDE DEF o1, o2, new1, new2, go
      <3>4. \A o \in Objects : /\ insertPacket(o, pkt.payload).followers = o.followers
                              /\ insertPacket(o, pkt.payload).inbox = Append(o.inbox, pkt.payload)
        <4>1. nullptr \in ConnsOrNull
          BY DEF ConnsOrNull
        <4> QED BY <4>1, Methods
      <3>5. IsSuffix(Append(o2.inbox, pkt.payload), Append(o1.inbox, pkt.payload))
        BY <2>1, <2>2, <3>1, SuffixAppend
      <3> QED BY <2>1, <3>3, <3>4, <3>5 DEF SameProfile, new1, new2
    <2>6. CASE pkt.cmd = "CLOSE_CONN"
      <3>1. /\ new1 = IF p = pkt.sender THEN decSessionsOn(o1, c1) ELSE o1
            /\ new2 = IF p = pkt.sender THEN decSessionsOn(o2, c2) ELSE o2
        BY <2>6, Effect
      <3> HIDE DEF o1, o2, new1, new2
      <3> QED BY <2>1, <3>1, Methods DEF SameProfile, new1, new2
    <2>7. CASE pkt.cmd = BP
      <3>1. new1 = o1 /\ new2 = o2
        BY <2>7, Effect DEF BP
      <3> HIDE DEF o1, o2, new1, new2
      <3> QED BY <1>2, <3>1 DEF SameProfile, new1, new2
    <2>8. pkt.cmd \in {"PROFILE", "FOLLOW", "SEND", "CLOSE_CONN", BP}
      BY DEF WellFormed, FromClient, IsList, BP
    <2> QED BY <2>3, <2>4, <2>5, <2>6, <2>7, <2>8
  <1>3. CASE p \notin Names(map1) /\ p \notin Names(map2) /\ pkt.cmd = "PROFILE" /\ pkt.payload = p
    <2>1. o1 = nullptr /\ o2 = nullptr
      BY <1>3 DEF Names
    <2>2. new1 = incSessionsOn(NewProfile, c1) /\ new2 = incSessionsOn(NewProfile, c2)
      BY <1>3, <2>1, Effect
    <2>3. /\ new1.followers = NewProfile.followers /\ new1.inbox = NewProfile.inbox
          /\ new2.followers = NewProfile.followers /\ new2.inbox = NewProfile.inbox
      BY <2>2, Methods, NewProfileOK
    <2>4. NewProfile.inbox = <<>> /\ <<>> \in Seq(Clients \X Nat)
      BY DEF NewProfile
    <2> HIDE DEF new1, new2
    <2> QED BY <2>3, <2>4, EmptySuffix DEF SameProfile, new1, new2
  <1> QED BY <1>2, <1>3

(* What a packet makes of a profile depends on that profile, and for a tweet on
   who follows its author. *)
LEMMA LocalEffect ==
  ASSUME NEW map1, Closed(map1), NEW map2, Closed(map2),
         NEW conn \in ConnsOrNull, NEW pkt, WellFormed(pkt),
         pkt.cmd \in {"FOLLOW", "SEND"} => pkt.sender \in Names(map1) /\ pkt.sender \in Names(map2),
         NEW p \in ProfileIds, map1[p] = map2[p],
         pkt.cmd = "SEND" =>
           (p \in Followers(map1, pkt.sender) <=> p \in Followers(map2, pkt.sender))
  PROVE  processPacket(map1, conn, pkt)[p] = processPacket(map2, conn, pkt)[p]
  <1> DEFINE new1 == processPacket(map1, conn, pkt)[p]
             new2 == processPacket(map2, conn, pkt)[p]
  <1>1. (p \in Names(map1) <=> p \in Names(map2)) /\ Followers(map1, p) = Followers(map2, p)
    BY DEF Names, Followers
  <1>2. pkt.cmd \in {"PROFILE", "FOLLOW", "SEND", "CLOSE_CONN", BP}
    BY DEF WellFormed, FromClient, IsList, BP
  <1>3. pkt.cmd = "PROFILE" => new1 = new2
    BY Effect
  <1>4. pkt.cmd = "FOLLOW" => new1 = new2
    BY <1>1, Effect
  <1>5. pkt.cmd = "SEND" => new1 = new2
    BY Effect
  <1>6. pkt.cmd = "CLOSE_CONN" => new1 = new2
    BY Effect
  <1>7. pkt.cmd = BP => new1 = new2
    BY Effect
  <1> QED BY <1>2, <1>3, <1>4, <1>5, <1>6, <1>7

(* The sessions of a backup are null connections. *)
LEMMA NullSessions ==
  ASSUME NEW map, Closed(map), NEW pkt, WellFormed(pkt), NEW p \in ProfileIds,
         pkt.cmd \in {"FOLLOW", "SEND", "CLOSE_CONN"} => pkt.sender \in Names(map),
         p \in Names(map) =>
           map[p].sessions \in Seq({nullptr}) /\ Len(map[p].sessions) = map[p].sessions_on
  PROVE  LET o == processPacket(map, nullptr, pkt)[p]
             n == IF p \in Names(map) THEN map[p].sessions_on ELSE 0
         IN  p \in Names(processPacket(map, nullptr, pkt)) =>
               /\ o.sessions \in Seq({nullptr}) /\ Len(o.sessions) = o.sessions_on
               /\ pkt.cmd = "PROFILE" /\ pkt.payload = p => o.sessions_on = n + 1
               /\ pkt.cmd = "CLOSE_CONN" /\ pkt.sender = p /\ n # 0 => o.sessions_on = n - 1
               /\ ~(pkt.cmd = "PROFILE" /\ pkt.payload = p) /\ ~(pkt.cmd = "CLOSE_CONN" /\ pkt.sender = p)
                    => o.sessions_on = n
  <1> DEFINE new == processPacket(map, nullptr, pkt)
             o == new[p]
             n == IF p \in Names(map) THEN map[p].sessions_on ELSE 0
  <1>0. nullptr \in ConnsOrNull /\ SenderKnown(map, pkt)
    BY DEF ConnsOrNull, SenderKnown
  <1>1. Closed(new) /\ Names(new) = Names(map) \cup (IF pkt.cmd = "PROFILE" THEN {pkt.payload} ELSE {})
    BY <1>0, Process, Sessions
  <1>2. p \in Names(map) => map[p] \in Objects /\ map[p] # nullptr
    BY NamesObject DEF Closed, Names
  <1>3. pkt.cmd \in {"PROFILE", "FOLLOW", "SEND", "CLOSE_CONN", BP}
    BY DEF WellFormed, FromClient, IsList, BP
  <1> SUFFICES ASSUME p \in Names(new)
               PROVE  /\ o.sessions \in Seq({nullptr}) /\ Len(o.sessions) = o.sessions_on
                      /\ pkt.cmd = "PROFILE" /\ pkt.payload = p => o.sessions_on = n + 1
                      /\ pkt.cmd = "CLOSE_CONN" /\ pkt.sender = p /\ n # 0 => o.sessions_on = n - 1
                      /\ ~(pkt.cmd = "PROFILE" /\ pkt.payload = p) /\ ~(pkt.cmd = "CLOSE_CONN" /\ pkt.sender = p)
                            => o.sessions_on = n
    OBVIOUS
  <1>4. CASE pkt.cmd = "PROFILE" /\ pkt.payload = p
    <2> DEFINE old == IF map[p] = nullptr THEN NewProfile ELSE map[p]
    <2>1. /\ old \in Objects /\ old.sessions \in Seq({nullptr})
          /\ Len(old.sessions) = old.sessions_on /\ old.sessions_on = n
      <3>1. CASE p \in Names(map)
        BY <1>2, <3>1
      <3>2. CASE p \notin Names(map)
        <4>1. map[p] = nullptr
          BY <3>2 DEF Names
        <4>2. NewProfile.sessions = <<>> /\ NewProfile.sessions_on = 0
          BY DEF NewProfile
        <4>3. <<>> \in Seq({nullptr}) /\ Len(<<>>) = 0
          OBVIOUS
        <4>4. old = NewProfile /\ n = 0
          BY <3>2, <4>1
        <4> HIDE DEF old, n
        <4> QED BY <4>2, <4>3, <4>4, NewProfileOK
      <3> QED BY <3>1, <3>2
    <2>2. o = incSessionsOn(old, nullptr)
      BY <1>4, Effect
    <2> HIDE DEF old, o, n
    <2>3. o.sessions_on = old.sessions_on + 1 /\ o.sessions = Append(old.sessions, nullptr)
      BY <1>0, <2>1, <2>2, Methods
    <2>4. o.sessions \in Seq({nullptr}) /\ Len(o.sessions) = Len(old.sessions) + 1
      BY <2>1, <2>3
    <2> QED BY <1>4, <2>1, <2>3, <2>4
  <1>5. CASE ~(pkt.cmd = "PROFILE" /\ pkt.payload = p)
    <2>1. p \in Names(map)
      BY <1>1, <1>5
    <2>2. map[p] \in Objects /\ n = map[p].sessions_on
      BY <1>2, <2>1
    <2>3. CASE pkt.cmd = "CLOSE_CONN" /\ pkt.sender = p
      <3>1. o = decSessionsOn(map[p], nullptr)
        BY <2>3, Effect
      <3>2. CASE nullptr \in ToSet(map[p].sessions)
        <4>1. o.sessions_on = map[p].sessions_on - 1 /\ o.sessions = RemoveFirst(map[p].sessions, nullptr)
          BY <1>0, <2>2, <3>1, <3>2, Methods
        <4>2. /\ RemoveFirst(map[p].sessions, nullptr) \in Seq({nullptr})
              /\ Len(RemoveFirst(map[p].sessions, nullptr)) = Len(map[p].sessions) - 1
          <5>1. Contains(map[p].sessions, nullptr)
            BY <2>1, <3>2, ContainsToSet
          <5> QED BY <2>1, <5>1, RemoveFirstElements
        <4> HIDE DEF o, n
        <4> QED BY <1>5, <2>1, <2>2, <2>3, <4>1, <4>2
      <3>3. CASE nullptr \notin ToSet(map[p].sessions)
        <4>1. map[p].sessions = <<>>
          <5>1. ToSet(map[p].sessions) \subseteq {nullptr}
            BY <2>1, ToSetType
          <5> QED BY <2>1, <3>3, <5>1, ToSetEmpty
        <4>2. n = 0
          BY <2>1, <2>2, <4>1
        <4>3. ~Contains(map[p].sessions, nullptr)
          BY <2>1, <3>3, ContainsToSet
        <4>4. o = map[p]
          BY <3>1, <4>3 DEF decSessionsOn
        <4> HIDE DEF o, n
        <4> QED BY <1>5, <2>1, <2>3, <4>2, <4>4
      <3> QED BY <3>2, <3>3
    <2>4. CASE ~(pkt.cmd = "CLOSE_CONN" /\ pkt.sender = p)
      <3>1. o = map[p] \/ (\E f : o = addFollower(map[p], f)) \/ (\E x : o = insertPacket(map[p], x))
        <4>1. pkt.cmd = "PROFILE" => o = map[p]
          BY <1>5, Effect
        <4>2. pkt.cmd = "FOLLOW" => o = map[p] \/ o = addFollower(map[p], pkt.sender)
          BY Effect
        <4>3. pkt.cmd = "SEND" => o = map[p] \/ o = insertPacket(map[p], pkt.payload)
          BY Effect
        <4>4. pkt.cmd = "CLOSE_CONN" => o = map[p]
          BY <2>4, Effect
        <4>5. pkt.cmd = BP => o = map[p]
          BY Effect
        <4> HIDE DEF o
        <4> QED BY <1>3, <4>1, <4>2, <4>3, <4>4, <4>5
      <3>2. o.sessions = map[p].sessions /\ o.sessions_on = map[p].sessions_on
        <4> HIDE DEF o
        <4> QED BY <1>0, <2>2, <3>1, Methods
      <3> HIDE DEF o, n
      <3> QED BY <1>5, <2>1, <2>2, <2>4, <3>2
    <2> QED BY <2>3, <2>4
  <1> HIDE DEF o, n, new
  <1> QED BY <1>4, <1>5

-----------------------------------------------------------------------------
(* Steps that leave the map of the primary as it is.                       *)

(* A step that leaves the primary's map as it is, apart from the packets that a
   client has fetched, and that makes no client come or go. *)
Quiet ==
  /\ counted'[primary] = counted[primary]
  /\ KnownAt(primary)' = KnownAt(primary)
  /\ \A p \in KnownAt(primary) :
       /\ profiles'[primary][p].sessions_on = profiles[primary][p].sessions_on
       /\ profiles'[primary][p].sessions = profiles[primary][p].sessions
       /\ profiles'[primary][p].followers = profiles[primary][p].followers
  /\ \A k \in Clients :
       /\ pc[k] # "out" => /\ pc'[k] # "out"
                           /\ pc'[k] \in {"closing", "ended"} <=> pc[k] \in {"closing", "ended"}
       /\ pc'[k] \in {"forward", "fetch", "idle"} => pc[k] \in {"forward", "fetch", "idle"}
  /\ raced \subseteq raced'

(* Touches, which fills raced, and Touched name the same objects. *)
LEMMA TouchesUnder ==
  ASSUME Types, up[primary] = "serving"
  PROVE  /\ \A t \in Threads : packet[t] # nullptr => Touches(packet[t]) = Under(t)
         /\ \A pkt : WellFormed(pkt) /\ (pkt.cmd = "SEND" => pkt.sender \in KnownAt(primary)) =>
              Touches(pkt) = Touched(profiles[primary], pkt)
  <1>1. ASSUME NEW pkt, WellFormed(pkt), pkt.cmd = "SEND" => pkt.sender \in KnownAt(primary)
        PROVE  Touches(pkt) = Touched(profiles[primary], pkt)
    <2>1. CASE pkt.cmd = "SEND"
      <3>1. profiles[primary][pkt.sender] # nullptr
        BY <1>1, <2>1 DEF KnownAt
      <3> QED BY <2>1, <3>1 DEF Touches, Touched, Followers
    <2>2. CASE pkt.cmd # "SEND"
      BY <2>2 DEF Touches, Touched
    <2> QED BY <2>1, <2>2
  <1>2. \A t \in Threads : packet[t] # nullptr => Touches(packet[t]) = Under(t)
    <2> TAKE t \in Threads
    <2> HAVE packet[t] # nullptr
    <2>1. WellFormed(packet[t]) /\ (packet[t].cmd = "SEND" => packet[t].sender \in KnownAt(primary))
      BY Forwarded
    <2> QED BY <1>1, <2>1 DEF Under
  <1> QED BY <1>1, <1>2

(* The primary serves clients and has a map with objects. *)
LEMMA PrimaryFacts ==
  ASSUME Types, CountInv, up[primary] = "serving"
  PROVE  /\ Closed(profiles[primary]) /\ KnownAt(primary) = Names(profiles[primary])
         /\ \A p \in KnownAt(primary) : p \in ProfileIds /\ profiles[primary][p] \in Objects
         /\ \A k \in Clients : at[k] = primary
         /\ \A k \in Clients : pc[k] \in {"forward", "fetch", "idle", "closing"} =>
              k \in counted[primary] /\ profileOf[k] \in KnownAt(primary)
         /\ \A k \in counted[primary] : k \in Clients /\ profileOf[k] \in KnownAt(primary)
         /\ \A k \in Clients : packet[k] # nullptr =>
              FromClient(packet[k], k) /\ k \in counted[primary] /\ profileOf[k] \in KnownAt(primary)
  <1>1. Closed(profiles[primary]) /\ KnownAt(primary) = Names(profiles[primary])
    BY MapsClosed, KnownNames, Members
  <1>2. \A p \in KnownAt(primary) : p \in ProfileIds /\ profiles[primary][p] \in Objects
    BY KnownObject, Members
  <1>3. \A k \in Clients : at[k] = primary
    BY DEF Types, Places
  <1>4. \A k \in Clients : pc[k] \in {"forward", "fetch", "idle", "closing"} => k \in counted[primary]
    BY <1>3 DEF CountInv, CountedKnown
  <1>5. \A k \in counted[primary] : k \in Clients /\ profileOf[k] \in KnownAt(primary)
    BY Members DEF CountInv, CountedKnown, Types, Kinds
  <1>6. \A k \in Clients : packet[k] # nullptr => FromClient(packet[k], k) /\ pc[k] \in {"forward", "closing"}
    BY Members DEF Types, PacketsOK
  <1> QED BY <1>1, <1>2, <1>3, <1>4, <1>5, <1>6

(* The primary's part of the invariant after a quiet step. *)
LEMMA KeepPrimary ==
  ASSUME Types, CountInv, PrimaryOK, RacedOK, FollowsOK,
         up'[primary] = "serving" =>
           /\ up[primary] = "serving" /\ Quiet
           /\ \/ \A t \in Threads : packet'[t] \in {packet[t], nullptr}
              \/ RacedOK' /\ \A k \in Clients : packet'[k] = packet[k]
  PROVE  PrimaryOK' /\ RacedOK' /\ FollowsOK'
  <1> SUFFICES ASSUME up'[primary] = "serving" PROVE PrimaryOK' /\ RacedOK' /\ FollowsOK'
    BY DEF PrimaryOK, RacedOK, FollowsOK
  <1>1. up[primary] = "serving" /\ Quiet
    OBVIOUS
  <1>2. /\ \A k \in counted[primary] : k \in Clients /\ pc[k] # "out"
        /\ \A k \in Clients : pc[k] \in {"forward", "fetch", "idle"} => profileOf[k] \in KnownAt(primary)
    BY <1>1, PrimaryFacts DEF PrimaryOK
  <1>3. PrimaryOK'
    <2>1. \A p : Sessions1(p)' = Sessions1(p)
      BY <1>1, <1>2 DEF Sessions1, Quiet
    <2>2. \A k \in counted'[primary] : pc'[k] # "out"
      BY <1>1, <1>2 DEF Quiet
    <2>3. ASSUME NEW p \in KnownAt(primary)'
          PROVE  /\ \E k \in counted'[primary] : profileOf[k] = p
                 /\ profiles'[primary][p].sessions_on = Cardinality(Sessions1(p)')
                 /\ profiles'[primary][p].sessions_on <= MAX_SESSIONS
      BY <1>1, <2>1, <2>3 DEF PrimaryOK, Quiet
    <2>4. ASSUME NEW k \in Clients, pc'[k] \in {"forward", "fetch", "idle"}
          PROVE  k \in ToSet(profiles'[primary][profileOf[k]].sessions)
      BY <1>1, <1>2, <2>4 DEF PrimaryOK, Quiet
    <2> QED BY <2>2, <2>3, <2>4 DEF PrimaryOK
  <1>4. \A a \in ProfileIds : Followers(profiles'[primary], a) = Followers(profiles[primary], a)
    <2> TAKE a \in ProfileIds
    <2>1. CASE a \in KnownAt(primary)
      BY <1>1, <2>1 DEF Followers, Quiet, KnownAt
    <2>2. CASE a \notin KnownAt(primary)
      BY <1>1, <2>2 DEF Followers, Quiet, KnownAt
    <2> QED BY <2>1, <2>2
  <1>5. ASSUME NEW t \in Threads, packet'[t] # nullptr, packet'[t] = packet[t]
        PROVE  Under(t)' = Under(t)
    <2>1. packet'[t] = packet[t] /\ packet[t] # nullptr
      BY <1>5
    <2>2. packet[t].cmd = "SEND" => packet[t].sender \in ProfileIds
      BY <1>1, <2>1, Forwarded DEF KnownAt
    <2> QED BY <1>4, <2>1, <2>2 DEF Under, Touched
  <1>6. RacedOK'
    <2>1. CASE \A t \in Threads : packet'[t] \in {packet[t], nullptr}
      BY <1>1, <1>5, <2>1 DEF RacedOK, Quiet
    <2> QED BY <2>1
  <1>7. FollowsOK'
    <2> SUFFICES ASSUME NEW k \in Clients, packet'[k] # nullptr, packet'[k].cmd = "FOLLOW"
                 PROVE  /\ packet'[k].payload # packet'[k].sender
                        /\ packet'[k].payload \in KnownAt(primary)' /\ packet'[k].sender \notin raced' =>
                             packet'[k].sender \in Followers(profiles'[primary], packet'[k].payload)
      BY DEF FollowsOK
    <2>1. packet'[k] = packet[k]
      BY Members
    <2>2. /\ packet[k].payload # packet[k].sender
          /\ packet[k].payload \in KnownAt(primary) /\ packet[k].sender \notin raced =>
               packet[k].sender \in Followers(profiles[primary], packet[k].payload)
      BY <1>1, <2>1 DEF FollowsOK
    <2>3. packet[k].payload \in KnownAt(primary) => packet[k].payload \in ProfileIds
      BY DEF KnownAt
    <2> QED BY <1>1, <1>4, <2>1, <2>2, <2>3 DEF Quiet
  <1> QED BY <1>3, <1>6, <1>7

(* The copy of a backup that is handed nothing and reads nothing. *)
LEMMA KeepsCopy ==
  ASSUME CopiesOK, NEW b \in Backups,
         b \in early' /\ up'[b] = "backup" =>
           /\ b \in early /\ up[b] = "backup"
           /\ queue'[b] = queue[b] /\ profiles'[b] = profiles[b] /\ raced \subseteq raced'
           /\ up'[primary] = "serving" =>
                /\ up[primary] = "serving"
                /\ \A map : Closed(map) /\ Copies(b, map) => Copies(b, map)'
  PROVE  b \in early' /\ up'[b] = "backup" => HasCopy(b)'
  <1> SUFFICES ASSUME b \in early', up'[b] = "backup" PROVE HasCopy(b)'
    OBVIOUS
  <1>1. PICK m \in [0 .. Len(queue[b]) -> Maps], map \in Maps : CopyOK(b, m, map)
    BY DEF CopiesOK, HasCopy
  <1>2. /\ queue'[b] = queue[b] /\ profiles'[b] = profiles[b] /\ raced \subseteq raced'
        /\ up'[primary] = "serving" =>
             /\ up[primary] = "serving"
             /\ \A map1 : Closed(map1) /\ Copies(b, map1) => Copies(b, map1)'
    OBVIOUS
  <1>3. /\ \A j \in 0 .. Len(queue'[b]) : Closed(m[j])
        /\ map = m[Len(queue'[b])]
    BY <1>1, <1>2 DEF CopyOK
  <1>4. Replays(b, m)'
    BY <1>1, <1>2 DEF CopyOK, Replays
  <1>5. ASSUME up'[primary] = "serving", ~Doomed(b)' PROVE Copies(b, map)'
    <2>1. up[primary] = "serving" /\ ~Doomed(b)
      BY <1>2, <1>5 DEF Doomed
    <2>2. Copies(b, map)
      BY <1>1, <2>1 DEF CopyOK
    <2>3. Closed(map)
      <3>1. Len(queue[b]) \in 0 .. Len(queue[b])
        BY <1>1
      <3> QED BY <1>2, <1>3, <3>1
    <2> QED BY <1>2, <1>5, <2>2, <2>3
  <1>6. CopyOK(b, m, map)'
    BY <1>3, <1>4, <1>5 DEF CopyOK
  <1> QED BY <1>2, <1>6 DEF HasCopy

-----------------------------------------------------------------------------
(* A client of the primary has a command carried out.                      *)

(* A thread starts to forward pkt: what another packet touches becomes more
   only if the command touches it, too, and then both have raced. *)
LEMMA StartRaced ==
  ASSUME Types, up[primary] = "serving", RacedOK,
         NEW t \in Threads, ServerOf(t) = primary, packet[t] = nullptr,
         NEW pkt \in Packets, WellFormed(pkt), pkt.cmd = "SEND" => pkt.sender \in KnownAt(primary),
         StartForward(t, pkt),
         NEW T, T = Touched(profiles[primary], pkt), T = Touched(profiles'[primary], pkt),
         \A u \in Threads : packet[u] # nullptr =>
           /\ Touched(profiles'[primary], packet[u]) \subseteq Under(u) \cup T
           /\ Under(u) \subseteq Touched(profiles'[primary], packet[u])
           /\ Touched(profiles'[primary], packet[u]) = Under(u) \/ Under(u) \cap T # {}
  PROVE  /\ RacedOK' /\ raced \subseteq raced'
         /\ Under(t)' = T
         /\ \A u \in Threads \ {t} : packet[u] # nullptr =>
              /\ packet'[u] = packet[u]
              /\ \A p : p \notin raced' => /\ p \in Under(u)' <=> p \in Under(u)
                                           /\ p \in T => p \notin Under(u)
  <1>1. /\ packet'[t] = pkt /\ pkt # nullptr
        /\ \A u \in Threads \ {t} : packet'[u] = packet[u]
    BY StartsForward, PacketIsNotNull
  <1>2. /\ Touches(pkt) = T
        /\ \A u \in Threads : packet[u] # nullptr => Touches(packet[u]) = Under(u)
    BY TouchesUnder
  <1>3. raced' = raced \cup UNION {Touches(packet[u]) \cup Touches(pkt) : u \in Overlapping(pkt)}
    BY DEF StartForward
  <1>4. ASSUME NEW u \in Threads, packet[u] # nullptr, Under(u) \cap T # {}
        PROVE  Under(u) \subseteq raced' /\ T \subseteq raced'
    <2>1. u \in Overlapping(pkt)
      BY <1>2, <1>4 DEF Overlapping
    <2>2. Touches(packet[u]) \cup Touches(pkt) \subseteq raced'
      BY <1>3, <2>1
    <2> QED BY <1>2, <1>4, <2>2
  <1>5. raced \subseteq raced' /\ Under(t)' = T
    BY <1>1, <1>3 DEF Under
  <1>6. ASSUME NEW u \in Threads \ {t}, packet[u] # nullptr
        PROVE  /\ Under(u)' \subseteq Under(u) \cup T
               /\ Under(u) \subseteq Under(u)'
               /\ Under(u)' = Under(u) \/ Under(u) \cap T # {}
    BY <1>1, <1>6 DEF Under
  <1>7. RacedOK'
    <2> SUFFICES ASSUME NEW u \in Threads, NEW v \in Threads, u # v,
                        packet'[u] # nullptr, packet'[v] # nullptr, Under(u)' \cap Under(v)' # {}
                 PROVE  Under(u)' \subseteq raced'
      BY DEF RacedOK
    <2>1. u # t => packet[u] # nullptr
      BY <1>1
    <2>2. v # t => packet[v] # nullptr
      BY <1>1
    <2>3. CASE u = t
      BY <1>4, <1>5, <1>6, <2>2, <2>3
    <2>4. CASE u # t
      <3>1. CASE Under(u) \cap T # {}
        BY <1>4, <1>6, <2>1, <2>4, <3>1
      <3>2. CASE Under(u) \cap T = {}
        <4>1. Under(u)' = Under(u)
          BY <1>6, <2>1, <2>4, <3>2
        <4>2. v # t
          BY <1>5, <3>2, <4>1
        <4>3. Under(u) \cap Under(v) # {}
          BY <1>6, <2>2, <3>2, <4>1, <4>2
        <4>4. Under(u) \subseteq raced
          BY <2>1, <2>2, <2>4, <4>2, <4>3 DEF RacedOK
        <4> QED BY <1>5, <4>1, <4>4
      <3> QED BY <3>1, <3>2
    <2> QED BY <2>3, <2>4
  <1>8. ASSUME NEW u \in Threads \ {t}, packet[u] # nullptr
        PROVE  /\ packet'[u] = packet[u]
               /\ \A p : p \notin raced' => /\ p \in Under(u)' <=> p \in Under(u)
                                            /\ p \in T => p \notin Under(u)
    BY <1>1, <1>4, <1>6, <1>8
  <1> QED BY <1>5, <1>7, <1>8

(* A thread of the primary has carried out eff and starts to forward pkt. *)
Carries(k, pkt, eff) ==
  /\ up[primary] = "serving" /\ packet[k] = nullptr
  /\ pkt \in Packets /\ FromClient(pkt, k) /\ FromClient(eff, k)
  /\ eff.cmd = pkt.cmd /\ (pkt = eff \/ NullClose(pkt))
  /\ eff.cmd = "CLOSE_CONN" => eff.sender = profileOf[k]
  /\ pc[k] \in {"out", "idle"} /\ (eff.cmd = "PROFILE" <=> pc[k] = "out")
  /\ eff.cmd = "PROFILE" => ~refuses(profiles[primary], profileOf[k])
  /\ eff.cmd = "FOLLOW" => eff.payload # eff.sender
  /\ profiles'[primary] = processPacket(profiles[primary], k, eff)
  /\ \A s \in Servers \ {primary} : profiles'[s] = profiles[s]
  /\ counted'[primary] = IF eff.cmd = "PROFILE" THEN counted[primary] \cup {k} ELSE counted[primary]
  /\ StartForward(k, pkt)
  /\ UNCHANGED <<up, listVars, netVars, at>>

(* The map of the primary after one command is what processPacket makes
   of it; it gains a profile only by a login. *)
LEMMA CarriesMap ==
  ASSUME Types, CountInv, PrimaryOK, NEW k \in Clients, NEW pkt, NEW eff, Carries(k, pkt, eff),
         NEW old, old = profiles[primary], NEW new, new = profiles'[primary]
  PROVE  /\ new = processPacket(old, k, eff) /\ Closed(old) /\ Closed(new)
         /\ k \in ConnsOrNull /\ WellFormed(eff) /\ WellFormed(pkt) /\ profileOf[k] \in ProfileIds
         /\ eff.cmd \in {"FOLLOW", "SEND", "CLOSE_CONN"} =>
              eff.sender = profileOf[k] /\ profileOf[k] \in Names(old)
         /\ eff.cmd # "PROFILE" => k \in counted[primary]
         /\ eff.cmd = "PROFILE" => k \notin counted[primary] /\ eff.payload = profileOf[k]
         /\ KnownAt(primary) = Names(old) /\ KnownAt(primary)' = Names(new)
         /\ Names(new) = Names(old) \cup (IF eff.cmd = "PROFILE" THEN {profileOf[k]} ELSE {})
         /\ Touched(old, pkt) = Touched(old, eff)
         /\ \A p \in ProfileIds : p \notin Touched(old, pkt) => new[p] = old[p]
  <1>1. /\ new = processPacket(old, k, eff) /\ Closed(old) /\ KnownAt(primary) = Names(old)
        /\ KnownAt(primary)' = Names(new)
    BY PrimaryFacts DEF Carries, KnownAt, Names
  <1>2. /\ k \in ConnsOrNull /\ WellFormed(eff) /\ WellFormed(pkt) /\ profileOf[k] \in ProfileIds
    BY profileOfAssumption DEF Carries, WellFormed, ConnsOrNull
  <1>3. eff.cmd # "PROFILE" => k \in counted[primary] /\ profileOf[k] \in Names(old)
    BY <1>1, PrimaryFacts DEF Carries
  <1>4. eff.cmd = "PROFILE" => k \notin counted[primary] /\ eff.payload = profileOf[k]
    BY DEF Carries, PrimaryOK, FromClient
  <1>5. eff.cmd \in {"FOLLOW", "SEND", "CLOSE_CONN"} => eff.sender = profileOf[k]
    BY DEF Carries, FromClient
  <1>6. SenderKnown(old, eff)
    BY <1>3, <1>5 DEF SenderKnown
  <1>7. Closed(new) /\ Names(new) = Names(old) \cup (IF eff.cmd = "PROFILE" THEN {profileOf[k]} ELSE {})
    BY <1>1, <1>2, <1>4, <1>6, Process, Sessions
  <1>8. Touched(old, pkt) = Touched(old, eff)
    BY DEF Carries, NullClose, FromClient, Touched
  <1>9. ASSUME NEW p \in ProfileIds, p \notin Touched(old, eff) PROVE new[p] = old[p]
    <2>1. eff.cmd \in {"PROFILE", "FOLLOW", "SEND", "CLOSE_CONN"} /\ eff.client = k
      BY DEF Carries, FromClient
    <2>2. eff.cmd = "PROFILE" => new[p] = old[p]
      BY <1>1, <1>2, <1>9, Effect DEF Touched
    <2>3. eff.cmd = "FOLLOW" => new[p] = old[p]
      BY <1>1, <1>2, <1>3, <1>5, <1>9, Effect DEF Touched
    <2>4. eff.cmd = "SEND" => new[p] = old[p]
      BY <1>1, <1>2, <1>3, <1>5, <1>9, Effect DEF Touched
    <2>5. eff.cmd = "CLOSE_CONN" => new[p] = old[p]
      BY <1>1, <1>2, <1>5, <1>9, <2>1, Effect DEF Touched
    <2> QED BY <2>1, <2>2, <2>3, <2>4, <2>5
  <1> QED BY <1>1, <1>2, <1>3, <1>4, <1>5, <1>7, <1>8, <1>9

(* Who follows whom on the primary after one command. *)
LEMMA CarriesFollowers ==
  ASSUME Types, CountInv, PrimaryOK, NEW k \in Clients, NEW pkt, NEW eff, Carries(k, pkt, eff),
         NEW old, old = profiles[primary], NEW new, new = profiles'[primary]
  PROVE  \A a \in ProfileIds :
           Followers(new, a) = IF eff.cmd = "FOLLOW" /\ a = eff.payload /\ a \in Names(old)
                               THEN Followers(old, a) \cup {profileOf[k]} ELSE Followers(old, a)
  <1> TAKE a \in ProfileIds
  <1>1. /\ new = processPacket(old, k, eff) /\ Closed(old)
        /\ k \in ConnsOrNull /\ WellFormed(eff)
        /\ eff.cmd \in {"FOLLOW", "SEND", "CLOSE_CONN"} =>
              eff.sender = profileOf[k] /\ profileOf[k] \in Names(old)
    BY CarriesMap
  <1>2. Followers(new, a) = IF eff.cmd = "FOLLOW" /\ a = eff.payload /\ a # eff.sender /\ a \in Names(old)
                            THEN Followers(old, a) \cup {eff.sender} ELSE Followers(old, a)
    BY <1>1, FollowersEffect
  <1> QED BY <1>1, <1>2 DEF Carries

(* The packets under way after a command touch what they touched before,
   and nothing of what the new one touches, outside raced. *)
LEMMA CarriesTouches ==
  ASSUME Types, CountInv, PrimaryOK, RacedOK, NEW k \in Clients, NEW pkt, NEW eff, Carries(k, pkt, eff),
         NEW T, T = Touched(profiles[primary], pkt)
  PROVE  /\ RacedOK' /\ raced \subseteq raced'
         /\ Under(k)' = T
         /\ \A u \in Threads \ {k} : packet[u] # nullptr =>
              /\ packet'[u] = packet[u]
              /\ \A p : p \notin raced' => /\ p \in Under(u)' <=> p \in Under(u)
                                           /\ p \in T => p \notin Under(u)
  <1> DEFINE old == profiles[primary]
             new == profiles'[primary]
  <1>1. /\ \A a \in ProfileIds :
              Followers(new, a) = IF eff.cmd = "FOLLOW" /\ a = eff.payload /\ a \in Names(old)
                                  THEN Followers(old, a) \cup {profileOf[k]} ELSE Followers(old, a)
        /\ eff.cmd = "FOLLOW" => eff.sender = profileOf[k]
        /\ eff.cmd = "SEND" => eff.sender \in ProfileIds /\ eff.sender \in KnownAt(primary)
        /\ eff.cmd = "SEND" => pkt = eff
        /\ eff.cmd = "FOLLOW" => pkt = eff
        /\ pkt.cmd = eff.cmd /\ WellFormed(pkt)
    <2>1. /\ WellFormed(pkt) /\ KnownAt(primary) = Names(old)
          /\ eff.cmd \in {"FOLLOW", "SEND", "CLOSE_CONN"} =>
               eff.sender = profileOf[k] /\ profileOf[k] \in Names(old)
      BY CarriesMap
    <2>2. eff.cmd = pkt.cmd /\ (pkt = eff \/ pkt.cmd = "CLOSE_CONN")
      BY DEF Carries, NullClose
    <2>3. profileOf[k] \in ProfileIds
      BY profileOfAssumption
    <2>4. \A a \in ProfileIds :
             Followers(new, a) = IF eff.cmd = "FOLLOW" /\ a = eff.payload /\ a \in Names(old)
                                 THEN Followers(old, a) \cup {profileOf[k]} ELSE Followers(old, a)
      BY CarriesFollowers
    <2> QED BY <2>1, <2>2, <2>3, <2>4
  <1> HIDE DEF old, new
  <1>2. T = Touched(new, pkt)
    BY <1>1 DEF Touched, old
  <1>3. ASSUME NEW u \in Threads, packet[u] # nullptr
        PROVE  /\ Touched(new, packet[u]) \subseteq Under(u) \cup T
               /\ Under(u) \subseteq Touched(new, packet[u])
               /\ Touched(new, packet[u]) = Under(u) \/ Under(u) \cap T # {}
    <2>1. CASE packet[u].cmd = "SEND" /\ eff.cmd = "FOLLOW" /\ packet[u].sender = eff.payload
      <3>1. packet[u].sender \in ProfileIds
        BY <1>3, <2>1, Forwarded DEF Carries, KnownAt
      <3>2. /\ Under(u) = {packet[u].sender} \cup Followers(old, packet[u].sender)
            /\ Touched(new, packet[u]) = {packet[u].sender} \cup Followers(new, packet[u].sender)
        BY <2>1 DEF Under, Touched, old
      <3>3. T = {eff.payload, profileOf[k]}
        BY <1>1, <2>1 DEF Touched
      <3> QED BY <1>1, <2>1, <3>1, <3>2, <3>3
    <2>2. CASE packet[u].cmd = "SEND" /\ ~(eff.cmd = "FOLLOW" /\ packet[u].sender = eff.payload)
      <3>1. packet[u].sender \in ProfileIds
        BY <1>3, <2>2, Forwarded DEF Carries, KnownAt
      <3>2. Followers(new, packet[u].sender) = Followers(old, packet[u].sender)
        BY <1>1, <2>2, <3>1
      <3> QED BY <2>2, <3>2 DEF Under, Touched, old
    <2>3. CASE packet[u].cmd # "SEND"
      <3>1. packet[u].cmd \in Commands
        BY <1>3, Forwarded DEF Packets
      <3> QED BY <2>3, <3>1 DEF Under, Touched, Commands
    <2> QED BY <2>1, <2>2, <2>3
  <1>4. /\ up[primary] = "serving" /\ k \in Threads /\ ServerOf(k) = primary /\ packet[k] = nullptr
        /\ pkt \in Packets /\ StartForward(k, pkt)
    BY Members, PrimaryFacts DEF Carries, ServerOf
  <1>5. pkt.cmd = "SEND" => pkt.sender \in KnownAt(primary)
    BY <1>1
  <1> QED BY <1>1, <1>2, <1>3, <1>4, <1>5, StartRaced DEF new

(* The sessions of an object after one command. *)
LEMMA CarriesSessions ==
  ASSUME Types, CountInv, PrimaryOK, NEW k \in Clients, NEW pkt, NEW eff, Carries(k, pkt, eff),
         NEW old, old = profiles[primary], NEW new, new = profiles'[primary],
         NEW p \in Names(new)
  PROVE  LET n == IF p \in Names(old) THEN old[p].sessions_on ELSE 0 IN
         /\ eff.cmd = "PROFILE" /\ p = profileOf[k] =>
              /\ new[p].sessions_on = n + 1 /\ k \in ToSet(new[p].sessions)
              /\ p \in Names(old) => ToSet(old[p].sessions) \subseteq ToSet(new[p].sessions)
         /\ eff.cmd = "CLOSE_CONN" /\ p = profileOf[k] =>
              /\ new[p].sessions_on = n - 1
              /\ ToSet(old[p].sessions) \ {k} \subseteq ToSet(new[p].sessions)
         /\ ~(eff.cmd \in {"PROFILE", "CLOSE_CONN"} /\ p = profileOf[k]) =>
              /\ p \in Names(old) /\ new[p].sessions_on = n
              /\ new[p].sessions = old[p].sessions
  <1> DEFINE n == IF p \in Names(old) THEN old[p].sessions_on ELSE 0
             o == IF old[p] = nullptr THEN NewProfile ELSE old[p]
  <1>1. /\ new = processPacket(old, k, eff) /\ Closed(old)
        /\ k \in ConnsOrNull /\ WellFormed(eff)
        /\ eff.cmd \in {"FOLLOW", "SEND", "CLOSE_CONN"} =>
             eff.sender = profileOf[k] /\ profileOf[k] \in Names(old)
        /\ eff.cmd = "PROFILE" => eff.payload = profileOf[k]
        /\ Names(new) = Names(old) \cup (IF eff.cmd = "PROFILE" THEN {profileOf[k]} ELSE {})
        /\ p \in ProfileIds
    BY CarriesMap DEF Names
  <1>2. /\ o \in Objects /\ o.sessions_on = n /\ n \in Int
        /\ p \in Names(old) => o = old[p]
    <2>1. CASE p \in Names(old)
      <3>1. old[p] \in Objects /\ old[p] # nullptr
        BY <1>1, <2>1, NamesObject DEF Closed, Names
      <3> QED BY <2>1, <3>1 DEF Objects
    <2>2. CASE p \notin Names(old)
      <3>1. old[p] = nullptr
        BY <1>1, <2>2 DEF Names
      <3>2. NewProfile.sessions_on = 0
        BY DEF NewProfile
      <3> QED BY <2>2, <3>1, <3>2, NewProfileOK
    <2> QED BY <2>1, <2>2
  <1>3. o.sessions \in Seq(ConnsOrNull)
    BY <1>2 DEF Objects, ConnsOrNull
  <1>4. CASE eff.cmd = "PROFILE" /\ p = profileOf[k]
    <2>1. new[p] = incSessionsOn(o, k)
      BY <1>1, <1>4, Effect
    <2> HIDE DEF o, n
    <2>2. new[p].sessions_on = n + 1 /\ new[p].sessions = Append(o.sessions, k)
      BY <1>1, <1>2, <2>1, Methods
    <2>3. ToSet(Append(o.sessions, k)) = ToSet(o.sessions) \cup {k}
      BY <1>1, <1>3, AppendDistinct
    <2> QED BY <1>2, <1>4, <2>2, <2>3 DEF n
  <1>5. CASE eff.cmd = "CLOSE_CONN" /\ p = profileOf[k]
    <2>1. new[p] = decSessionsOn(old[p], k) /\ p \in Names(old)
      BY <1>1, <1>5, Effect
    <2>2. k \in ToSet(o.sessions)
      BY <1>2, <1>5, <2>1 DEF Carries, PrimaryOK
    <2> HIDE DEF o, n
    <2>3. new[p].sessions_on = n - 1 /\ new[p].sessions = RemoveFirst(o.sessions, k)
      BY <1>1, <1>2, <2>1, <2>2, Methods
    <2>4. Contains(o.sessions, k)
      BY <1>3, <2>2, ContainsToSet
    <2>5. ToSet(o.sessions) \ {k} \subseteq ToSet(RemoveFirst(o.sessions, k))
      BY <1>3, <2>4, RemoveFirstElements
    <2> QED BY <1>2, <1>5, <2>1, <2>3, <2>5 DEF n
  <1>6. CASE ~(eff.cmd \in {"PROFILE", "CLOSE_CONN"} /\ p = profileOf[k])
    <2>1. p \in Names(old) /\ o = old[p]
      BY <1>1, <1>2, <1>6
    <2>2. new[p] = o \/ (\E f : new[p] = addFollower(o, f)) \/ (\E x : new[p] = insertPacket(o, x))
      <3> HIDE DEF o, n
      <3>1. eff.cmd = "PROFILE" => new[p] = o
        BY <1>1, <1>6, <2>1, Effect
      <3>2. eff.cmd = "FOLLOW" => new[p] = o \/ new[p] = addFollower(o, eff.sender)
        BY <1>1, <2>1, Effect
      <3>3. eff.cmd = "SEND" => new[p] = o \/ new[p] = insertPacket(o, eff.payload)
        BY <1>1, <2>1, Effect
      <3>4. eff.cmd = "CLOSE_CONN" => new[p] = o
        BY <1>1, <1>6, <2>1, Effect
      <3>5. eff.cmd \in {"PROFILE", "FOLLOW", "SEND", "CLOSE_CONN"}
        BY DEF Carries, FromClient
      <3> QED BY <3>1, <3>2, <3>3, <3>4, <3>5
    <2> HIDE DEF o, n
    <2>3. new[p].sessions_on = o.sessions_on /\ new[p].sessions = o.sessions
      BY <1>1, <1>2, <2>2, Methods
    <2> QED BY <1>2, <1>6, <2>1, <2>3 DEF n
  <1> QED BY <1>4, <1>5, <1>6

(* The other two parts of the invariant about the primary. *)
LEMMA CarriesPrimary ==
  ASSUME Types, CountInv, PrimaryOK, RacedOK, FollowsOK,
         NEW k \in Clients, NEW pkt, NEW eff, Carries(k, pkt, eff)
  PROVE  PrimaryOK' /\ FollowsOK'
  <1>1. PICK old, new : old = profiles[primary] /\ new = profiles'[primary]
    OBVIOUS
  <1>2. /\ Closed(old) /\ Closed(new)
        /\ KnownAt(primary) = Names(old) /\ KnownAt(primary)' = Names(new)
        /\ Names(new) = Names(old) \cup (IF eff.cmd = "PROFILE" THEN {profileOf[k]} ELSE {})
        /\ eff.cmd # "PROFILE" => k \in counted[primary]
        /\ eff.cmd = "PROFILE" => k \notin counted[primary]
        /\ profileOf[k] \in ProfileIds
        /\ \A a \in ProfileIds :
             Followers(new, a) = IF eff.cmd = "FOLLOW" /\ a = eff.payload /\ a \in Names(old)
                                 THEN Followers(old, a) \cup {profileOf[k]} ELSE Followers(old, a)
    <2>1. /\ Closed(old) /\ Closed(new)
          /\ KnownAt(primary) = Names(old) /\ KnownAt(primary)' = Names(new)
          /\ Names(new) = Names(old) \cup (IF eff.cmd = "PROFILE" THEN {profileOf[k]} ELSE {})
      BY <1>1, CarriesMap
    <2>2. /\ eff.cmd # "PROFILE" => k \in counted[primary]
          /\ eff.cmd = "PROFILE" => k \notin counted[primary]
          /\ profileOf[k] \in ProfileIds
      BY <1>1, CarriesMap
    <2>3. \A a \in ProfileIds :
             Followers(new, a) = IF eff.cmd = "FOLLOW" /\ a = eff.payload /\ a \in Names(old)
                                 THEN Followers(old, a) \cup {profileOf[k]} ELSE Followers(old, a)
      BY <1>1, CarriesFollowers
    <2> QED BY <2>1, <2>2, <2>3
  <1>3. /\ packet'[k] = pkt /\ k \in Threads
        /\ pc'[k] = IF eff.cmd = "CLOSE_CONN" THEN "closing" ELSE "forward"
        /\ \A c \in Clients \ {k} : packet'[c] = packet[c] /\ pc'[c] = pc[c]
    BY StartsForward, Members DEF Carries
  <1>4. /\ up[primary] = "serving" /\ up' = up /\ eff.cmd = pkt.cmd
        /\ counted'[primary] = IF eff.cmd = "PROFILE" THEN counted[primary] \cup {k} ELSE counted[primary]
        /\ pc[k] \in {"out", "idle"} /\ (eff.cmd = "PROFILE" <=> pc[k] = "out")
        /\ eff.cmd = "PROFILE" => ~refuses(old, profileOf[k])
    BY <1>1 DEF Carries
  <1>5. /\ \A c \in counted[primary] : c \in Clients /\ profileOf[c] \in Names(old) /\ pc[c] # "out"
        /\ \A c \in Clients : pc[c] \in {"forward", "fetch", "idle"} =>
             /\ profileOf[c] \in Names(old) /\ profileOf[c] \in ProfileIds
             /\ c \in ToSet(old[profileOf[c]].sessions)
    BY <1>1, <1>2, <1>4, PrimaryFacts, profileOfAssumption DEF PrimaryOK
  <1>6. PrimaryOK'
    <2>1. \A c \in counted'[primary] : pc'[c] # "out"
      BY <1>3, <1>4, <1>5
    <2>2. ASSUME NEW p \in Names(new)
          PROVE  /\ \E c \in counted'[primary] : profileOf[c] = p
                 /\ new[p].sessions_on = Cardinality(Sessions1(p)')
                 /\ new[p].sessions_on <= MAX_SESSIONS
      <3> DEFINE n == IF p \in Names(old) THEN old[p].sessions_on ELSE 0
                 A == Sessions1(p)
      <3>1. /\ IsFiniteSet(A) /\ n = Cardinality(A) /\ n \in Nat /\ n <= MAX_SESSIONS
            /\ p \in Names(old) => \E c \in counted[primary] : profileOf[c] = p
        <4>1. A \subseteq Clients
          BY <1>5 DEF Sessions1
        <4>2. IsFiniteSet(A) /\ Cardinality(A) \in Nat
          BY <4>1, ThreadsAssumption, Members, FS_Subset, FS_CardinalityType
        <4>3. CASE p \in Names(old)
          BY <1>1, <1>2, <1>4, <4>2, <4>3 DEF PrimaryOK
        <4>4. CASE p \notin Names(old)
          <5>1. A = {}
            BY <1>5, <4>4 DEF Sessions1
          <5> QED BY <4>2, <4>4, <5>1, FS_EmptySet, BoundsAssumption
        <4> QED BY <4>2, <4>3, <4>4
      <3>2. /\ eff.cmd = "PROFILE" /\ p = profileOf[k] => new[p].sessions_on = n + 1
            /\ eff.cmd = "CLOSE_CONN" /\ p = profileOf[k] => new[p].sessions_on = n - 1
            /\ ~(eff.cmd \in {"PROFILE", "CLOSE_CONN"} /\ p = profileOf[k]) =>
                 p \in Names(old) /\ new[p].sessions_on = n
        BY <1>1, <2>2, CarriesSessions
      <3>3. \A c : c \in A <=> /\ c \in counted[primary] /\ profileOf[c] = p
                               /\ pc[c] \notin {"closing", "ended"}
        BY DEF Sessions1
      <3>4. \A c : c \in Sessions1(p)' <=> /\ c \in counted'[primary] /\ profileOf[c] = p
                                           /\ pc'[c] \notin {"closing", "ended"}
        BY DEF Sessions1
      <3>5. CASE eff.cmd = "PROFILE" /\ p = profileOf[k]
        <4>1. Sessions1(p)' = A \cup {k}
          BY <1>3, <1>4, <1>5, <3>3, <3>4, <3>5
        <4>2. k \notin A
          BY <1>2, <3>3, <3>5
        <4>3. n # MAX_SESSIONS
          <5>1. p \in Names(old) => old[p].sessions_on # MAX_SESSIONS
            BY <1>4, <3>5 DEF refuses, Names
          <5> QED BY <5>1, BoundsAssumption
        <4>4. k \in counted'[primary]
          BY <1>4, <3>5
        <4> HIDE DEF n, A
        <4>5. Cardinality(A \cup {k}) = n + 1
          BY <3>1, <4>2, FS_AddElement
        <4>6. n + 1 <= MAX_SESSIONS
          BY <3>1, <4>3, BoundsAssumption
        <4> QED BY <3>2, <3>5, <4>1, <4>4, <4>5, <4>6
      <3>6. CASE eff.cmd = "CLOSE_CONN" /\ p = profileOf[k]
        <4>1. Sessions1(p)' = A \ {k}
          BY <1>3, <1>4, <1>5, <3>3, <3>4, <3>6
        <4>2. k \in A
          BY <1>2, <1>4, <3>3, <3>6
        <4>3. k \in counted'[primary]
          BY <1>2, <1>4, <3>6
        <4> HIDE DEF n, A
        <4>4. Cardinality(A \ {k}) = n - 1
          BY <3>1, <4>2, FS_RemoveElement
        <4>5. n - 1 <= MAX_SESSIONS
          BY <3>1, BoundsAssumption
        <4> QED BY <3>2, <3>6, <4>1, <4>3, <4>4, <4>5
      <3>7. CASE ~(eff.cmd \in {"PROFILE", "CLOSE_CONN"} /\ p = profileOf[k])
        <4>1. Sessions1(p)' = A
          BY <1>2, <1>3, <1>4, <1>5, <3>3, <3>4, <3>7
        <4> HIDE DEF n, A
        <4> QED BY <1>4, <3>1, <3>2, <3>7, <4>1
      <3> QED BY <3>5, <3>6, <3>7
    <2>3. ASSUME NEW c \in Clients, pc'[c] \in {"forward", "fetch", "idle"}
          PROVE  c \in ToSet(new[profileOf[c]].sessions)
      <3>1. CASE c = k /\ eff.cmd = "PROFILE"
        <4>1. profileOf[k] \in Names(new)
          BY <1>2, <3>1
        <4> QED BY <1>1, <3>1, <4>1, CarriesSessions
      <3>2. CASE ~(c = k /\ eff.cmd = "PROFILE")
        <4>1. /\ profileOf[c] \in Names(old) /\ profileOf[c] \in Names(new)
              /\ c \in ToSet(old[profileOf[c]].sessions)
              /\ c = k => eff.cmd # "CLOSE_CONN"
          BY <1>2, <1>3, <1>4, <1>5, <2>3, <3>2
        <4> DEFINE p == profileOf[c]
        <4>p. p \in Names(new) /\ p \in Names(old)
          BY <4>1
        <4> HIDE DEF p
        <4>2. /\ eff.cmd = "PROFILE" /\ p = profileOf[k] => ToSet(old[p].sessions) \subseteq ToSet(new[p].sessions)
              /\ eff.cmd = "CLOSE_CONN" /\ p = profileOf[k] => ToSet(old[p].sessions) \ {k} \subseteq ToSet(new[p].sessions)
              /\ ~(eff.cmd \in {"PROFILE", "CLOSE_CONN"} /\ p = profileOf[k]) => new[p].sessions = old[p].sessions
          BY <1>1, <4>p, CarriesSessions
        <4> QED BY <4>1, <4>2 DEF p
      <3> QED BY <3>1, <3>2
    <2> QED BY <1>1, <1>2, <2>1, <2>2, <2>3 DEF PrimaryOK
  <1>7. FollowsOK'
    <2> SUFFICES ASSUME NEW c \in Clients, packet'[c] # nullptr, packet'[c].cmd = "FOLLOW"
                 PROVE  /\ packet'[c].payload # packet'[c].sender
                        /\ packet'[c].payload \in KnownAt(primary)' /\ packet'[c].sender \notin raced' =>
                             packet'[c].sender \in Followers(profiles'[primary], packet'[c].payload)
      BY DEF FollowsOK
    <2>1. CASE c = k
      <3>1. packet'[c] = eff /\ eff.cmd = "FOLLOW" /\ eff.payload # eff.sender /\ eff.sender = profileOf[k]
        BY <1>3, <2>1 DEF Carries, NullClose, FromClient
      <3>2. Names(new) = Names(old)
        BY <1>2, <3>1
      <3>3. eff.payload \in Names(old) => profileOf[k] \in Followers(new, eff.payload)
        BY <1>2, <3>1 DEF Names
      <3> QED BY <1>1, <1>2, <3>1, <3>2, <3>3
    <2>2. CASE c # k
      <3> DEFINE a == packet[c].payload
                 f == packet[c].sender
      <3>1. /\ packet'[c] = packet[c] /\ packet[c] # nullptr /\ packet[c].cmd = "FOLLOW"
            /\ a # f /\ (a \in Names(old) /\ f \notin raced => f \in Followers(old, a))
        BY <1>1, <1>2, <1>3, <1>4, <2>2 DEF FollowsOK
      <3>2. ASSUME a \in Names(new), f \notin raced' PROVE f \in Followers(new, a)
        <4>1. PICK T : T = Touched(old, pkt)
          OBVIOUS
        <4>2. raced \subseteq raced' /\ (f \in T => f \notin Under(c)) /\ (a \in T => a \notin Under(c) \/ a \in raced')
          BY <1>1, <2>2, <3>1, <3>2, <4>1, CarriesTouches, Members
        <4>3. f \in Under(c) /\ a \in Under(c)
          BY <3>1 DEF Under, Touched
        <4>4. a \in Names(old)
          <5> SUFFICES ASSUME a \notin Names(old) PROVE FALSE
            OBVIOUS
          <5>1. eff.cmd = "PROFILE" /\ a = profileOf[k]
            BY <1>2, <3>2
          <5>2. T = {a}
            BY <4>1, <5>1 DEF Touched, Carries, NullClose, FromClient
          <5>3. RacedOK' /\ Under(k)' = T /\ packet'[c] = packet[c]
            BY <1>1, <2>2, <3>1, <4>1, CarriesTouches, Members
          <5>4. Under(c)' = {a, f}
            BY <3>1 DEF Under, Touched
          <5>5. Under(c)' \subseteq raced'
            <6>1. packet'[k] # nullptr
              BY <1>3, PacketIsNotNull DEF Carries
            <6>2. up'[primary] = "serving"
              BY <1>4
            <6> QED BY <2>2, <3>1, <5>2, <5>3, <5>4, <6>1, <6>2, Members DEF RacedOK
          <5> QED BY <3>2, <5>4, <5>5
        <4>5. f \in Followers(old, a)
          BY <3>1, <3>2, <4>2, <4>4
        <4> QED BY <1>2, <4>4, <4>5 DEF Names
      <3> QED BY <1>1, <1>2, <3>1, <3>2
    <2> QED BY <2>1, <2>2
  <1> QED BY <1>6, <1>7

(* Who a backup has heard of: a client that has logged in, and whose PROFILE it
   has been handed. *)
LEMMA Heard ==
  ASSUME Types, CountInv, up[primary] = "serving", NEW b \in Backups, NEW map, NamesArrived(b, map)
  PROVE  /\ \A k \in counted[primary] : ~Brings(k, b, "PROFILE") =>
              k \in Clients /\ Arrived(b, k) /\ profileOf[k] \in Names(map)
         /\ \A p \in Names(map) : p \in KnownAt(primary)
         /\ \A t \in Threads : packet[t] # nullptr /\ packet[t].cmd \in {"FOLLOW", "SEND"} =>
              packet[t].sender \in Names(map)
         /\ \A t \in Threads : packet[t] # nullptr /\ packet[t].cmd = "CLOSE_CONN" /\ ~NullClose(packet[t]) =>
              packet[t].sender \in Names(map)
  <1>1. \A k \in counted[primary] : k \in Clients /\ profileOf[k] \in KnownAt(primary) /\ profileOf[k] \in ProfileIds
    BY PrimaryFacts, profileOfAssumption
  <1>2. \A k \in counted[primary] : ~Brings(k, b, "PROFILE") =>
              k \in Clients /\ Arrived(b, k) /\ profileOf[k] \in Names(map)
    BY <1>1 DEF NamesArrived, Arrived, Names
  <1>3. \A p \in Names(map) : p \in KnownAt(primary)
    BY <1>1 DEF NamesArrived, Arrived, Names
  <1>4. ASSUME NEW t \in Threads, packet[t] # nullptr,
               packet[t].cmd \in {"FOLLOW", "SEND"} \/ (packet[t].cmd = "CLOSE_CONN" /\ ~NullClose(packet[t]))
        PROVE  packet[t].sender \in Names(map)
    <2>1. t \in Clients
      BY <1>4, Members DEF Types, PacketsOK, IsList
    <2>2. FromClient(packet[t], t) /\ t \in counted[primary]
      BY <1>4, <2>1, PrimaryFacts
    <2>3. packet[t].sender = profileOf[t]
      BY <1>4, <2>2 DEF FromClient, NullClose
    <2>4. ~Brings(t, b, "PROFILE")
      BY <1>4 DEF Brings
    <2> QED BY <1>2, <2>2, <2>3, <2>4
  <1> QED BY <1>2, <1>3, <1>4

(* What each thread that has not started anything still has to hand to b. *)
LEMMA CarriesAhead ==
  ASSUME Types, NEW k \in Clients, NEW pkt, NEW eff, Carries(k, pkt, eff),
         NEW b \in Backups, \E x \in DOMAIN listBackups[primary] : listBackups[primary][x] = b
  PROVE  /\ Ahead(k, b)' /\ ~Ahead(k, b) /\ packet'[k] = pkt
         /\ pc'[k] = IF eff.cmd = "CLOSE_CONN" THEN "closing" ELSE "forward"
         /\ \A c \in Clients \ {k} : pc'[c] = pc[c]
         /\ \A t \in Threads \ {k} : /\ Ahead(t, b)' <=> Ahead(t, b)
                                     /\ packet'[t] = packet[t]
  <1>1. /\ packet'[k] = pkt /\ i'[k] = 1 /\ k \in Threads
        /\ pc'[k] = IF pkt.cmd = "CLOSE_CONN" THEN "closing" ELSE "forward"
        /\ \A t \in Threads \ {k} : packet'[t] = packet[t] /\ i'[t] = i[t] /\ pc'[t] = pc[t]
    BY StartsForward, Members DEF Carries
  <1>2. listBackups' = listBackups /\ pkt.cmd = eff.cmd /\ packet[k] = nullptr /\ pkt # nullptr
    BY PacketIsNotNull DEF Carries, listVars
  <1>3. PICK x \in DOMAIN listBackups[primary] : listBackups[primary][x] = b
    OBVIOUS
  <1>4. x \in Nat \ {0}
    <2>1. listBackups[primary] \in Seq(Backups)
      BY Members DEF Types, Kinds
    <2> QED BY <2>1
  <1>5. Ahead(k, b)'
    BY <1>1, <1>2, <1>3, <1>4 DEF Ahead
  <1>6. \A t \in Threads \ {k} : Ahead(t, b)' <=> Ahead(t, b)
    BY <1>1, <1>2 DEF Ahead
  <1> QED BY <1>1, <1>2, <1>5, <1>6, Members DEF Ahead

(* A copy that differs from the map before a command by the packets under
   way differs from the map after it by those and the new one. *)
LEMMA CarriesCopy ==
  ASSUME Types, CountInv, PrimaryOK, RacedOK,
         NEW k \in Clients, NEW pkt, NEW eff, Carries(k, pkt, eff),
         NEW b \in Backups, \E x \in DOMAIN listBackups[primary] : listBackups[primary][x] = b,
         NEW map, Closed(map), Copies(b, map)
  PROVE  Copies(b, map)'
  <1> DEFINE old == profiles[primary]
             new == profiles'[primary]
             T == Touched(old, pkt)
  <1>1. /\ new = processPacket(old, k, eff) /\ Closed(old) /\ Closed(new)
        /\ k \in ConnsOrNull /\ WellFormed(eff) /\ WellFormed(pkt) /\ profileOf[k] \in ProfileIds
        /\ eff.cmd \in {"FOLLOW", "SEND", "CLOSE_CONN"} =>
              eff.sender = profileOf[k] /\ profileOf[k] \in Names(old)
        /\ eff.cmd # "PROFILE" => k \in counted[primary]
        /\ eff.cmd = "PROFILE" => k \notin counted[primary] /\ eff.payload = profileOf[k]
        /\ KnownAt(primary) = Names(old) /\ KnownAt(primary)' = Names(new)
        /\ Names(new) = Names(old) \cup (IF eff.cmd = "PROFILE" THEN {profileOf[k]} ELSE {})
        /\ T = Touched(old, eff)
        /\ \A p \in ProfileIds : p \notin T => new[p] = old[p]
    BY CarriesMap
  <1>2. \A a \in ProfileIds :
              Followers(new, a) = IF eff.cmd = "FOLLOW" /\ a = eff.payload /\ a \in Names(old)
                                  THEN Followers(old, a) \cup {profileOf[k]} ELSE Followers(old, a)
    BY CarriesFollowers
  <1>3. /\ raced \subseteq raced' /\ Under(k)' = T
        /\ \A u \in Threads \ {k} : packet[u] # nullptr =>
             \A p : p \notin raced' => /\ p \in Under(u)' <=> p \in Under(u)
                                       /\ p \in T => p \notin Under(u)
    BY CarriesTouches
  <1>4. /\ Ahead(k, b)' /\ ~Ahead(k, b) /\ packet'[k] = pkt /\ k \in Threads
        /\ pc'[k] = IF eff.cmd = "CLOSE_CONN" THEN "closing" ELSE "forward"
        /\ \A c \in Clients \ {k} : pc'[c] = pc[c]
        /\ \A t \in Threads \ {k} : (Ahead(t, b)' <=> Ahead(t, b)) /\ packet'[t] = packet[t]
    BY CarriesAhead, Members
  <1>5. /\ up[primary] = "serving" /\ pkt.cmd = eff.cmd /\ (pkt = eff \/ NullClose(pkt))
        /\ counted'[primary] = IF eff.cmd = "PROFILE" THEN counted[primary] \cup {k} ELSE counted[primary]
        /\ pc[k] \in {"out", "idle"} /\ (eff.cmd = "PROFILE" <=> pc[k] = "out")
    BY DEF Carries
  <1>6. \A t \in Threads : Ahead(t, b) => packet[t] # nullptr /\ t # k
    BY <1>4 DEF Ahead
  <1>7. /\ NamesArrived(b, map) /\ SessionsArrived(b, map)
        /\ \A p \in ProfileIds \ raced : FollowersArrived(b, map, p)
        /\ \A p \in Names(old) \ raced : ProfileArrived(b, map, p)
    BY <1>1 DEF Copies
  <1> HIDE DEF old, new, T
  <1>8. \A c \in Clients : Arrived(b, c)' <=> Arrived(b, c)
    <2> TAKE c \in Clients
    <2>1. CASE c = k
      BY <1>1, <1>4, <1>5, <2>1 DEF Arrived, Brings
    <2>2. CASE c # k
      BY <1>4, <1>5, <2>2, Members DEF Arrived, Brings
    <2> QED BY <2>1, <2>2
  <1>9. \A p : SessionsAt(b, p)' = SessionsAt(b, p)
    <2> SUFFICES ASSUME NEW p, NEW c \in Clients PROVE c \in SessionsAt(b, p)' <=> c \in SessionsAt(b, p)
      BY DEF SessionsAt
    <2>1. CASE c = k
      BY <1>4, <1>5, <1>8, <2>1 DEF SessionsAt, Brings, Arrived
    <2>2. CASE c # k
      BY <1>4, <1>8, <2>2, Members DEF SessionsAt, Brings
    <2> QED BY <2>1, <2>2
  <1>10. NamesArrived(b, map)' /\ SessionsArrived(b, map)'
    BY <1>7, <1>8, <1>9 DEF NamesArrived, SessionsArrived
  <1>11. ASSUME NEW p \in ProfileIds \ raced' PROVE FollowersArrived(b, map, p)'
    <2>1. FollowersArrived(b, map, p)
      BY <1>3, <1>7, <1>11
    <2> SUFFICES ASSUME NEW a \in ProfileIds
                 PROVE  /\ p \in Followers(map, a) => p \in Followers(new, a)
                        /\ p \in Followers(new, a) =>
                             \/ p \in Followers(map, a)
                             \/ \E c \in Clients : Brings(c, b, "FOLLOW")' /\ packet'[c].payload = a /\ packet'[c].sender = p
      BY DEF FollowersArrived, new
    <2>2. Followers(old, a) \subseteq Followers(new, a)
      BY <1>2
    <2>3. /\ p \in Followers(map, a) => p \in Followers(old, a)
          /\ p \in Followers(old, a) =>
               \/ p \in Followers(map, a)
               \/ \E c \in Clients : Brings(c, b, "FOLLOW") /\ packet[c].payload = a /\ packet[c].sender = p
      BY <2>1 DEF FollowersArrived, old
    <2>4. \A c \in Clients : Brings(c, b, "FOLLOW") => Brings(c, b, "FOLLOW")' /\ packet'[c] = packet[c]
      BY <1>4, <1>6, Members DEF Brings
    <2>5. ASSUME p \in Followers(new, a), p \notin Followers(old, a)
          PROVE  \E c \in Clients : Brings(c, b, "FOLLOW")' /\ packet'[c].payload = a /\ packet'[c].sender = p
      <3>1. eff.cmd = "FOLLOW" /\ a = eff.payload /\ p = profileOf[k]
        BY <1>2, <2>5
      <3>2. pkt = eff /\ eff.sender = profileOf[k]
        BY <1>1, <1>5, <3>1 DEF NullClose
      <3>3. Brings(k, b, "FOLLOW")'
        BY <1>4, <3>1, <3>2 DEF Brings
      <3> QED BY <1>4, <3>1, <3>2, <3>3
    <2> QED BY <2>2, <2>3, <2>4, <2>5
  <1>12. ASSUME NEW p \in Names(new), p \notin raced' PROVE ProfileArrived(b, map, p)'
    <2>1. p \in ProfileIds /\ p \notin raced
      BY <1>3, <1>12 DEF Names
    <2>2. CASE p \notin T
      <3>1. p \in Names(old) /\ new[p] = old[p]
        <4>1. eff.cmd = "PROFILE" => T = {profileOf[k]}
          BY <1>1 DEF Touched
        <4> QED BY <1>1, <1>12, <2>1, <2>2, <4>1
      <3>2. ProfileArrived(b, map, p)
        BY <1>7, <2>1, <3>1
      <3>3. \A t \in Threads : Ahead(t, b)' /\ p \in Under(t)' =>
              Ahead(t, b) /\ p \in Under(t) /\ packet'[t] = packet[t]
        BY <1>3, <1>4, <1>6, <1>12, <2>2
      <3>4. \A t \in Threads : Ahead(t, b) /\ p \in Under(t) => Ahead(t, b)' /\ p \in Under(t)'
        BY <1>3, <1>4, <1>6, <1>12, <2>2
      <3>5. Untouched(b, p)' => SameProfile(map[p], new[p])
        BY <3>1, <3>2, <3>4 DEF Untouched, ProfileArrived, old
      <3>6. ASSUME NEW t \in Threads, Ahead(t, b)', p \in Under(t)', ~NullClose(packet'[t])
            PROVE  SameProfile(processPacket(map, nullptr, packet'[t])[p], new[p])
        BY <3>1, <3>2, <3>3, <3>6 DEF ProfileArrived, old
      <3> QED BY <3>5, <3>6 DEF ProfileArrived, new
    <2>3. CASE p \in T
      <3>1. \A t \in Threads \ {k} : packet[t] # nullptr => p \notin Under(t) /\ p \notin Under(t)'
        BY <1>3, <1>12, <2>3
      <3>2. Untouched(b, p) /\ ~Untouched(b, p)'
        BY <1>3, <1>4, <1>6, <2>3, <3>1 DEF Untouched
      <3>3. ASSUME ~NullClose(pkt)
            PROVE  SameProfile(processPacket(map, nullptr, pkt)[p], new[p])
        <4>1. pkt = eff
          BY <1>5, <3>3
        <4>2. \A c \in Clients : profileOf[c] = p => ~Brings(c, b, "PROFILE") /\ ~Brings(c, b, "CLOSE_CONN")
          <5> SUFFICES ASSUME NEW c \in Clients, profileOf[c] = p, Ahead(c, b),
                              packet[c].cmd \in {"PROFILE", "CLOSE_CONN"}
                       PROVE  FALSE
            BY DEF Brings
          <5>1. c # k /\ packet[c] # nullptr /\ c \in Threads
            BY <1>6, Members
          <5>2. FromClient(packet[c], c)
            BY <1>5, <5>1, PrimaryFacts
          <5>3. Under(c) = {p}
            BY <5>2 DEF FromClient, Under, Touched
          <5> QED BY <3>1, <5>1, <5>3
        <4>3. \A c \in Clients : profileOf[c] = p /\ c \in counted[primary] => Arrived(b, c)
          BY <4>2 DEF Arrived
        <4>4. SessionsAt(b, p) = Sessions1(p)
          <5>1. \A c \in counted[primary] : c \in Clients
            BY <1>5, PrimaryFacts
          <5> QED BY <4>2, <4>3, <5>1 DEF SessionsAt, Sessions1, Arrived
        <4>5. ASSUME p \in Names(old)
              PROVE  p \in Names(map) /\ SameProfile(map[p], old[p]) /\ map[p].sessions_on = old[p].sessions_on
          <5>1. PICK c \in counted[primary] : profileOf[c] = p
            BY <1>1, <1>5, <4>5 DEF PrimaryOK
          <5>2. c \in Clients
            BY <1>5, PrimaryFacts
          <5>3. p \in Names(map)
            BY <1>7, <2>1, <4>3, <5>1, <5>2 DEF NamesArrived, Names
          <5>4. map[p].sessions_on = old[p].sessions_on
            BY <1>1, <1>5, <1>7, <4>4, <4>5, <5>3 DEF SessionsArrived, PrimaryOK, old
          <5>5. SameProfile(map[p], old[p])
            BY <1>7, <2>1, <3>2, <4>5 DEF ProfileArrived, old
          <5> QED BY <5>3, <5>4, <5>5
        <4>6. ASSUME p \notin Names(old)
              PROVE  p \notin Names(map) /\ eff.cmd = "PROFILE" /\ eff.payload = p
          <5>1. eff.cmd = "PROFILE" /\ eff.payload = p
            BY <1>1, <1>12, <4>6
          <5>2. p \notin Names(map)
            BY <1>1, <1>5, <1>7, <4>6, Heard
          <5> QED BY <5>1, <5>2
        <4>7. eff.cmd \in {"FOLLOW", "SEND"} => eff.sender \in Names(map) /\ eff.sender \in Names(old)
          <5>1. eff.cmd \in {"FOLLOW", "SEND"} => k \in counted[primary] /\ ~Brings(k, b, "PROFILE")
            BY <1>1, <1>4 DEF Brings
          <5>2. eff.cmd \in {"FOLLOW", "SEND"} => profileOf[k] \in Names(map)
            BY <1>5, <1>7, <5>1, Heard
          <5> QED BY <1>1, <5>2
        <4>8. eff.cmd = "SEND" => (p \in Followers(map, eff.sender) <=> p \in Followers(old, eff.sender))
          <5> SUFFICES ASSUME eff.cmd = "SEND"
                       PROVE  p \in Followers(map, eff.sender) <=> p \in Followers(old, eff.sender)
            OBVIOUS
          <5>1. eff.sender \in ProfileIds /\ FollowersArrived(b, map, p)
            BY <1>1, <1>7, <2>1
          <5>2. \A c \in Clients : Brings(c, b, "FOLLOW") => packet[c].sender # p
            <6> SUFFICES ASSUME NEW c \in Clients, Ahead(c, b), packet[c].cmd = "FOLLOW", packet[c].sender = p
                         PROVE  FALSE
              BY DEF Brings
            <6>1. p \in Under(c)
              BY DEF Under, Touched
            <6> QED BY <1>6, <3>1, <6>1, Members
          <5> QED BY <5>1, <5>2 DEF FollowersArrived, old
        <4>9. nullptr \in ConnsOrNull
          BY DEF ConnsOrNull
        <4> QED BY <1>1, <2>1, <4>1, <4>5, <4>6, <4>7, <4>8, <4>9, SameEffect
      <3> QED BY <1>3, <1>4, <1>6, <3>1, <3>2, <3>3 DEF ProfileArrived, new
    <2> QED BY <2>2, <2>3
  <1> QED BY <1>1, <1>10, <1>11, <1>12 DEF Copies

-----------------------------------------------------------------------------
(* A thread hands its packet to a backup.                                  *)

(* Once a thread has handed its packet to b, only that packet is no longer
   ahead of b. *)
LEMMA ForwardAhead ==
  ASSUME Types, CountInv, NEW t \in Threads, Forward(t), NEW b, b = NextBackup(t)
  PROVE  /\ Ahead(t, b) /\ ~Ahead(t, b)'
         /\ \A c \in Threads : \A d : c # t \/ d # b => (Ahead(c, d)' <=> Ahead(c, d))
  <1> DEFINE x == i[t]
             l == listBackups[primary]
  <1>1. /\ MoreBackups(t) /\ i' = [i EXCEPT ![t] = @ + 1]
        /\ packet' = packet /\ listBackups' = listBackups
    BY DEF Forward, listVars
  <1>2. Ahead(t, b) /\ x \in DOMAIN l /\ b = l[x]
    BY <1>1, Hands
  <1>3. /\ i'[t] = x + 1 /\ x \in Nat /\ \A c \in Threads \ {t} : i'[c] = i[c]
        /\ \A y \in DOMAIN l : y \in Nat
    <2>1. l \in Seq(Backups)
      BY Members DEF Types, Kinds
    <2> QED BY <1>1, <2>1 DEF Types, Kinds
  <1>4. \A y \in DOMAIN l : l[y] = b => y = x
    BY <1>2 DEF CountInv, Vectors
  <1> HIDE DEF x, l
  <1>5. ~Ahead(t, b)'
    <2>1. \A y \in DOMAIN l : i'[t] <= y => l[y] # b
      BY <1>3, <1>4
    <2> QED BY <1>1, <2>1 DEF Ahead, l
  <1>6. ASSUME NEW c \in Threads, NEW d, c # t \/ d # b PROVE Ahead(c, d)' <=> Ahead(c, d)
    <2>1. \A y \in DOMAIN l : l[y] = d => (i'[c] <= y <=> i[c] <= y)
      <3> TAKE y \in DOMAIN l
      <3> HAVE l[y] = d
      <3>1. CASE c # t
        BY <1>3, <3>1
      <3>2. CASE c = t
        <4>1. y # x
          BY <1>2, <1>6, <3>2
        <4> QED BY <1>3, <3>2, <4>1 DEF x
      <3> QED BY <3>1, <3>2
    <2> QED BY <1>1, <2>1 DEF Ahead, l
  <1> QED BY <1>2, <1>5, <1>6

(* The packet that a thread hands to a backup can be carried out there: the
   sender is known, and a login finds a session free unless it has overtaken
   the CLOSE_CONN of another session. *)
LEMMA ForwardSafe ==
  ASSUME Types, CountInv, PrimaryOK, RacedOK, up[primary] = "serving",
         NEW b \in Backups, NEW t \in Threads, Ahead(t, b), ~NullClose(packet[t]),
         NEW map, Closed(map), Copies(b, map)
  PROVE  /\ WellFormed(packet[t]) /\ SenderKnown(map, packet[t])
         /\ Closed(processPacket(map, nullptr, packet[t]))
         /\ \/ ~Dereferences(map, packet[t])
            \/ packet[t].cmd = "PROFILE" /\ packet[t].payload \in raced
  <1> DEFINE pkt == packet[t]
             p == pkt.payload
  <1>1. pkt # nullptr /\ WellFormed(pkt) /\ NamesArrived(b, map)
    BY Forwarded DEF Ahead, Copies
  <1>2. SenderKnown(map, pkt)
    BY <1>1, Heard DEF SenderKnown
  <1>3. Closed(processPacket(map, nullptr, pkt))
    BY <1>1, <1>2, Process DEF ConnsOrNull
  <1>4. pkt.cmd \in {"FOLLOW", "SEND", "CLOSE_CONN"} => pkt.sender # nullptr /\ map[pkt.sender] # nullptr
    BY <1>2, Members DEF SenderKnown, Names
  <1>5. ASSUME pkt.cmd = "PROFILE", p \notin raced PROVE ~refuses(map, p)
    <2> SUFFICES ASSUME map[p] # nullptr PROVE map[p].sessions_on # MAX_SESSIONS
      BY DEF refuses
    <2>1. t \in Clients /\ FromClient(pkt, t)
      <3>1. t \in Clients
        BY <1>1, <1>5, Members DEF Types, PacketsOK, IsList
      <3> QED BY <1>1, <3>1, PrimaryFacts
    <2>2. /\ t \in counted[primary] /\ profileOf[t] = p /\ p \in KnownAt(primary) /\ p \in ProfileIds
          /\ pc[t] \notin {"closing", "ended"}
      <3>1. pc[t] \in {"forward", "closing"} /\ (pkt.cmd = "CLOSE_CONN" <=> pc[t] = "closing")
        BY <1>1, <2>1, Members DEF Types, PacketsOK
      <3> QED BY <1>1, <1>5, <2>1, <3>1, PrimaryFacts, profileOfAssumption DEF FromClient
    <2>3. p \in Names(map)
      BY <2>2 DEF Names
    <2>4. t \notin SessionsAt(b, p)
      BY <1>5 DEF SessionsAt, Arrived, Brings
    <2>5. SessionsAt(b, p) \cup {t} \subseteq Sessions1(p)
      <3>1. t \in Sessions1(p)
        BY <2>2 DEF Sessions1
      <3>2. ASSUME NEW c \in SessionsAt(b, p) PROVE c \in Sessions1(p)
        <4>1. c \in Clients /\ c \in counted[primary] /\ profileOf[c] = p /\ c # t /\ c \in Threads
          BY <2>4, Members DEF SessionsAt, Arrived
        <4>2. ASSUME Brings(c, b, "CLOSE_CONN") PROVE FALSE
          <5>1. packet[c] # nullptr
            BY <4>2 DEF Brings, Ahead
          <5>2. Under(c) = {p} /\ Under(t) = {p}
            BY <1>5, <2>1, <4>1, <4>2, <5>1, PrimaryFacts DEF Under, Touched, FromClient, Brings
          <5>3. Under(t) \subseteq raced
            BY <1>1, <4>1, <5>1, <5>2 DEF RacedOK
          <5> QED BY <1>5, <5>2, <5>3
        <4> QED BY <4>1, <4>2 DEF SessionsAt, Sessions1
      <3> QED BY <3>1, <3>2
    <2>6. /\ IsFiniteSet(Sessions1(p)) /\ Cardinality(Sessions1(p)) \in Nat
          /\ Cardinality(Sessions1(p)) <= MAX_SESSIONS
      <3>1. Sessions1(p) \subseteq Clients
        BY PrimaryFacts DEF Sessions1
      <3>2. IsFiniteSet(Sessions1(p)) /\ Cardinality(Sessions1(p)) \in Nat
        BY <3>1, ThreadsAssumption, Members, FS_Subset, FS_CardinalityType
      <3> QED BY <2>2, <3>2 DEF PrimaryOK
    <2>7. /\ IsFiniteSet(SessionsAt(b, p)) /\ Cardinality(SessionsAt(b, p)) \in Nat
          /\ Cardinality(SessionsAt(b, p) \cup {t}) = Cardinality(SessionsAt(b, p)) + 1
          /\ Cardinality(SessionsAt(b, p) \cup {t}) <= Cardinality(Sessions1(p))
      <3>1. IsFiniteSet(SessionsAt(b, p)) /\ Cardinality(SessionsAt(b, p)) \in Nat
        BY <2>5, <2>6, FS_Subset, FS_CardinalityType
      <3> QED BY <2>4, <2>5, <2>6, <3>1, FS_AddElement, FS_Subset
    <2>8. map[p].sessions_on = Cardinality(SessionsAt(b, p))
      BY <2>3 DEF Copies, SessionsArrived
    <2> QED BY <2>6, <2>7, <2>8, BoundsAssumption
  <1> QED BY <1>1, <1>2, <1>3, <1>4, <1>5 DEF Dereferences

(* The sessions in a copy before and after the packet of t. *)
LEMMA ForwardSessions ==
  ASSUME Types, CountInv, up[primary] = "serving",
         NEW b \in Backups, NEW t \in Threads, Ahead(t, b), ~NullClose(packet[t]),
         NEW map, Closed(map), NamesArrived(b, map), SessionsArrived(b, map),
         NEW new, new = processPacket(map, nullptr, packet[t]), SenderKnown(map, packet[t]),
         packet' = packet, pc' = pc, counted' = counted,
         ~Ahead(t, b)', \A c \in Threads : c # t => (Ahead(c, b)' <=> Ahead(c, b))
  PROVE  NamesArrived(b, new)' /\ SessionsArrived(b, new)'
  <1> DEFINE pkt == packet[t]
  <1>1. /\ pkt # nullptr /\ WellFormed(pkt) /\ nullptr \in ConnsOrNull
        /\ t \in Clients => FromClient(pkt, t) /\ t \in counted[primary] /\ profileOf[t] \in ProfileIds
                            /\ (pkt.cmd = "CLOSE_CONN" <=> pc[t] = "closing")
                            /\ pc[t] \in {"forward", "closing"}
        /\ t \notin Clients => IsList(pkt)
    BY Forwarded, PrimaryFacts, profileOfAssumption, Members DEF Ahead, ConnsOrNull, Types, PacketsOK
  <1>2. Names(new) = Names(map) \cup (IF pkt.cmd = "PROFILE" THEN {pkt.payload} ELSE {})
    BY <1>1, Sessions
  <1>3. \A c \in Clients : \A cmd : /\ c # t => (Brings(c, b, cmd)' <=> Brings(c, b, cmd))
                                    /\ c = t => ~Brings(c, b, cmd)' /\ (Brings(c, b, cmd) <=> pkt.cmd = cmd)
    BY Members DEF Brings
  <1>4. ASSUME NEW c \in Clients
        PROVE  Arrived(b, c)' <=> Arrived(b, c) \/ (c = t /\ pkt.cmd = "PROFILE")
    BY <1>1, <1>3 DEF Arrived
  <1>5. pkt.cmd = "PROFILE" => t \in Clients /\ pkt.payload = profileOf[t] /\ ~Arrived(b, t)
    BY <1>1, <1>3 DEF IsList, FromClient, Arrived
  <1>6. pkt.cmd = "CLOSE_CONN" => t \in Clients /\ pkt.sender = profileOf[t] /\ Arrived(b, t)
    BY <1>1, <1>3 DEF IsList, FromClient, Arrived, NullClose
  <1>7. NamesArrived(b, new)'
    <2> SUFFICES ASSUME NEW p \in ProfileIds
                 PROVE  new[p] # nullptr <=> \E c \in Clients : Arrived(b, c)' /\ profileOf[c] = p
      BY DEF NamesArrived
    <2>1. map[p] # nullptr <=> \E c \in Clients : Arrived(b, c) /\ profileOf[c] = p
      BY DEF NamesArrived
    <2>2. new[p] # nullptr <=> map[p] # nullptr \/ (pkt.cmd = "PROFILE" /\ p = pkt.payload)
      BY <1>2 DEF Names
    <2> QED BY <1>4, <1>5, <2>1, <2>2
  <1>8. ASSUME NEW p \in Names(new)
        PROVE  /\ new[p].sessions \in Seq({nullptr})
               /\ Len(new[p].sessions) = new[p].sessions_on
               /\ new[p].sessions_on = Cardinality(SessionsAt(b, p)')
    <2> DEFINE A == SessionsAt(b, p)
               n == IF p \in Names(map) THEN map[p].sessions_on ELSE 0
    <2>1. p \in ProfileIds
      BY <1>8 DEF Names
    <2>2. A \subseteq Clients /\ IsFiniteSet(A) /\ Cardinality(A) \in Nat
      <3>1. A \subseteq Clients
        BY DEF SessionsAt
      <3> QED BY <3>1, ThreadsAssumption, Members, FS_Subset, FS_CardinalityType
    <2>3. n = Cardinality(A)
      <3>1. CASE p \in Names(map)
        BY <3>1 DEF SessionsArrived
      <3>2. CASE p \notin Names(map)
        <4>1. A = {}
          BY <2>1, <3>2 DEF SessionsAt, NamesArrived, Names
        <4> HIDE DEF A
        <4> QED BY <3>2, <4>1, FS_EmptySet
      <3> QED BY <3>1, <3>2
    <2>4. \A c \in Clients : c \in A <=> /\ Arrived(b, c) /\ profileOf[c] = p
                                         /\ pc[c] \notin {"closing", "ended"} \/ Brings(c, b, "CLOSE_CONN")
      BY DEF SessionsAt
    <2>5. \A c : c \in SessionsAt(b, p)' <=> /\ c \in Clients /\ Arrived(b, c)' /\ profileOf[c] = p
                                             /\ pc[c] \notin {"closing", "ended"} \/ Brings(c, b, "CLOSE_CONN")'
      BY DEF SessionsAt
    <2>6. \A c \in Clients : c # t => (c \in SessionsAt(b, p)' <=> c \in A)
      BY <1>3, <1>4, <2>4, <2>5
    <2>7. p \in Names(map) => map[p].sessions \in Seq({nullptr}) /\ Len(map[p].sessions) = map[p].sessions_on
      BY DEF SessionsArrived
    <2>8. pkt.cmd \in {"FOLLOW", "SEND", "CLOSE_CONN"} => pkt.sender \in Names(map)
      BY DEF SenderKnown
    <2>9. /\ new[p].sessions \in Seq({nullptr}) /\ Len(new[p].sessions) = new[p].sessions_on
          /\ pkt.cmd = "PROFILE" /\ pkt.payload = p => new[p].sessions_on = n + 1
          /\ pkt.cmd = "CLOSE_CONN" /\ pkt.sender = p /\ n # 0 => new[p].sessions_on = n - 1
          /\ ~(pkt.cmd = "PROFILE" /\ pkt.payload = p) /\ ~(pkt.cmd = "CLOSE_CONN" /\ pkt.sender = p)
                => new[p].sessions_on = n
      BY <1>1, <1>8, <2>1, <2>7, <2>8, NullSessions
    <2> HIDE DEF A, n, pkt
    <2>10. CASE pkt.cmd = "PROFILE" /\ pkt.payload = p
      <3>1. t \notin A /\ t \in SessionsAt(b, p)' /\ t \in Clients
        BY <1>1, <1>4, <1>5, <2>4, <2>5, <2>10 DEF pkt
      <3>2. SessionsAt(b, p)' = A \cup {t}
        BY <2>2, <2>5, <2>6, <3>1
      <3>3. Cardinality(A \cup {t}) = n + 1
        BY <2>2, <2>3, <3>1, FS_AddElement
      <3> QED BY <2>9, <2>10, <3>2, <3>3
    <2>11. CASE pkt.cmd = "CLOSE_CONN" /\ pkt.sender = p
      <3>1. t \in A /\ t \notin SessionsAt(b, p)' /\ t \in Clients
        BY <1>1, <1>3, <1>6, <2>4, <2>5, <2>11 DEF pkt
      <3>2. SessionsAt(b, p)' = A \ {t}
        BY <2>2, <2>5, <2>6, <3>1
      <3>3. Cardinality(A \ {t}) = n - 1 /\ A # {}
        BY <2>2, <2>3, <3>1, FS_RemoveElement
      <3>4. n # 0
        BY <2>2, <2>3, <3>3, FS_EmptySet
      <3> QED BY <2>9, <2>11, <3>2, <3>3, <3>4
    <2>12. CASE ~(pkt.cmd = "PROFILE" /\ pkt.payload = p) /\ ~(pkt.cmd = "CLOSE_CONN" /\ pkt.sender = p)
      <3>1. t \in Clients => (t \in SessionsAt(b, p)' <=> t \in A)
        BY <1>1, <1>3, <1>4, <1>5, <1>6, <2>4, <2>5, <2>12 DEF pkt
      <3>2. SessionsAt(b, p)' = A
        BY <2>2, <2>5, <2>6, <3>1
      <3> QED BY <2>3, <2>9, <2>12, <3>2
    <2> QED BY <2>10, <2>11, <2>12
  <1>9. SessionsArrived(b, new)'
    BY <1>8 DEF SessionsArrived
  <1> QED BY <1>7, <1>9

(* The copy after one packet more lacks one packet less of what the primary
   has carried out. *)
LEMMA ForwardCopies ==
  ASSUME Types, CountInv, PrimaryOK, RacedOK, FollowsOK, up[primary] = "serving",
         NEW b \in Backups, NEW t \in Threads, Ahead(t, b), ~NullClose(packet[t]),
         NEW map, Closed(map), Copies(b, map),
         NEW new, new = processPacket(map, nullptr, packet[t]), Closed(new),
         UNCHANGED <<packet, pc, counted, profiles, raced>>,
         ~Ahead(t, b)', \A c \in Threads : c # t => (Ahead(c, b)' <=> Ahead(c, b))
  PROVE  Copies(b, new)'
  <1> DEFINE pkt == packet[t]
             orig == profiles[primary]
  <1>1. /\ pkt # nullptr /\ WellFormed(pkt) /\ SenderKnown(map, pkt) /\ nullptr \in ConnsOrNull
        /\ Closed(orig) /\ KnownAt(primary) = Names(orig)
    BY ForwardSafe, PrimaryFacts DEF Ahead, ConnsOrNull
  <1>2. /\ NamesArrived(b, map) /\ SessionsArrived(b, map)
        /\ \A p \in ProfileIds \ raced : FollowersArrived(b, map, p)
        /\ \A p \in Names(orig) \ raced : ProfileArrived(b, map, p)
    BY <1>1 DEF Copies
  <1>3. NamesArrived(b, new)' /\ SessionsArrived(b, new)'
    BY <1>1, <1>2, ForwardSessions
  <1>4. \A u \in Threads : packet[u] # nullptr /\ u # t =>
          \A p : p \in Under(t) /\ p \in Under(u) => p \in raced
    BY <1>1 DEF RacedOK
  <1>5. ASSUME NEW a \in ProfileIds
        PROVE  Followers(new, a) = IF pkt.cmd = "FOLLOW" /\ a = pkt.payload /\ a # pkt.sender /\ a \in Names(map)
                                   THEN Followers(map, a) \cup {pkt.sender} ELSE Followers(map, a)
    <2>1. new = processPacket(map, nullptr, pkt)
      OBVIOUS
    <2>2. pkt.cmd \in {"FOLLOW", "SEND", "CLOSE_CONN"} => pkt.sender \in Names(map)
      BY <1>1 DEF SenderKnown
    <2>3. WellFormed(pkt) /\ nullptr \in ConnsOrNull
      BY <1>1
    <2> HIDE DEF pkt
    <2> QED BY <2>1, <2>2, <2>3, FollowersEffect
  <1>6. \A u \in Threads : Ahead(u, b)' => Ahead(u, b) /\ u # t /\ packet[u] # nullptr
    BY DEF Ahead
  <1>7. ASSUME NEW p \in ProfileIds \ raced PROVE FollowersArrived(b, new, p)'
    <2> SUFFICES ASSUME NEW a \in ProfileIds
                 PROVE  /\ p \in Followers(new, a) => p \in Followers(orig, a)
                        /\ p \in Followers(orig, a) =>
                             \/ p \in Followers(new, a)
                             \/ \E c \in Clients : Brings(c, b, "FOLLOW")' /\ packet[c].payload = a /\ packet[c].sender = p
      BY DEF FollowersArrived
    <2>1. /\ p \in Followers(map, a) => p \in Followers(orig, a)
          /\ p \in Followers(orig, a) =>
               \/ p \in Followers(map, a)
               \/ \E c \in Clients : Brings(c, b, "FOLLOW") /\ packet[c].payload = a /\ packet[c].sender = p
      BY <1>2 DEF FollowersArrived
    <2>2. ASSUME p \in Followers(new, a) PROVE p \in Followers(orig, a)
      <3>1. CASE p \in Followers(map, a)
        BY <2>1, <3>1
      <3>2. CASE p \notin Followers(map, a)
        <4>1. pkt.cmd = "FOLLOW" /\ a = pkt.payload /\ p = pkt.sender /\ a \in Names(map)
          BY <1>5, <2>2, <3>2
        <4>2. t \in Clients
          BY <1>1, <4>1, Members DEF Types, PacketsOK, IsList
        <4>3. a \in KnownAt(primary)
          BY <1>2, <4>1, Heard
        <4> QED BY <1>1, <4>1, <4>2, <4>3 DEF FollowsOK
      <3> QED BY <3>1, <3>2
    <2>3. ASSUME p \in Followers(orig, a), p \notin Followers(map, a)
          PROVE  \/ p \in Followers(new, a)
                 \/ \E c \in Clients : Brings(c, b, "FOLLOW")' /\ packet[c].payload = a /\ packet[c].sender = p
      <3>1. PICK c \in Clients : Brings(c, b, "FOLLOW") /\ packet[c].payload = a /\ packet[c].sender = p
        BY <2>1, <2>3
      <3>2. CASE c # t
        <4>1. Brings(c, b, "FOLLOW")'
          BY <3>1, <3>2, Members DEF Brings
        <4> QED BY <3>1, <4>1
      <3>3. CASE c = t
        <4>1. pkt.cmd = "FOLLOW" /\ pkt.payload = a /\ pkt.sender = p
          BY <3>1, <3>3 DEF Brings
        <4>2. a # p
          BY <1>1, <3>3, <4>1 DEF FollowsOK
        <4>3. a \in KnownAt(primary)
          BY <2>3 DEF Followers, KnownAt
        <4>4. PICK k \in counted[primary] : profileOf[k] = a
          BY <4>3 DEF PrimaryOK
        <4>5. k \in Clients /\ k \in Threads
          BY PrimaryFacts, Members
        <4>6. ~Brings(k, b, "PROFILE")
          <5> SUFFICES ASSUME Brings(k, b, "PROFILE") PROVE FALSE
            OBVIOUS
          <5>1. packet[k] # nullptr /\ packet[k].cmd = "PROFILE" /\ k # t
            BY <4>1 DEF Brings, Ahead
          <5>2. a \in Under(k)
            BY <4>4, <4>5, <5>1, PrimaryFacts DEF Under, Touched, FromClient
          <5>3. a \in Under(t) /\ p \in Under(t)
            BY <4>1 DEF Under, Touched
          <5>4. Under(t) \subseteq raced
            BY <1>1, <4>5, <5>1, <5>2, <5>3 DEF RacedOK
          <5> QED BY <1>7, <5>3, <5>4
        <4>7. a \in Names(map)
          BY <1>2, <4>4, <4>6, Heard
        <4> QED BY <1>5, <4>1, <4>2, <4>7
      <3> QED BY <3>2, <3>3
    <2>4. p \in Followers(new, a) => p \in Followers(orig, a)
      BY <2>2
    <2>5. p \in Followers(orig, a) =>
            \/ p \in Followers(new, a)
            \/ \E c \in Clients : Brings(c, b, "FOLLOW")' /\ packet[c].payload = a /\ packet[c].sender = p
      <3>1. CASE p \in Followers(map, a)
        BY <1>5, <3>1
      <3>2. CASE p \notin Followers(map, a)
        BY <2>3, <3>2
      <3> QED BY <3>1, <3>2
    <2> QED BY <2>4, <2>5
  <1>8. ASSUME NEW p \in Names(orig), p \notin raced PROVE ProfileArrived(b, new, p)'
    <2>0. p \in ProfileIds /\ ProfileArrived(b, map, p) /\ FollowersArrived(b, map, p)
      BY <1>2, <1>8 DEF Names
    <2>1. CASE p \in Under(t)
      <3>1. SameProfile(new[p], orig[p])
        BY <2>0, <2>1 DEF ProfileArrived
      <3>2. \A u \in Threads : Ahead(u, b)' => p \notin Under(u)
        BY <1>4, <1>6, <1>8, <2>1
      <3>3. \A u \in Threads : p \in Under(u)' <=> p \in Under(u)
        BY DEF Under
      <3> QED BY <3>1, <3>2, <3>3 DEF ProfileArrived
    <2>2. CASE p \notin Under(t)
      <3>1. new[p] = map[p]
        <4>1. pkt.cmd = "PROFILE" => new[p] = map[p]
          BY <1>1, <2>0, <2>2, Effect DEF Under, Touched
        <4>2. pkt.cmd = "FOLLOW" => new[p] = map[p]
          BY <1>1, <2>0, <2>2, Effect DEF Under, Touched, SenderKnown
        <4>3. pkt.cmd = "SEND" => new[p] = map[p]
          <5> SUFFICES ASSUME pkt.cmd = "SEND" PROVE new[p] = map[p]
            OBVIOUS
          <5>1. pkt.sender \in Names(map) /\ pkt.sender \in ProfileIds
            BY <1>1 DEF SenderKnown, Names
          <5>2. p \notin Followers(map, pkt.sender)
            BY <2>0, <2>2, <5>1 DEF FollowersArrived, Under, Touched
          <5> QED BY <1>1, <2>0, <5>1, <5>2, Effect
        <4>4. pkt.cmd = "CLOSE_CONN" => new[p] = map[p]
          <5> SUFFICES ASSUME pkt.cmd = "CLOSE_CONN" PROVE new[p] = map[p]
            OBVIOUS
          <5>1. pkt.sender # p
            BY <1>1, <2>2 DEF Under, Touched, WellFormed, FromClient, IsList, NullClose
          <5> QED BY <1>1, <2>0, <5>1, Effect DEF SenderKnown
        <4>5. pkt.cmd = BP => new[p] = map[p]
          BY <1>1, <2>0, Effect DEF BP
        <4>6. pkt.cmd \in {"PROFILE", "FOLLOW", "SEND", "CLOSE_CONN", BP}
          BY <1>1 DEF WellFormed, FromClient, IsList, BP
        <4> QED BY <4>1, <4>2, <4>3, <4>4, <4>5, <4>6
      <3>2. \A u \in Threads : Ahead(u, b) /\ p \in Under(u) => Ahead(u, b)' /\ p \in Under(u)'
        BY <2>2 DEF Under
      <3>3. Untouched(b, p)' => SameProfile(new[p], orig[p])
        BY <2>0, <3>1, <3>2 DEF Untouched, ProfileArrived
      <3>4. ASSUME NEW u \in Threads, Ahead(u, b)', p \in Under(u)', ~NullClose(packet[u])
            PROVE  SameProfile(processPacket(new, nullptr, packet[u])[p], orig[p])
        <4>1. Ahead(u, b) /\ p \in Under(u) /\ packet[u] # nullptr /\ WellFormed(packet[u])
          BY <1>6, <3>4, Forwarded DEF Under
        <4>2. SameProfile(processPacket(map, nullptr, packet[u])[p], orig[p])
          BY <2>0, <3>4, <4>1 DEF ProfileArrived
        <4>3. packet[u].cmd \in {"FOLLOW", "SEND"} => packet[u].sender \in Names(map) /\ packet[u].sender \in Names(new)
          <5>1. packet[u].cmd \in {"FOLLOW", "SEND"} => packet[u].sender \in Names(map)
            BY <1>2, <4>1, Heard
          <5>2. Names(map) \subseteq Names(new)
            BY <1>1, Process
          <5> QED BY <5>1, <5>2
        <4>4. packet[u].cmd = "SEND" =>
                (p \in Followers(new, packet[u].sender) <=> p \in Followers(map, packet[u].sender))
          <5> SUFFICES ASSUME packet[u].cmd = "SEND"
                       PROVE  p \in Followers(new, packet[u].sender) <=> p \in Followers(map, packet[u].sender)
            OBVIOUS
          <5>1. packet[u].sender \in ProfileIds
            BY <4>3 DEF Names
          <5>2. pkt.cmd = "FOLLOW" => p # pkt.sender
            BY <2>2 DEF Under, Touched
          <5> QED BY <1>5, <5>1, <5>2
        <4>5. processPacket(new, nullptr, packet[u])[p] = processPacket(map, nullptr, packet[u])[p]
          BY <1>1, <2>0, <3>1, <4>1, <4>3, <4>4, LocalEffect
        <4> QED BY <4>2, <4>5
      <3> QED BY <3>3, <3>4 DEF ProfileArrived
    <2> QED BY <2>1, <2>2
  <1>9. KnownAt(primary)' = KnownAt(primary)
    BY DEF KnownAt
  <1> QED BY <1>1, <1>3, <1>7, <1>8, <1>9 DEF Copies

(* What b has of a profile, or will have when it has been handed the packet of
   the only thread that touches it, is an object. *)
LEMMA ArrivedObject ==
  ASSUME Types, CountInv, RacedOK, up[primary] = "serving", NEW b \in Backups,
         NEW map, Closed(map), NamesArrived(b, map), NEW p \in KnownAt(primary) \ raced, PrimaryOK
  PROVE  /\ Untouched(b, p) => map[p] \in Objects
         /\ \A t \in Threads : Ahead(t, b) /\ p \in Under(t) /\ ~NullClose(packet[t]) =>
              processPacket(map, nullptr, packet[t])[p] \in Objects
  <1>1. p \in ProfileIds /\ map \in Maps
    BY PrimaryFacts DEF Closed
  <1>2. PICK k \in counted[primary] : profileOf[k] = p
    BY DEF PrimaryOK
  <1>3. k \in Clients /\ k \in Threads
    BY PrimaryFacts, Members
  <1>4. Brings(k, b, "PROFILE") => Ahead(k, b) /\ packet[k] # nullptr /\ packet[k].payload = p /\ p \in Under(k)
    BY <1>2, <1>3, PrimaryFacts DEF Brings, Ahead, Under, Touched, FromClient
  <1>5. ~Brings(k, b, "PROFILE") => p \in Names(map)
    BY <1>2, Heard
  <1>6. Untouched(b, p) => map[p] \in Objects
    BY <1>1, <1>3, <1>4, <1>5, NamesObject DEF Untouched
  <1>7. ASSUME NEW t \in Threads, Ahead(t, b), p \in Under(t), ~NullClose(packet[t])
        PROVE  processPacket(map, nullptr, packet[t])[p] \in Objects
    <2>1. packet[t] # nullptr /\ WellFormed(packet[t]) /\ nullptr \in ConnsOrNull
      BY <1>7, Forwarded DEF Ahead, ConnsOrNull
    <2>2. SenderKnown(map, packet[t])
      BY <1>7, <2>1, Heard DEF SenderKnown
    <2> DEFINE new == processPacket(map, nullptr, packet[t])
    <2>3. /\ Closed(new) /\ Names(map) \subseteq Names(new)
          /\ packet[t].cmd = "PROFILE" => packet[t].payload \in Names(new)
      BY <2>1, <2>2, Process
    <2>4. Brings(k, b, "PROFILE") => k = t
      BY <1>3, <1>4, <1>7, <2>1 DEF RacedOK
    <2>5. p \in Names(new)
      BY <1>4, <1>5, <2>3, <2>4 DEF Brings
    <2> HIDE DEF new
    <2>6. new[p] \in Objects
      BY <1>1, <2>3, <2>5, NamesObject DEF Closed
    <2> QED BY <2>6 DEF new
  <1> QED BY <1>6, <1>7

(* A step that changes neither the copy nor, but for what is fetched, the
   primary's map: lists that start on their way are no matter. *)
LEMMA KeepCopies ==
  ASSUME Types, CountInv, PrimaryOK, RacedOK, up[primary] = "serving", Quiet, NEW b \in Backups,
         \A p \in KnownAt(primary) : \A o \in Objects :
           SameProfile(o, profiles[primary][p]) => SameProfile(o, profiles'[primary][p]),
         \A t \in Threads :
           /\ Ahead(t, b) => Ahead(t, b)' /\ packet'[t] = packet[t]
           /\ Ahead(t, b)' => Ahead(t, b) \/ IsList(packet'[t]),
         NEW map, Closed(map), Copies(b, map)
  PROVE  Copies(b, map)'
  <1>1. /\ \A k \in counted[primary] : k \in Clients /\ pc[k] # "out"
        /\ counted'[primary] = counted[primary]
    BY PrimaryFacts DEF PrimaryOK, Quiet
  <1>2. \A k \in Clients : \A cmd \in {"PROFILE", "FOLLOW", "CLOSE_CONN"} :
          Brings(k, b, cmd)' <=> Brings(k, b, cmd)
    BY Members DEF Brings, IsList
  <1>3. \A k \in Clients : Arrived(b, k)' <=> Arrived(b, k)
    BY <1>1, <1>2 DEF Arrived
  <1>4. \A p : SessionsAt(b, p)' = SessionsAt(b, p)
    <2> SUFFICES ASSUME NEW p, NEW k \in Clients
                 PROVE  k \in SessionsAt(b, p)' <=> k \in SessionsAt(b, p)
      BY DEF SessionsAt
    <2> QED BY <1>1, <1>2, <1>3 DEF SessionsAt, Quiet, Arrived
  <1>5. \A a \in ProfileIds : Followers(profiles'[primary], a) = Followers(profiles[primary], a)
    <2> TAKE a \in ProfileIds
    <2>1. CASE a \in KnownAt(primary)
      BY <2>1 DEF Followers, Quiet, KnownAt
    <2>2. CASE a \notin KnownAt(primary)
      BY <2>2 DEF Followers, Quiet, KnownAt
    <2> QED BY <2>1, <2>2
  <1>6. \A t \in Threads : Ahead(t, b) => Under(t)' = Under(t)
    <2> SUFFICES ASSUME NEW t \in Threads, Ahead(t, b) PROVE Under(t)' = Under(t)
      OBVIOUS
    <2>1. packet'[t] = packet[t] /\ packet[t] # nullptr
      BY DEF Ahead
    <2>2. packet[t].cmd = "SEND" => packet[t].sender \in ProfileIds
      BY <2>1, Forwarded DEF KnownAt
    <2> QED BY <1>5, <2>1, <2>2 DEF Under, Touched
  <1>6a. \A t \in Threads : IsList(packet'[t]) => Under(t)' = {nullptr}
    BY DEF Under, Touched, IsList
  <1>7. NamesArrived(b, map)' /\ SessionsArrived(b, map)'
    BY <1>3, <1>4 DEF Copies, NamesArrived, SessionsArrived
  <1>8. ASSUME NEW p \in ProfileIds \ raced' PROVE FollowersArrived(b, map, p)'
    <2>1. FollowersArrived(b, map, p)
      BY <1>8 DEF Copies, Quiet
    <2> SUFFICES ASSUME NEW a \in ProfileIds
                 PROVE  /\ p \in Followers(map, a) => p \in Followers(profiles'[primary], a)
                        /\ p \in Followers(profiles'[primary], a) =>
                             \/ p \in Followers(map, a)
                             \/ \E k \in Clients : Brings(k, b, "FOLLOW")' /\ packet'[k].payload = a /\ packet'[k].sender = p
      BY DEF FollowersArrived
    <2>2. \A k \in Clients : Brings(k, b, "FOLLOW") => packet'[k] = packet[k]
      BY Members DEF Brings
    <2> QED BY <1>2, <1>5, <2>1, <2>2 DEF FollowersArrived
  <1>9. ASSUME NEW p \in KnownAt(primary)' \ raced' PROVE ProfileArrived(b, map, p)'
    <2>1. p \in KnownAt(primary) \ raced /\ ProfileArrived(b, map, p) /\ p # nullptr
      BY <1>9, Members DEF Copies, Quiet, KnownAt
    <2>2. Untouched(b, p)' => SameProfile(map[p], profiles'[primary][p])
      <3>1. Untouched(b, p)' => Untouched(b, p)
        BY <1>6 DEF Untouched
      <3>2. Untouched(b, p) => map[p] \in Objects
        BY <2>1, ArrivedObject DEF Copies
      <3> QED BY <2>1, <3>1, <3>2 DEF ProfileArrived
    <2>3. ASSUME NEW t \in Threads, Ahead(t, b)', p \in Under(t)', ~NullClose(packet'[t])
          PROVE  SameProfile(processPacket(map, nullptr, packet'[t])[p], profiles'[primary][p])
      <3>1. Ahead(t, b) /\ p \in Under(t) /\ packet'[t] = packet[t] /\ ~NullClose(packet[t])
        BY <1>6, <1>6a, <2>1, <2>3
      <3>2. SameProfile(processPacket(map, nullptr, packet[t])[p], profiles[primary][p])
        BY <2>1, <3>1 DEF ProfileArrived
      <3>3. processPacket(map, nullptr, packet[t])[p] \in Objects
        BY <2>1, <3>1, ArrivedObject DEF Copies
      <3> QED BY <2>1, <3>1, <3>2, <3>3
    <2> QED BY <2>2, <2>3 DEF ProfileArrived
  <1> QED BY <1>7, <1>8, <1>9 DEF Copies

(* A copy of b that has a packet more to read. *)
LEMMA LongerCopy ==
  ASSUME NEW b \in Backups, NEW pkt, queue[b] \in Seq(Packets), pkt \in Packets,
         queue'[b] = Append(queue[b], pkt), profiles'[b] = profiles[b], raced' = raced,
         NEW m \in [0 .. Len(queue[b]) -> Maps], NEW map \in Maps, CopyOK(b, m, map),
         NEW new, Closed(new),
         \/ Doomed(b) \/ NullClose(pkt)
         \/ /\ new = processPacket(map, nullptr, pkt)
            /\ ~Dereferences(map, pkt) \/ (pkt.cmd = "PROFILE" /\ pkt.payload \in raced)
            /\ up'[primary] = "serving" => Copies(b, new)'
  PROVE  HasCopy(b)'
  <1>1. PICK n, q : n = Len(queue[b]) /\ q = queue[b]
    OBVIOUS
  <1>2. /\ n \in Nat /\ DOMAIN q = 1 .. n /\ DOMAIN queue'[b] = 1 .. n + 1 /\ Len(queue'[b]) = n + 1
        /\ \A j \in 1 .. n : queue'[b][j] = q[j]
        /\ queue'[b][n + 1] = pkt
    BY <1>1
  <1>3. /\ \A j \in 0 .. n : Closed(m[j])
        /\ m[0] = profiles[b] /\ map = m[n]
        /\ \A j \in 1 .. n :
             \/ \E x \in 1 .. n : x <= j /\ NullClose(q[x])
             \/ /\ m[j] = processPacket(m[j - 1], nullptr, q[j])
                /\ \/ ~Dereferences(m[j - 1], q[j])
                   \/ q[j].cmd = "PROFILE" /\ q[j].payload \in raced
    BY <1>1, <1>2 DEF CopyOK, Replays
  <1> DEFINE m2 == [j \in 0 .. n + 1 |-> IF j = n + 1 THEN new ELSE m[j]]
  <1>4. /\ m2 \in [0 .. n + 1 -> Maps] /\ m2[n + 1] = new
        /\ \A j \in 0 .. n : m2[j] = m[j]
        /\ \A j \in 0 .. n + 1 : Closed(m2[j])
    <2>1. new \in Maps
      BY DEF Closed
    <2> QED BY <1>1, <1>2, <1>3, <2>1
  <1>5. Doomed(b)' <=> Doomed(b) \/ NullClose(pkt)
    <2>1. Doomed(b) <=> \E j \in 1 .. n : NullClose(q[j])
      BY <1>1, <1>2 DEF Doomed
    <2>2. Doomed(b)' <=> \E j \in 1 .. n + 1 : NullClose(queue'[b][j])
      BY <1>2 DEF Doomed
    <2>3. \A j : j \in 1 .. n + 1 <=> j \in 1 .. n \/ j = n + 1
      BY <1>2
    <2> QED BY <1>2, <2>1, <2>2, <2>3
  <1> HIDE DEF m2
  <1>6. Replays(b, m2)'
    <2>1. m2[0] = profiles'[b]
      BY <1>2, <1>3, <1>4
    <2>2. ASSUME NEW j \in 1 .. n + 1
          PROVE  \/ \E x \in 1 .. n + 1 : x <= j /\ NullClose(queue'[b][x])
                 \/ /\ m2[j] = processPacket(m2[j - 1], nullptr, queue'[b][j])
                    /\ \/ ~Dereferences(m2[j - 1], queue'[b][j])
                       \/ queue'[b][j].cmd = "PROFILE" /\ queue'[b][j].payload \in raced
      <3>1. CASE j \in 1 .. n
        <4>1. /\ queue'[b][j] = q[j] /\ m2[j] = m[j] /\ m2[j - 1] = m[j - 1]
              /\ \A x \in 1 .. n : x \in 1 .. n + 1 /\ queue'[b][x] = q[x]
          BY <1>2, <1>4, <3>1
        <4> QED BY <1>3, <3>1, <4>1
      <3>2. CASE j = n + 1
        <4>1. queue'[b][j] = pkt /\ m2[j] = new /\ m2[j - 1] = map
          BY <1>2, <1>3, <1>4, <3>2
        <4>2. CASE Doomed(b) \/ NullClose(pkt)
          <5>1. Doomed(b)'
            BY <1>5, <4>2
          <5> QED BY <1>2, <3>2, <5>1 DEF Doomed
        <4> QED BY <4>1, <4>2
      <3> QED BY <1>2, <3>1, <3>2
    <2> QED BY <1>2, <2>1, <2>2 DEF Replays
  <1>7. CopyOK(b, m2, new)'
    <2>1. up'[primary] = "serving" /\ ~Doomed(b)' => Copies(b, new)'
      BY <1>5
    <2> QED BY <1>2, <1>4, <1>6, <2>1 DEF CopyOK
  <1>8. new \in Maps
    BY DEF Closed
  <1> QED BY <1>2, <1>4, <1>7, <1>8 DEF HasCopy

(* A backup that is handed a packet has a copy that is one map longer. *)
LEMMA ForwardCopy ==
  ASSUME Types, CountInv, PrimaryOK, RacedOK, FollowsOK, CopiesOK,
         NEW t \in Threads, Forward(t), NEW b \in early, b = NextBackup(t), up[b] = "backup"
  PROVE  HasCopy(b)'
  <1>1. PICK pkt : pkt = packet[t]
    OBVIOUS
  <1>2. /\ up[primary] = "serving" /\ b \in Backups /\ Ahead(t, b) /\ pkt # nullptr
        /\ UNCHANGED <<up, packet, pc, counted, profiles, raced>>
        /\ queue' = [queue EXCEPT ![b] = Append(@, packet[t])]
    BY <1>1, Hands DEF Forward, mapVars, listVars
  <1>3. /\ ~Ahead(t, b)' /\ \A c \in Threads : c # t => (Ahead(c, b)' <=> Ahead(c, b))
    BY ForwardAhead
  <1>4. /\ queue[b] \in Seq(Packets) /\ pkt \in Packets /\ queue'[b] = Append(queue[b], pkt)
        /\ profiles'[b] = profiles[b] /\ raced' = raced
    BY <1>1, <1>2 DEF Types, Kinds
  <1>5. PICK m \in [0 .. Len(queue[b]) -> Maps], map \in Maps : CopyOK(b, m, map)
    BY <1>2 DEF CopiesOK, HasCopy
  <1>6. CASE Doomed(b) \/ NullClose(pkt)
    <2> DEFINE new == EmptyMap
    <2>1. Closed(new)
      BY EmptyMapClosed
    <2> HIDE DEF new
    <2> QED BY <1>2, <1>4, <1>5, <1>6, <2>1, LongerCopy
  <1>7. CASE ~(Doomed(b) \/ NullClose(pkt))
    <2>1. PICK new : new = processPacket(map, nullptr, pkt)
      OBVIOUS
    <2>2. Closed(map) /\ Copies(b, map)
      <3>1. Len(queue[b]) \in 0 .. Len(queue[b])
        BY <1>4
      <3> QED BY <1>2, <1>5, <1>7, <3>1 DEF CopyOK
    <2>3. /\ Closed(new)
          /\ ~Dereferences(map, pkt) \/ (pkt.cmd = "PROFILE" /\ pkt.payload \in raced)
      BY <1>1, <1>2, <1>7, <2>1, <2>2, ForwardSafe
    <2>4. Copies(b, new)'
      BY <1>1, <1>2, <1>3, <1>7, <2>1, <2>2, <2>3, ForwardCopies
    <2> QED BY <1>2, <1>4, <1>5, <2>1, <2>3, <2>4, LongerCopy
  <1> QED BY <1>6, <1>7

(* A packet is handed to one backup. *)
LEMMA ForwardKeeps ==
  ASSUME Types, CountInv, CopyInv, NEW t \in Threads, Forward(t)
  PROVE  CopyInv'
  <1>1. /\ MoreBackups(t) /\ UNCHANGED <<up, mapVars, listVars, pc, packet, raced>>
        /\ \A c \in Backups \ {NextBackup(t)} : queue'[c] = queue[c]
        /\ up[NextBackup(t)] = "dead" => queue' = queue
    <2>1. MoreBackups(t) => NextBackup(t) \in Backups
      BY Hands
    <2> QED BY <2>1 DEF Forward, Types, Kinds
  <1>2. up[primary] = "serving"
    BY <1>1, Hands
  <1>3. PrimaryOK /\ RacedOK /\ FollowsOK /\ CopiesOK
    BY DEF CopyInv
  <1>4. Quiet /\ KnownAt(primary)' = KnownAt(primary)
    BY <1>1 DEF Quiet, KnownAt, mapVars
  <1>5. PrimaryOK' /\ RacedOK' /\ FollowsOK'
    BY <1>1, <1>2, <1>3, <1>4, KeepPrimary
  <1>6. ASSUME NEW b \in Backups, b # NextBackup(t)
        PROVE  b \in early' /\ up'[b] = "backup" => HasCopy(b)'
    <2>1. \A c \in Threads : Ahead(c, b)' <=> Ahead(c, b)
      BY <1>6, ForwardAhead
    <2>2. /\ queue'[b] = queue[b] /\ profiles' = profiles /\ packet' = packet /\ early' = early
      BY <1>1, <1>6 DEF mapVars, listVars
    <2>3. \A map : Closed(map) /\ Copies(b, map) => Copies(b, map)'
      <3> SUFFICES ASSUME NEW map, Closed(map), Copies(b, map) PROVE Copies(b, map)'
        OBVIOUS
      <3> QED BY <1>2, <1>3, <1>4, <2>1, <2>2, KeepCopies
    <2> QED BY <1>1, <1>2, <1>3, <2>2, <2>3, KeepsCopy
  <1>7. \A b \in early' : up'[b] = "backup" => HasCopy(b)'
    <2> SUFFICES ASSUME NEW b \in early', up'[b] = "backup" PROVE HasCopy(b)'
      OBVIOUS
    <2>1. b \in early /\ up[b] = "backup" /\ b \in Backups
      BY <1>1 DEF listVars, Types, Kinds
    <2> QED BY <1>3, <1>6, <2>1, ForwardCopy
  <1> QED BY <1>5, <1>7 DEF CopyInv, CopiesOK

-----------------------------------------------------------------------------
(* The steps of the specification.                                         *)

(* A quiet step: the map of the primary stays as it is, apart from inboxes that
   are fetched; a backup in Others is looked at on its own. *)
LEMMA QuietKeeps ==
  ASSUME Types, CountInv, CopyInv, NEW Others,
         raced \subseteq raced',
         up'[primary] = "serving" =>
           /\ up[primary] = "serving" /\ Quiet
           /\ \A t \in Threads : packet'[t] \in {packet[t], nullptr}
           /\ \A p \in KnownAt(primary) : \A o \in Objects :
                SameProfile(o, profiles[primary][p]) => SameProfile(o, profiles'[primary][p]),
         \A b \in early' : up'[b] = "backup" =>
           /\ b \in early /\ up[b] = "backup"
           /\ up'[primary] = "serving" => \A t \in Threads :
                /\ Ahead(t, b) <=> Ahead(t, b)'
                /\ Ahead(t, b) => packet'[t] = packet[t]
           /\ b \notin Others => queue'[b] = queue[b] /\ profiles'[b] = profiles[b]
           /\ b \in Others => HasCopy(b)'
  PROVE  CopyInv'
  <1>1. PrimaryOK /\ RacedOK /\ FollowsOK /\ CopiesOK
    BY DEF CopyInv
  <1>2. PrimaryOK' /\ RacedOK' /\ FollowsOK'
    BY <1>1, KeepPrimary
  <1>3. ASSUME NEW b \in early', up'[b] = "backup" PROVE HasCopy(b)'
    <2>1. b \in Backups
      BY <1>3 DEF Types, Kinds
    <2>2. ASSUME up'[primary] = "serving", NEW map, Closed(map), Copies(b, map) PROVE Copies(b, map)'
      <3>1. /\ up[primary] = "serving" /\ Quiet
            /\ \A p \in KnownAt(primary) : \A o \in Objects :
                 SameProfile(o, profiles[primary][p]) => SameProfile(o, profiles'[primary][p])
        BY <2>2
      <3>2. \A t \in Threads :
              /\ Ahead(t, b) => Ahead(t, b)' /\ packet'[t] = packet[t]
              /\ Ahead(t, b)' => Ahead(t, b) \/ IsList(packet'[t])
        BY <1>3, <2>2
      <3> QED BY <1>1, <2>1, <2>2, <3>1, <3>2, KeepCopies
    <2>3. CASE b \notin Others
      <3>1. /\ b \in early /\ up[b] = "backup"
            /\ queue'[b] = queue[b] /\ profiles'[b] = profiles[b] /\ raced \subseteq raced'
            /\ up'[primary] = "serving" => up[primary] = "serving"
        BY <1>3, <2>3
      <3> QED BY <1>1, <1>3, <2>1, <2>2, <3>1, KeepsCopy
    <2> QED BY <1>3, <2>3
  <1> QED BY <1>2, <1>3 DEF CopyInv, CopiesOK

(* A copy of b that has read a packet. *)
LEMMA ShorterCopy ==
  ASSUME Types, NEW b \in Backups, Receives(b), HasCopy(b),
         ~Dereferences(profiles[b], Head(queue[b])),
         queue'[b] = Tail(queue[b]), raced \subseteq raced',
         profiles'[b] = processPacket(profiles[b], nullptr, Head(queue[b])),
         up'[primary] = "serving" =>
           /\ up[primary] = "serving"
           /\ \A map : Closed(map) /\ Copies(b, map) => Copies(b, map)'
  PROVE  HasCopy(b)'
  <1>1. PICK n, q, pkt : n = Len(queue[b]) /\ q = queue[b] /\ pkt = Head(queue[b])
    OBVIOUS
  <1>2. /\ n \in Nat \ {0} /\ DOMAIN q = 1 .. n /\ pkt = q[1]
        /\ DOMAIN queue'[b] = 1 .. n - 1 /\ Len(queue'[b]) = n - 1
        /\ \A j \in 1 .. n - 1 : queue'[b][j] = q[j + 1]
    <2>1. /\ queue[b] \in Seq(Packets) /\ n \in Nat \ {0} /\ pkt = queue[b][1]
          /\ Tail(queue[b]) \in Seq(Packets) /\ Len(Tail(queue[b])) = n - 1
          /\ \A j \in 1 .. n - 1 : Tail(queue[b])[j] = queue[b][j + 1]
      BY <1>1, Taken
    <2>2. DOMAIN queue[b] = 1 .. n /\ DOMAIN Tail(queue[b]) = 1 .. Len(Tail(queue[b]))
      BY <1>1, <2>1
    <2> QED BY <1>1, <2>1, <2>2
  <1>3. PICK m \in [0 .. n -> Maps], map \in Maps : CopyOK(b, m, map)
    BY <1>1 DEF HasCopy
  <1>4. /\ \A j \in 0 .. n : Closed(m[j])
        /\ m[0] = profiles[b] /\ map = m[n]
        /\ \A j \in 1 .. n :
             \/ \E x \in 1 .. n : x <= j /\ NullClose(q[x])
             \/ /\ m[j] = processPacket(m[j - 1], nullptr, q[j])
                /\ \/ ~Dereferences(m[j - 1], q[j])
                   \/ q[j].cmd = "PROFILE" /\ q[j].payload \in raced
    BY <1>1, <1>2, <1>3 DEF CopyOK, Replays
  <1>5. ~NullClose(q[1])
    BY <1>1, <1>2 DEF NullClose, Dereferences
  <1> DEFINE m2 == [j \in 0 .. n - 1 |-> m[j + 1]]
  <1>6. /\ m2 \in [0 .. n - 1 -> Maps] /\ m2[n - 1] = map
        /\ \A j \in 0 .. n - 1 : m2[j] = m[j + 1] /\ Closed(m2[j])
    <2>1. \A j \in 0 .. n - 1 : j + 1 \in 0 .. n
      BY <1>2
    <2>2. n - 1 \in 0 .. n - 1 /\ (n - 1) + 1 = n
      BY <1>2
    <2> QED BY <1>3, <1>4, <2>1, <2>2
  <1> HIDE DEF m2
  <1>7. Replays(b, m2)'
    <2>1. m2[0] = profiles'[b]
      <3>1. m[1] = processPacket(m[0], nullptr, q[1])
        <4>1. 1 \in 1 .. n /\ 1 - 1 = 0 /\ \A x \in 1 .. n : x <= 1 => x = 1
          BY <1>2
        <4> QED BY <1>4, <1>5, <4>1
      <3>2. 0 \in 0 .. n - 1 /\ 0 + 1 = 1
        BY <1>2
      <3> QED BY <1>1, <1>2, <1>4, <1>6, <3>1, <3>2
    <2>2. ASSUME NEW j \in 1 .. n - 1
          PROVE  \/ \E x \in 1 .. n - 1 : x <= j /\ NullClose(queue'[b][x])
                 \/ /\ m2[j] = processPacket(m2[j - 1], nullptr, queue'[b][j])
                    /\ \/ ~Dereferences(m2[j - 1], queue'[b][j])
                       \/ queue'[b][j].cmd = "PROFILE" /\ queue'[b][j].payload \in raced'
      <3>1. /\ j + 1 \in 1 .. n /\ j \in 0 .. n - 1 /\ j - 1 \in 0 .. n - 1
            /\ (j + 1) - 1 = j /\ (j - 1) + 1 = j
        BY <1>2
      <3>2. queue'[b][j] = q[j + 1] /\ m2[j] = m[j + 1] /\ m2[j - 1] = m[j]
        BY <1>2, <1>6, <3>1
      <3>3. CASE \E x \in 1 .. n : x <= j + 1 /\ NullClose(q[x])
        <4>1. PICK x \in 1 .. n : x <= j + 1 /\ NullClose(q[x])
          BY <3>3
        <4>2. x # 1
          BY <1>5, <4>1
        <4>3. x - 1 \in 1 .. n - 1 /\ x - 1 <= j /\ (x - 1) + 1 = x
          BY <1>2, <4>1, <4>2
        <4>4. NullClose(queue'[b][x - 1])
          BY <1>2, <4>1, <4>3
        <4> QED BY <4>3, <4>4
      <3>4. CASE ~(\E x \in 1 .. n : x <= j + 1 /\ NullClose(q[x]))
        BY <1>4, <3>1, <3>2, <3>4
      <3> QED BY <3>3, <3>4
    <2> QED BY <1>2, <2>1, <2>2 DEF Replays
  <1>8. ASSUME up'[primary] = "serving", ~Doomed(b)' PROVE Copies(b, map)'
    <2>1. ~Doomed(b)
      <3> SUFFICES ASSUME NEW x \in 1 .. n, NullClose(q[x]) PROVE FALSE
        BY <1>1, <1>2 DEF Doomed
      <3>1. x - 1 \in 1 .. n - 1 /\ (x - 1) + 1 = x
        BY <1>2, <1>5
      <3>2. NullClose(queue'[b][x - 1])
        BY <1>2, <3>1
      <3> QED BY <1>2, <1>8, <3>1, <3>2 DEF Doomed
    <2>2. Copies(b, map) /\ Closed(map)
      <3>1. n \in 0 .. n
        BY <1>2
      <3> QED BY <1>3, <1>4, <1>8, <2>1, <3>1 DEF CopyOK
    <2> QED BY <1>8, <2>2
  <1>9. CopyOK(b, m2, map)'
    BY <1>2, <1>6, <1>7, <1>8 DEF CopyOK
  <1> QED BY <1>2, <1>6, <1>9 DEF HasCopy

(* A backup reads a packet: its copy is one map shorter. *)
LEMMA ApplyKeeps ==
  ASSUME Types, CountInv, CopyInv, NEW b \in Backups, Apply(b)
  PROVE  CopyInv'
  <1>1. /\ Receives(b) /\ ~Dereferences(profiles[b], Head(queue[b]))
        /\ queue'[b] = Tail(queue[b]) /\ \A c \in Backups \ {b} : queue'[c] = queue[c]
        /\ profiles'[b] = processPacket(profiles[b], nullptr, Head(queue[b]))
        /\ \A s \in Servers \ {b} : profiles'[s] = profiles[s] /\ counted'[s] = counted[s]
        /\ UNCHANGED <<up, listBackups, early, packet, i, pc, raced>>
    BY Members DEF Apply, Types, Kinds, threadVars
  <1>2. /\ primary \in Servers \ {b} /\ Backups \subseteq Servers
        /\ PrimaryOK /\ RacedOK /\ CopiesOK
    BY Members DEF CopyInv
  <1>3. Quiet
    BY <1>1, <1>2 DEF Quiet, KnownAt
  <1>4. \A t : \A d : Ahead(t, d) <=> Ahead(t, d)'
    BY <1>1 DEF Ahead
  <1>5. ASSUME b \in early, up[b] = "backup" PROVE HasCopy(b)'
    <2>1. ASSUME up'[primary] = "serving", NEW map, Closed(map), Copies(b, map) PROVE Copies(b, map)'
      BY <1>1, <1>2, <1>3, <1>4, <2>1, KeepCopies
    <2> QED BY <1>1, <1>2, <1>5, <2>1, ShorterCopy DEF CopiesOK
  <1>6. early' \subseteq Backups
    BY <1>1 DEF Types, Kinds
  <1> DEFINE O == {b}
  <1>7. \A c : c \in O <=> c = b
    OBVIOUS
  <1> HIDE DEF O
  <1> QED BY <1>1, <1>2, <1>3, <1>4, <1>5, <1>6, <1>7, QuietKeeps

(* A server dies: the primary, and nothing is compared with it any more, or
   another one, that has no threads that forward. *)
LEMMA DeathKeeps ==
  ASSUME Types, CountInv, CopyInv, NEW s \in Servers, Death(s),
         \A b \in Backups \ {s} : queue'[b] = queue[b]
  PROVE  CopyInv'
  <1>1. /\ up' = [up EXCEPT ![s] = "dead"]
        /\ profiles' = [profiles EXCEPT ![s] = EmptyMap]
        /\ counted' = [counted EXCEPT ![s] = {}]
        /\ listBackups' = [listBackups EXCEPT ![s] = <<>>]
        /\ early' = early \ {s} /\ raced' = raced
        /\ packet' = [t \in Threads |-> IF ServerOf(t) = s THEN nullptr ELSE packet[t]]
        /\ i' = [t \in Threads |-> IF ServerOf(t) = s THEN 1 ELSE i[t]]
        /\ pc' = [t \in Threads |->
                     IF ServerOf(t) # s \/ pc[t] = "out" THEN pc[t]
                     ELSE IF t \in Backups \/ pc[t] \in {"closing", "ended"} THEN "ended"
                     ELSE "idle"]
    BY DEF Death
  <1>2. /\ up'[s] = "dead" /\ \A r \in Servers \ {s} : up'[r] = up[r]
        /\ \A r \in Servers \ {s} : /\ profiles'[r] = profiles[r] /\ counted'[r] = counted[r]
                                    /\ listBackups'[r] = listBackups[r]
    BY <1>1 DEF Types, Kinds
  <1>3. ASSUME up'[primary] = "serving"
        PROVE  /\ s # primary /\ up[primary] = "serving"
               /\ \A t \in Threads : packet'[t] = packet[t] /\ i'[t] = i[t] /\ pc'[t] = pc[t]
    <2>1. s # primary /\ up[primary] = "serving"
      BY <1>2, <1>3, Members
    <2>2. \A t \in Threads : ServerOf(t) = primary
      BY <2>1, PrimaryFacts, Members DEF ServerOf
    <2> QED BY <1>1, <2>1, <2>2
  <1>4. up'[primary] = "serving" => Quiet /\ profiles'[primary] = profiles[primary]
    BY <1>1, <1>2, <1>3, Members DEF Quiet, KnownAt
  <1>5. ASSUME up'[primary] = "serving"
        PROVE  \A t \in Threads : \A d : Ahead(t, d) <=> Ahead(t, d)'
    BY <1>2, <1>3, <1>5, Members DEF Ahead
  <1>6. \A b \in early' : b \in early /\ b # s /\ b \in Backups /\ b \in Servers
    BY <1>1, Members DEF Types, Kinds
  <1>7. \A b \in early' : up'[b] = "backup" =>
          /\ b \in early /\ up[b] = "backup"
          /\ up'[primary] = "serving" => \A t \in Threads :
               /\ Ahead(t, b) <=> Ahead(t, b)'
               /\ Ahead(t, b) => packet'[t] = packet[t]
          /\ queue'[b] = queue[b] /\ profiles'[b] = profiles[b]
    BY <1>2, <1>3, <1>5, <1>6
  <1>8. up'[primary] = "serving" =>
          /\ up[primary] = "serving" /\ Quiet
          /\ \A t \in Threads : packet'[t] \in {packet[t], nullptr}
          /\ \A p \in KnownAt(primary) : \A o \in Objects :
               SameProfile(o, profiles[primary][p]) => SameProfile(o, profiles'[primary][p])
    BY <1>3, <1>4
  <1>9. raced \subseteq raced'
    BY <1>1
  <1> DEFINE O == {}
  <1>10. \A b : b \notin O
    OBVIOUS
  <1> HIDE DEF O
  <1> QED BY <1>7, <1>8, <1>9, <1>10, QuietKeeps

(* Every way in which a server dies. *)
LEMMA DeathsKeep ==
  ASSUME Types, CountInv, CopyInv
  PROVE  /\ \A t \in Threads : ForwardDies(t) => CopyInv'
         /\ \A k \in Clients : FetchDies(k) => CopyInv'
         /\ \A k \in Clients : \A s \in Servers : ReconnectDies(k, s) => CopyInv'
         /\ \A b \in Backups : JoinDies(b) => CopyInv'
         /\ \A b \in Backups : ApplyDies(b) => CopyInv'
         /\ Kill => CopyInv'
  <1>1. ASSUME NEW s \in Servers, Death(s), UNCHANGED netVars PROVE CopyInv'
    BY <1>1, DeathKeeps DEF netVars
  <1>2. ASSUME NEW b \in Backups, ApplyDies(b) PROVE CopyInv'
    <2>1. Death(b) /\ queue' = [queue EXCEPT ![b] = <<>>]
      BY <1>2 DEF ApplyDies
    <2>2. \A c \in Backups \ {b} : queue'[c] = queue[c]
      BY <2>1 DEF Types, Kinds
    <2> QED BY <2>1, <2>2, Members, DeathKeeps
  <1>3. \A k \in Clients : at[k] \in Servers
    BY DEF Types, Kinds
  <1>4. \A t \in Threads : ServerOf(t) \in Servers
    BY ServerOfOK DEF Types
  <1> QED
    BY <1>1, <1>2, <1>3, <1>4, Members DEF ForwardDies, FetchDies, ReconnectDies, JoinDies, Kill

(* QuietKeeps for a step that leaves the backups alone. *)
LEMMA LonelyKeeps ==
  ASSUME Types, CountInv, CopyInv, raced' = raced, early' \subseteq early,
         \A b \in early : up'[b] = "backup" => up[b] = "backup",
         up'[primary] = "serving" =>
           /\ up[primary] = "serving" /\ Quiet
           /\ \A t \in Threads : packet'[t] \in {packet[t], nullptr}
           /\ \A p \in KnownAt(primary) : \A o \in Objects :
                SameProfile(o, profiles[primary][p]) => SameProfile(o, profiles'[primary][p])
           /\ \A t \in Threads : \A d : Ahead(t, d)' <=> Ahead(t, d)
           /\ \A t \in Threads : \A d : Ahead(t, d) => packet'[t] = packet[t],
         queue' = queue,
         \A b \in early : up[b] = "backup" => profiles'[b] = profiles[b]
  PROVE  CopyInv'
  <1>1. \A b \in early' : up'[b] = "backup" =>
          /\ b \in early /\ up[b] = "backup"
          /\ up'[primary] = "serving" => \A t \in Threads :
               /\ Ahead(t, b) <=> Ahead(t, b)'
               /\ Ahead(t, b) => packet'[t] = packet[t]
          /\ queue'[b] = queue[b] /\ profiles'[b] = profiles[b]
    OBVIOUS
  <1>2. up'[primary] = "serving" =>
          /\ up[primary] = "serving" /\ Quiet
          /\ \A t \in Threads : packet'[t] \in {packet[t], nullptr}
          /\ \A p \in KnownAt(primary) : \A o \in Objects :
               SameProfile(o, profiles[primary][p]) => SameProfile(o, profiles'[primary][p])
    OBVIOUS
  <1>3. raced \subseteq raced'
    OBVIOUS
  <1> DEFINE O == {}
  <1>4. \A b : b \notin O
    OBVIOUS
  <1> HIDE DEF O
  <1> QED BY <1>1, <1>2, <1>3, <1>4, QuietKeeps

(* A walk ends: every backup of the vector has been handed the packet. *)
LEMMA EndForwardKeeps ==
  ASSUME Types, CountInv, CopyInv, NEW t \in Threads, EndForward(t)
  PROVE  CopyInv'
  <1>1. /\ Forwarding(t) /\ ~MoreBackups(t)
        /\ UNCHANGED <<up, mapVars, listVars, netVars, at, raced>>
        /\ packet'[t] = nullptr /\ \A c \in Threads \ {t} : packet'[c] = packet[c] /\ i'[c] = i[c] /\ pc'[c] = pc[c]
        /\ pc'[t] = CASE t \in Backups \/ pc[t] = "closing" -> "ended"
                      [] packet[t].cmd = "PROFILE"           -> "fetch"
                      [] OTHER                               -> "idle"
    BY DEF EndForward, Types, Kinds
  <1>2. /\ pc[t] \in {"forward", "closing"}
        /\ pc[t] = "closing" /\ t \in Clients => pc'[t] = "ended"
        /\ pc[t] = "forward" /\ t \in Clients => pc'[t] \in {"fetch", "idle"}
    <2>1. pc[t] \in {"forward", "closing"}
      BY <1>1 DEF Forwarding
    <2>2. ASSUME pc[t] = "closing", t \in Clients PROVE pc'[t] = "ended"
      <3>1. packet[t].cmd # "PROFILE"
        BY <2>2 DEF Types, PacketsOK
      <3> QED BY <1>1, <2>2, <3>1
    <2>3. ASSUME pc[t] = "forward", t \in Clients PROVE pc'[t] \in {"fetch", "idle"}
      <3>1. ~(t \in Backups \/ pc[t] = "closing")
        BY <2>3, Members
      <3>2. CASE packet[t].cmd = "PROFILE"
        BY <1>1, <3>1, <3>2
      <3>3. CASE packet[t].cmd # "PROFILE"
        BY <1>1, <3>1, <3>3
      <3> QED BY <3>2, <3>3
    <2> QED BY <2>1, <2>2, <2>3
  <1>3. /\ profiles' = profiles /\ counted' = counted /\ KnownAt(primary)' = KnownAt(primary)
        /\ listBackups' = listBackups /\ early' = early /\ up' = up /\ raced' = raced /\ queue' = queue
    BY <1>1 DEF mapVars, listVars, netVars, KnownAt
  <1>4. Quiet
    BY <1>1, <1>2, <1>3, Members DEF Quiet
  <1>5. ASSUME up[primary] = "serving", NEW c \in Threads, NEW d
        PROVE  Ahead(c, d)' <=> Ahead(c, d) /\ c # t
    <2>1. ServerOf(t) = primary
      BY <1>5, PrimaryFacts, Members DEF ServerOf
    <2>2. \A x \in DOMAIN listBackups[primary] : ~(i[t] <= x)
      <3>1. listBackups[primary] \in Seq(Backups) /\ i[t] \in Nat
        BY Members DEF Types, Kinds
      <3>2. ~(i[t] <= Len(listBackups[primary]))
        BY <1>1, <2>1 DEF MoreBackups
      <3> QED BY <3>1, <3>2
    <2>3. ~Ahead(t, d) /\ ~Ahead(t, d)'
      BY <1>1, <2>2 DEF Ahead
    <2> QED BY <1>1, <1>3, <2>3 DEF Ahead
  <1>6. ASSUME up[primary] = "serving", NEW c \in Threads, NEW d
        PROVE  (Ahead(c, d)' <=> Ahead(c, d)) /\ (Ahead(c, d) => packet'[c] = packet[c])
    <2>1. ~Ahead(t, d)
      <3>1. Ahead(t, d)' => FALSE
        BY <1>1 DEF Ahead
      <3>2. ServerOf(t) = primary
        BY <1>6, PrimaryFacts, Members DEF ServerOf
      <3>3. listBackups[primary] \in Seq(Backups) /\ i[t] \in Nat
        BY Members DEF Types, Kinds
      <3>4. ~(i[t] <= Len(listBackups[primary]))
        BY <1>1, <3>2 DEF MoreBackups
      <3> QED BY <3>3, <3>4 DEF Ahead
    <2> QED BY <1>1, <1>5, <1>6, <2>1
  <1>7. \A c \in Threads : packet'[c] \in {packet[c], nullptr}
    BY <1>1
  <1> QED BY <1>3, <1>4, <1>6, <1>7, LonelyKeeps

(* A login that finds no session free changes no map. *)
LEMMA LoginRefusedKeeps ==
  ASSUME Types, CountInv, CopyInv, NEW k \in Clients, LoginRefused(k)
  PROVE  CopyInv'
  <1>1. /\ pc[k] = "out"
        /\ UNCHANGED <<up, profiles, counted, listVars, netVars, at, packet, i, raced>>
        /\ pc'[k] = "ended" /\ \A c \in Clients \ {k} : pc'[c] = pc[c]
    BY Members DEF LoginRefused, Types, Kinds
  <1>2. Quiet
    BY <1>1 DEF Quiet, KnownAt
  <1>3. \A t : \A d : Ahead(t, d)' <=> Ahead(t, d)
    BY <1>1 DEF Ahead, listVars
  <1> QED BY <1>1, <1>2, <1>3, LonelyKeeps DEF listVars, netVars

(* What a client fetches leaves the primary's inbox and stays in the copies:
   the one difference that nothing mends. *)
LEMMA FetchKeeps ==
  ASSUME Types, CountInv, CopyInv, NEW k \in Clients, Fetch(k)
  PROVE  CopyInv'
  <1> DEFINE p == profileOf[k]
  <1>1. PICK s \in Servers : s = at[k]
    BY DEF Types, Kinds
  <1>2. /\ pc[k] = "fetch" /\ up[s] = "serving"
        /\ profiles' = [profiles EXCEPT ![s][p] = emptied(@)]
        /\ pc'[k] = "idle" /\ \A c \in Clients \ {k} : pc'[c] = pc[c]
        /\ UNCHANGED <<up, counted, listVars, netVars, at, packet, i, raced>>
    BY <1>1, Members DEF Fetch, Types, Kinds
  <1>3. \A r \in Servers \ {s} : profiles'[r] = profiles[r]
    BY <1>2 DEF Types, Kinds
  <1>4. ASSUME up[primary] = "serving"
        PROVE  /\ KnownAt(primary)' = KnownAt(primary)
               /\ \A q \in KnownAt(primary) :
                    /\ profiles'[primary][q].sessions_on = profiles[primary][q].sessions_on
                    /\ profiles'[primary][q].sessions = profiles[primary][q].sessions
                    /\ profiles'[primary][q].followers = profiles[primary][q].followers
                    /\ \A o \in Objects :
                         SameProfile(o, profiles[primary][q]) => SameProfile(o, profiles'[primary][q])
    <2>1. s = primary
      BY <1>1, <1>4, PrimaryFacts
    <2>2. p \in KnownAt(primary) /\ p \in ProfileIds /\ profiles[primary][p] \in Objects
      BY <1>2, <1>4, PrimaryFacts
    <2>3. profiles[primary] \in Maps
      BY Members DEF Types, Kinds
    <2> DEFINE o1 == emptied(profiles[primary][p])
    <2>4. profiles'[primary] = [profiles[primary] EXCEPT ![p] = o1]
      BY <1>2, <2>1, Members DEF Types, Kinds
    <2>5. /\ o1 # nullptr
          /\ o1.sessions_on = profiles[primary][p].sessions_on
          /\ o1.sessions = profiles[primary][p].sessions
          /\ o1.followers = profiles[primary][p].followers
          /\ o1.inbox = <<>>
      <3>1. o1 \in Objects
        BY <2>2, Emptied
      <3>2. nullptr \in ConnsOrNull
        BY DEF ConnsOrNull
      <3> QED BY <2>2, <3>1, <3>2, Methods, ObjectIsNotNull
    <2>6. /\ profiles'[primary][p] = o1
          /\ \A q \in ProfileIds \ {p} : profiles'[primary][q] = profiles[primary][q]
      BY <2>2, <2>3, <2>4 DEF Maps
    <2> HIDE DEF o1
    <2>7. KnownAt(primary)' = KnownAt(primary)
      BY <2>2, <2>5, <2>6 DEF KnownAt
    <2>8. \A o \in Objects :
            SameProfile(o, profiles[primary][p]) => SameProfile(o, profiles'[primary][p])
      <3> TAKE o \in Objects
      <3>1. o.inbox \in Seq(Clients \X Nat)
        BY DEF Objects
      <3>2. IsSuffix(<<>>, o.inbox)
        BY <3>1, EmptySuffix
      <3> QED BY <2>5, <2>6, <3>2 DEF SameProfile
    <2>9. \A q \in KnownAt(primary) : q \in ProfileIds
      BY DEF KnownAt
    <2> HIDE DEF p
    <2> QED BY <2>5, <2>6, <2>7, <2>8, <2>9
  <1>5. up[primary] = "serving" => Quiet
    BY <1>2, <1>4 DEF Quiet
  <1>6. \A t : \A d : Ahead(t, d)' <=> Ahead(t, d)
    BY <1>2 DEF Ahead, listVars
  <1>7. \A b \in early : up[b] = "backup" => profiles'[b] = profiles[b]
    BY <1>2, <1>3, Members DEF Types, Kinds
  <1> HIDE DEF p
  <1> QED BY <1>2, <1>4, <1>5, <1>6, <1>7, LonelyKeeps DEF listVars, netVars

(* A backup announces itself, or takes over. *)
LEMMA BackupStepKeeps ==
  ASSUME Types, CountInv, CopyInv, NEW b \in Backups, SetBackup(b) \/ Promote(b)
  PROVE  CopyInv'
  <1>1. /\ \A c \in Servers \ {b} : up'[c] = up[c]
        /\ up[b] = "backup" \/ (up[b] = "off" /\ up'[b] = "backup")
        /\ up[b] = "backup" => up'[b] = "serving"
        /\ \A t \in Clients : pc'[t] = pc[t]
        /\ UNCHANGED <<mapVars, listVars, netVars, at, packet, i, raced>>
    BY Members DEF SetBackup, Promote, Types, Kinds, threadVars
  <1>2. up[b] = "off" => b \notin early
    BY DEF Types, Places, CountInv, Vectors
  <1>3. Quiet
    BY <1>1 DEF Quiet, KnownAt, mapVars
  <1>4. \A t : \A d : Ahead(t, d)' <=> Ahead(t, d)
    BY <1>1 DEF Ahead, listVars
  <1>5. primary \in Servers \ {b} /\ early \subseteq Servers
    BY Members DEF Types, Kinds
  <1> QED BY <1>1, <1>2, <1>3, <1>4, <1>5, LonelyKeeps DEF listVars, netVars, mapVars

(* A client goes to a server that was promoted: the primary is gone. *)
LEMMA MoveKeeps ==
  ASSUME Types, CountInv, CopyInv, NEW k \in Clients, NEW s \in Servers,
         Reconnect(k, s) \/ StartClient(k, s)
  PROVE  CopyInv'
  <1>1. /\ up[at[k]] = "dead" /\ up[s] = "serving"
        /\ \A r \in Servers \ {s} : profiles'[r] = profiles[r]
        /\ UNCHANGED <<up, counted, listVars, netVars, packet, i, raced>>
    BY DEF Reconnect, StartClient, Returns, Types, Kinds, mapVars
  <1>2. up[primary] # "serving"
    BY <1>1, PrimaryFacts
  <1>3. \A b \in early : up[b] = "backup" => profiles'[b] = profiles[b]
    BY <1>1, Members DEF Types, Kinds
  <1> QED BY <1>1, <1>2, <1>3, LonelyKeeps DEF listVars, netVars

(* A command of a client of the primary. *)
LEMMA CarriesKeeps ==
  ASSUME Types, CountInv, CopyInv, NEW k \in Clients, NEW pkt, NEW eff, Carries(k, pkt, eff)
  PROVE  CopyInv'
  <1>1. PrimaryOK /\ RacedOK /\ FollowsOK /\ CopiesOK /\ up[primary] = "serving"
    BY DEF CopyInv, Carries
  <1>2. PrimaryOK' /\ FollowsOK'
    BY <1>1, CarriesPrimary
  <1>3. RacedOK' /\ raced \subseteq raced'
    BY <1>1, CarriesTouches
  <1>4. ASSUME NEW b \in early', up'[b] = "backup" PROVE HasCopy(b)'
    <2>1. /\ b \in Backups /\ b \in early /\ up[b] = "backup" /\ queue'[b] = queue[b]
          /\ profiles'[b] = profiles[b]
      BY <1>4, Members DEF Carries, listVars, netVars, Types, Kinds
    <2>2. \E x \in DOMAIN listBackups[primary] : listBackups[primary][x] = b
      BY <1>1, <2>1 DEF CountInv, Vectors
    <2>3. ASSUME NEW map, Closed(map), Copies(b, map) PROVE Copies(b, map)'
      BY <1>1, <2>1, <2>2, <2>3, CarriesCopy
    <2> QED BY <1>1, <1>3, <1>4, <2>1, <2>3, KeepsCopy
  <1> QED BY <1>2, <1>3, <1>4 DEF CopyInv, CopiesOK

(* A command of a client of a server that was promoted: the primary is gone. *)
LEMMA ElsewhereKeeps ==
  ASSUME Types, CountInv, CopyInv, NEW s \in Servers, s # primary, up[s] = "serving",
         \A r \in Servers \ {s} : profiles'[r] = profiles[r],
         up' = up, queue' = queue, early' = early, raced \subseteq raced'
  PROVE  CopyInv'
  <1>1. up[primary] # "serving"
    BY Members DEF Types, Places
  <1>2. PrimaryOK' /\ RacedOK' /\ FollowsOK'
    BY <1>1 DEF PrimaryOK, RacedOK, FollowsOK
  <1>3. ASSUME NEW b \in early', up'[b] = "backup" PROVE HasCopy(b)'
    <2>1. b \in Backups /\ b \in early /\ up[b] = "backup" /\ b \in Servers \ {s}
      BY <1>3, Members DEF Types, Kinds
    <2> QED BY <1>1, <1>3, <2>1, KeepsCopy DEF CopyInv
  <1> QED BY <1>2, <1>3 DEF CopyInv, CopiesOK

(* The history of overlapping commands only grows. *)
LEMMA RacedGrows ==
  ASSUME NEW t, NEW pkt, StartForward(t, pkt)
  PROVE  raced \subseteq raced'
  BY DEF StartForward

(* A command, on the primary or on a server that was promoted. *)
LEMMA CommandKeeps ==
  ASSUME Types, CountInv, CopyInv, NEW k \in Clients, NEW pkt \in Packets, NEW eff,
         FromClient(pkt, k), FromClient(eff, k), eff.cmd = pkt.cmd, pkt = eff \/ NullClose(pkt),
         eff.cmd = "CLOSE_CONN" => eff.sender = profileOf[k],
         pc[k] \in {"out", "idle"}, eff.cmd = "PROFILE" <=> pc[k] = "out",
         eff.cmd = "PROFILE" => ~refuses(profiles[at[k]], profileOf[k]),
         eff.cmd = "FOLLOW" => eff.payload # eff.sender,
         up[at[k]] = "serving",
         profiles' = [profiles EXCEPT ![at[k]] = processPacket(@, k, eff)],
         counted' = [counted EXCEPT ![at[k]] = countedAfter(@, eff)],
         StartForward(k, pkt),
         UNCHANGED <<up, listVars, netVars, at>>
  PROVE  CopyInv'
  <1>1. PICK s \in Servers : s = at[k]
    BY DEF Types, Kinds
  <1>2. /\ profiles'[s] = processPacket(profiles[s], k, eff)
        /\ \A r \in Servers \ {s} : profiles'[r] = profiles[r]
        /\ counted'[s] = countedAfter(counted[s], eff)
    BY <1>1 DEF Types, Kinds
  <1>3. packet[k] = nullptr
    BY NothingToForward
  <1>4. CASE s = primary
    <2>1. counted'[primary] = IF eff.cmd = "PROFILE" THEN counted[primary] \cup {k} ELSE counted[primary]
      BY <1>2, <1>4 DEF countedAfter, FromClient
    <2>2. Carries(k, pkt, eff)
      BY <1>1, <1>2, <1>3, <1>4, <2>1 DEF Carries
    <2> QED BY <2>2, CarriesKeeps
  <1>5. CASE s # primary
    BY <1>1, <1>2, <1>5, RacedGrows, ElsewhereKeeps DEF listVars, netVars
  <1> QED BY <1>4, <1>5

(* PROFILE. *)
LEMMA LoginKeeps ==
  ASSUME Types, CountInv, CopyInv, NEW k \in Clients, Login(k)
  PROVE  CopyInv'
  <1> DEFINE pkt == Packet("PROFILE", profileOf[k], nullptr, k)
  <1>1. pkt \in Packets /\ FromClient(pkt, k) /\ pkt.cmd = "PROFILE"
    BY ClientPackets
  <1>2. pc[k] = "out" /\ ~refuses(profiles[at[k]], profileOf[k]) /\ CarryOut(k, pkt)
    BY DEF Login
  <1> HIDE DEF pkt
  <1> QED BY <1>1, <1>2, CommandKeeps DEF CarryOut

(* FOLLOW. *)
LEMMA FollowKeeps ==
  ASSUME Types, CountInv, CopyInv, NEW k \in Clients, NEW p \in ProfileIds \ {profileOf[k]}, Follow(k, p)
  PROVE  CopyInv'
  <1> DEFINE pkt == Packet("FOLLOW", p, profileOf[k], k)
  <1>1. pkt \in Packets /\ FromClient(pkt, k) /\ pkt.cmd = "FOLLOW" /\ pkt.payload # pkt.sender
    <2>1. pkt.payload = p /\ pkt.sender = profileOf[k]
      BY DEF Packet
    <2> QED BY <2>1, ClientPackets
  <1>2. pc[k] = "idle" /\ CarryOut(k, pkt)
    BY DEF Follow, Command
  <1> HIDE DEF pkt
  <1> QED BY <1>1, <1>2, CommandKeeps DEF CarryOut

(* SEND. *)
LEMMA TweetKeeps ==
  ASSUME Types, CountInv, CopyInv, NEW k \in Clients, Tweet(k)
  PROVE  CopyInv'
  <1> DEFINE n == inputs[k] + 1
             pkt == Packet("SEND", <<k, n>>, profileOf[k], k)
  <1>0. n \in Nat
    BY DEF Types, Kinds
  <1>1. pc[k] = "idle" /\ CarryOut(k, pkt)
    BY DEF Tweet, Command
  <1> HIDE DEF n
  <1>2. pkt \in Packets /\ FromClient(pkt, k) /\ pkt.cmd = "SEND"
    BY <1>0, ClientPackets
  <1> HIDE DEF pkt
  <1> QED BY <1>1, <1>2, CommandKeeps DEF CarryOut

(* CLOSE_CONN, with or without a sender. *)
LEMMA CloseKeeps ==
  ASSUME Types, CountInv, CopyInv, NEW k \in Clients, Close(k)
  PROVE  CopyInv'
  <1> DEFINE named == Packet("CLOSE_CONN", nullptr, profileOf[k], k)
             unnamed == [named EXCEPT !.sender = nullptr]
  <1>1. /\ pc[k] = "idle" /\ up[at[k]] = "serving"
        /\ profiles' = [profiles EXCEPT ![at[k]] = processPacket(@, k, named)]
        /\ StartForward(k, named) \/ StartForward(k, unnamed)
        /\ UNCHANGED <<up, counted, listVars, netVars, at>>
    BY DEF Close
  <1>2. /\ named \in Packets /\ FromClient(named, k) /\ named.cmd = "CLOSE_CONN" /\ named.sender = profileOf[k]
        /\ unnamed \in Packets /\ FromClient(unnamed, k) /\ unnamed.cmd = "CLOSE_CONN"
        /\ unnamed.sender = nullptr
    <2>1. unnamed.sender = nullptr
      BY DEF Packet
    <2> QED BY <2>1, ClientPackets
  <1> HIDE DEF named, unnamed
  <1>3. counted' = [counted EXCEPT ![at[k]] = countedAfter(@, named)]
    BY <1>1, <1>2 DEF countedAfter, Types, Kinds
  <1>4. NullClose(unnamed)
    BY <1>2 DEF NullClose
  <1>5. PICK pkt \in {named, unnamed} : StartForward(k, pkt)
    BY <1>1
  <1> QED BY <1>1, <1>2, <1>3, <1>4, <1>5, CommandKeeps

(* A backup that joins an empty map. *)
LEMMA EmptyCopy ==
  ASSUME Types, CountInv, up[primary] = "serving", NEW b \in Backups, KnownAt(primary) = {},
         KnownAt(b) = {}, queue'[b] = <<>>, profiles' = profiles, counted' = counted
  PROVE  HasCopy(b)'
  <1>1. /\ \A p \in ProfileIds : profiles[primary][p] = nullptr
        /\ counted[primary] = {}
    BY PrimaryFacts DEF KnownAt
  <1>2. profiles[b] = EmptyMap
    <2>1. profiles[b] \in Maps /\ \A p \in ProfileIds : profiles[b][p] = nullptr
      BY Members DEF Types, Kinds, KnownAt
    <2> QED BY <2>1 DEF Maps, EmptyMap
  <1>3. EmptyMap \in Maps /\ Closed(EmptyMap) /\ Names(EmptyMap) = {}
    BY EmptyMapClosed DEF Closed
  <1>4. \A a \in ProfileIds : /\ Followers(EmptyMap, a) = {} /\ Followers(profiles[primary], a) = {}
                              /\ EmptyMap[a] = nullptr
    BY <1>1 DEF EmptyMap, Followers
  <1>5. Copies(b, EmptyMap)'
    <2>1. NamesArrived(b, EmptyMap)'
      BY <1>1, <1>4 DEF NamesArrived, Arrived
    <2>2. SessionsArrived(b, EmptyMap)'
      BY <1>3 DEF SessionsArrived
    <2>3. \A p \in ProfileIds : FollowersArrived(b, EmptyMap, p)'
      BY <1>4 DEF FollowersArrived
    <2>4. KnownAt(primary)' = {}
      BY <1>1 DEF KnownAt
    <2> QED BY <2>1, <2>2, <2>3, <2>4 DEF Copies
  <1> DEFINE m == [j \in 0 .. 0 |-> EmptyMap]
  <1>6. /\ m \in [0 .. 0 -> Maps] /\ m[0] = EmptyMap /\ \A j \in 0 .. 0 : Closed(m[j])
        /\ Len(queue'[b]) = 0 /\ DOMAIN queue'[b] = {}
    BY <1>3
  <1> HIDE DEF m
  <1>7. CopyOK(b, m, EmptyMap)'
    BY <1>2, <1>5, <1>6 DEF CopyOK, Replays
  <1> QED BY <1>3, <1>6, <1>7 DEF HasCopy

(* A backup joins: with an empty map if nobody has logged in, else it is not
   early and nothing is claimed of it. *)
LEMMA JoinKeeps ==
  ASSUME Types, CountInv, CopyInv, NEW b \in Backups, Join(b)
  PROVE  CopyInv'
  <1> DEFINE pkt == Packet("BACKUP_PROPAGATION", electionServerList'[primary], nullptr, nullptr)
             l == listBackups[primary]
             r == listBackups'[primary]
  <1>1. /\ pc[b] = "joining" /\ up[primary] = "serving"
        /\ \/ /\ listBackups' = [listBackups EXCEPT ![primary] = Append(@, b)]
              /\ early' = IF KnownAt(primary) = {} THEN early \cup {b} ELSE early
           \/ UNCHANGED <<listBackups, early>>
        /\ StartForward(b, pkt)
        /\ UNCHANGED <<up, mapVars, netVars, at>>
    BY DEF Join, serverListToString
  <1>2. /\ queue' = queue /\ up' = up /\ counted' = counted /\ profiles' = profiles
        /\ KnownAt(primary)' = KnownAt(primary)
        /\ PrimaryOK /\ RacedOK /\ FollowsOK /\ CopiesOK
    BY <1>1 DEF mapVars, netVars, KnownAt, CopyInv
  <1>3. pkt \in Packets /\ IsList(pkt) /\ WellFormed(pkt) /\ pkt.cmd = "BACKUP_PROPAGATION"
    <2>1. electionServerList'[primary] \in Seq(Backups)
      BY JoinTypes, Members DEF Types, Kinds
    <2> QED BY <2>1 DEF Packet, Packets, Payloads, Commands, IsList, WellFormed
  <1> HIDE DEF pkt
  <1>4. /\ b \in Threads /\ ServerOf(b) = primary /\ packet[b] = nullptr
        /\ packet'[b] = pkt /\ \A t \in Threads \ {b} : packet'[t] = packet[t] /\ i'[t] = i[t] /\ pc'[t] = pc[t]
    BY <1>1, StartsForward, Members DEF ServerOf, Types, PacketsOK
  <1>5. \A k \in Clients : packet'[k] = packet[k] /\ pc'[k] = pc[k]
    BY <1>4, Members
  <1>6. RacedOK' /\ raced \subseteq raced'
    <2> DEFINE T == {nullptr}
    <2>1. T = Touched(profiles[primary], pkt) /\ T = Touched(profiles'[primary], pkt)
      BY <1>3 DEF Touched
    <2>2. \A u \in Threads : Touched(profiles'[primary], packet[u]) = Under(u)
      BY <1>2 DEF Under
    <2>3. pkt.cmd # "SEND"
      BY <1>3
    <2> HIDE DEF T
    <2> QED BY <1>1, <1>2, <1>3, <1>4, <2>1, <2>2, <2>3, StartRaced
  <1>7. Quiet
    BY <1>2, <1>5, <1>6 DEF Quiet
  <1>8. PrimaryOK' /\ FollowsOK'
    BY <1>1, <1>2, <1>5, <1>6, <1>7, KeepPrimary
  <1>9. /\ \A c \in Backups \ {b} : \A x \in DOMAIN l : l[x] = c => x \in DOMAIN r /\ r[x] = c
        /\ \A c \in Backups \ {b} : \A x \in DOMAIN r : r[x] = c => x \in DOMAIN l /\ l[x] = c
        /\ b \notin early /\ queue[b] = <<>> /\ KnownAt(b) = {}
        /\ early' = early \/ (early' = early \cup {b} /\ KnownAt(primary) = {})
    <2>1. l \in Seq(Backups) /\ listBackups \in [Servers -> Seq(Backups)]
      BY Members DEF Types, Kinds
    <2> DEFINE n == Len(l)
               a == Append(l, b)
    <2>2. /\ n \in Nat /\ DOMAIN l = 1 .. n /\ DOMAIN a = 1 .. n + 1
          /\ a[n + 1] = b /\ \A x \in 1 .. n : a[x] = l[x]
      BY <2>1
    <2>3. r = a \/ r = l
      BY <1>1, <2>1, Members
    <2>4. early' = early \/ (early' = early \cup {b} /\ KnownAt(primary) = {})
      BY <1>1
    <2>5. b \notin early /\ queue[b] = <<>> /\ KnownAt(b) = {}
      BY <1>1 DEF CountInv, Vectors
    <2> HIDE DEF n, a, l, r
    <2>6. \A x : x \in 1 .. n + 1 <=> x \in 1 .. n \/ x = n + 1
      BY <2>2
    <2> QED BY <2>2, <2>3, <2>4, <2>5, <2>6
  <1>10. ASSUME NEW c \in Backups \ {b}, NEW t \in Threads
         PROVE  /\ Ahead(t, c) => Ahead(t, c)' /\ packet'[t] = packet[t]
                /\ Ahead(t, c)' => Ahead(t, c) \/ IsList(packet'[t])
    BY <1>3, <1>4, <1>9 DEF Ahead
  <1>11. ASSUME NEW c \in early', up'[c] = "backup" PROVE HasCopy(c)'
    <2>1. CASE c = b
      <3>1. KnownAt(primary) = {} /\ queue'[b] = <<>> /\ KnownAt(b) = {}
        BY <1>2, <1>9, <1>11, <2>1
      <3> QED BY <1>1, <1>2, <2>1, <3>1, EmptyCopy
    <2>2. CASE c # b
      <3>1. c \in early /\ c \in Backups \ {b} /\ up[c] = "backup"
        BY <1>2, <1>9, <1>11, <2>2 DEF Types, Kinds
      <3>2. ASSUME NEW map, Closed(map), Copies(c, map) PROVE Copies(c, map)'
        BY <1>1, <1>2, <1>7, <1>10, <3>1, <3>2, KeepCopies
      <3> QED BY <1>1, <1>2, <1>6, <1>11, <3>1, <3>2, KeepsCopy
    <2> QED BY <2>1, <2>2
  <1> QED BY <1>6, <1>8, <1>11 DEF CopyInv, CopiesOK

LEMMA InitCopies == Init => CopyInv
  <1> SUFFICES ASSUME Init PROVE CopyInv
    OBVIOUS
  <1>1. /\ early = {} /\ counted[primary] = {} /\ KnownAt(primary) = {}
        /\ \A t \in Threads : packet[t] = nullptr
        /\ \A k \in Clients : pc[k] = "out"
    BY Members DEF Init, KnownAt, EmptyMap
  <1>2. PrimaryOK
    BY <1>1 DEF PrimaryOK
  <1>3. RacedOK /\ FollowsOK
    BY <1>1, Members DEF RacedOK, FollowsOK
  <1> QED BY <1>1, <1>2, <1>3 DEF CopyInv, CopiesOK

LEMMA SameCopies ==
  ASSUME Types, CountInv, CopyInv, UNCHANGED vars
  PROVE  CopyInv'
  <1>1. /\ up' = up /\ profiles' = profiles /\ counted' = counted /\ pc' = pc /\ packet' = packet
        /\ i' = i /\ listBackups' = listBackups /\ queue' = queue /\ early' = early /\ raced' = raced
    BY DEF vars, mapVars, listVars, netVars, threadVars
  <1>2. Quiet
    BY <1>1 DEF Quiet, KnownAt
  <1>3. \A t : \A d : Ahead(t, d)' <=> Ahead(t, d)
    BY <1>1 DEF Ahead
  <1> QED BY <1>1, <1>2, <1>3, LonelyKeeps

LEMMA NextCopies == Types /\ CountInv /\ CopyInv /\ [Next]_vars => CopyInv'
  <1> SUFFICES ASSUME Types, CountInv, CopyInv, [Next]_vars PROVE CopyInv'
    OBVIOUS
  <1>1. CASE UNCHANGED vars
    BY <1>1, SameCopies
  <1>2. ASSUME NEW t \in Threads, Proceed(t) PROVE CopyInv'
    BY <1>2, ForwardKeeps, DeathsKeep, EndForwardKeeps DEF Proceed
  <1>3. ASSUME NEW b \in Backups, SetBackup(b) \/ Backup(b) PROVE CopyInv'
    BY <1>3, JoinKeeps, DeathsKeep, ApplyKeeps, BackupStepKeeps DEF Backup
  <1>4. ASSUME NEW k \in Clients, Welcome(k) PROVE CopyInv'
    BY <1>4, FetchKeeps, DeathsKeep DEF Welcome
  <1>5. ASSUME NEW k \in Clients, ClientStep(k) PROVE CopyInv'
    <2>1. ASSUME NEW s \in Servers, Reconnect(k, s) \/ ReconnectDies(k, s) \/ StartClient(k, s)
          PROVE  CopyInv'
      BY <2>1, MoveKeeps, DeathsKeep
    <2>2. ASSUME NEW p \in ProfileIds \ {profileOf[k]}, Follow(k, p) PROVE CopyInv'
      BY <2>2, FollowKeeps
    <2> QED BY <1>5, <2>1, <2>2, LoginKeeps, LoginRefusedKeeps, TweetKeeps, CloseKeeps DEF ClientStep
  <1>6. ASSUME Kill PROVE CopyInv'
    BY <1>6, DeathsKeep
  <1> QED BY <1>1, <1>2, <1>3, <1>4, <1>5, <1>6 DEF Next

-----------------------------------------------------------------------------
(* The theorems.                                                           *)

LEMMA CopiesInductive == Spec => [](Types /\ CountInv /\ CopyInv)
  <1>1. Init => Types /\ CountInv /\ CopyInv
    BY InitTypes, InitCounts, InitCopies
  <1>2. Types /\ CountInv /\ CopyInv /\ [Next]_vars => (Types /\ CountInv /\ CopyInv)'
    BY NextTypes, NextCounts, NextCopies
  <1> QED BY <1>1, <1>2, PTL DEF Spec

(* A thread carries a command out under the lock of the map and sends it to
   the backups without it.  That is the only thing that makes a backup differ:
   one that joined before the first login and has read what it was sent knows
   the same profiles with as many sessions, and has the followers and unread
   packets of every profile that no two overlapping commands have touched. *)
THEOREM DifferencesAreRaces == Spec => []OnlyRacesDiffer
  <1>1. Types /\ CountInv /\ CopyInv => OnlyRacesDiffer
    <2> SUFFICES ASSUME Types, CountInv, CopyInv, NEW b \in Backups, CaughtUp(b)
                 PROVE  /\ KnownAt(b) = KnownAt(primary)
                        /\ \A p \in KnownAt(primary) :
                             /\ profiles[b][p].sessions_on = profiles[primary][p].sessions_on
                             /\ p \notin raced => SameProfile(profiles[b][p], profiles[primary][p])
      BY DEF OnlyRacesDiffer
    <2>1. /\ up[primary] = "serving" /\ up[b] = "backup" /\ b \in early
          /\ \A t \in Threads : packet[t] = nullptr
          /\ queue[b] = <<>> /\ Len(queue[b]) = 0 /\ DOMAIN queue[b] = {}
          /\ PrimaryOK /\ CopiesOK
      BY DEF CaughtUp, CopyInv
    <2>2. PICK m \in [0 .. 0 -> Maps], map \in Maps : CopyOK(b, m, map)
      BY <2>1 DEF CopiesOK, HasCopy
    <2>3. map = profiles[b] /\ Copies(b, map)
      BY <2>1, <2>2 DEF CopyOK, Replays, Doomed
    <2>4. /\ NamesArrived(b, map) /\ SessionsArrived(b, map)
          /\ \A p \in KnownAt(primary) \ raced : ProfileArrived(b, map, p)
      BY <2>3 DEF Copies
    <2>5. \A t \in Threads : ~Ahead(t, b)
      BY <2>1 DEF Ahead
    <2>6. /\ \A k \in Clients : Arrived(b, k) <=> k \in counted[primary]
          /\ \A k \in Clients : ~Brings(k, b, "CLOSE_CONN")
      BY <2>5, Members DEF Arrived, Brings
    <2>7. \A k \in counted[primary] : k \in Clients /\ profileOf[k] \in KnownAt(primary)
      BY <2>1, PrimaryFacts
    <2>8. KnownAt(b) = KnownAt(primary)
      <3>1. \A p \in ProfileIds : p \in KnownAt(b) <=> \E k \in counted[primary] : profileOf[k] = p
        BY <2>3, <2>4, <2>6, <2>7 DEF NamesArrived, KnownAt
      <3>2. \A p \in ProfileIds : p \in KnownAt(primary) <=> \E k \in counted[primary] : profileOf[k] = p
        BY <2>1, <2>7 DEF PrimaryOK
      <3> QED BY <3>1, <3>2 DEF KnownAt
    <2>9. ASSUME NEW p \in KnownAt(primary)
          PROVE  profiles[b][p].sessions_on = profiles[primary][p].sessions_on
      <3>1. SessionsAt(b, p) = Sessions1(p)
        BY <2>6, <2>7 DEF SessionsAt, Sessions1
      <3>2. p \in Names(map)
        BY <2>3, <2>8 DEF Names, KnownAt
      <3> QED BY <2>1, <2>3, <2>4, <3>1, <3>2 DEF SessionsArrived, PrimaryOK
    <2>10. ASSUME NEW p \in KnownAt(primary), p \notin raced
           PROVE  SameProfile(profiles[b][p], profiles[primary][p])
      BY <2>3, <2>4, <2>5, <2>10 DEF ProfileArrived, Untouched
    <2> QED BY <2>8, <2>9, <2>10
  <1> QED BY <1>1, CopiesInductive, PTL

(* receiveAlive uses the profile that it looks up by the sender of a packet
   unseen.  A backup that joined before the first login finds it: it dies only
   from a CLOSE_CONN that names nobody, or from a login that was carried out
   before the CLOSE_CONN which made room for it had been forwarded. *)
THEOREM EarlyBackupsLive == Spec => EarlyBackupSurvives
  <1>1. ASSUME Types, CopyInv, NEW b \in early, ApplyDies(b)
        PROVE  LET pkt == Head(queue[b]) IN
               \/ pkt.cmd = "CLOSE_CONN" /\ pkt.sender = nullptr
               \/ pkt.cmd = "PROFILE" /\ pkt.payload \in raced
    <2>1. b \in Backups /\ up[b] = "backup" /\ Receives(b) /\ Dereferences(profiles[b], Head(queue[b]))
      BY <1>1 DEF ApplyDies, Receives, Types, Kinds
    <2>2. Head(queue[b]) = queue[b][1] /\ DOMAIN queue[b] = 1 .. Len(queue[b]) /\ Len(queue[b]) \in Nat \ {0}
      <3>1. queue[b] \in Seq(Packets) /\ Head(queue[b]) = queue[b][1] /\ Len(queue[b]) \in Nat \ {0}
        BY <1>1, <2>1, Taken
      <3> QED BY <3>1
    <2>3. PICK m \in [0 .. Len(queue[b]) -> Maps], map \in Maps : CopyOK(b, m, map)
      BY <1>1, <2>1 DEF CopyInv, CopiesOK, HasCopy
    <2>4. m[0] = profiles[b] /\ 1 \in DOMAIN queue[b] /\ 1 - 1 = 0
          /\ \A x \in DOMAIN queue[b] : x <= 1 => x = 1
      BY <2>2, <2>3 DEF CopyOK, Replays
    <2>5. \/ NullClose(queue[b][1])
          \/ ~Dereferences(profiles[b], queue[b][1])
          \/ queue[b][1].cmd = "PROFILE" /\ queue[b][1].payload \in raced
      BY <2>3, <2>4 DEF CopyOK, Replays
    <2> QED BY <2>1, <2>2, <2>5 DEF NullClose
  <1>2. Types /\ CountInv /\ CopyInv =>
          [\A b \in early : ApplyDies(b) =>
             LET pkt == Head(queue[b]) IN
             \/ pkt.cmd = "CLOSE_CONN" /\ pkt.sender = nullptr
             \/ pkt.cmd = "PROFILE" /\ pkt.payload \in raced]_vars
    BY <1>1
  <1> QED BY <1>2, CopiesInductive, PTL DEF EarlyBackupSurvives
=============================================================================
