------------------------ MODULE TwitterServer_proofs ------------------------
(***************************************************************************)
(* Safety of the primary server's threads for any finite set of            *)
(* connections, any set of profiles, any limit on sessions and any number  *)
(* of commands and lost clients: types, the agreement of the counters of   *)
(* sessions with the threads, the limit on sessions, the drained inbox,    *)
(* state.json, what is delivered to a connection, and the refinement of    *)
(* Delivery.                                                               *)
(***************************************************************************)
EXTENDS TwitterServer, SequenceLemmas

AnyPacket == {"SEND", "CLOSE_CONN"} \X Nat

(* Profile objects, of any content. *)
Objects == [sessions_on : Int, sessions : Seq(Conns),
            followers : Seq(ProfileIds), inbox : Seq(AnyPacket)]

MapOK == profiles \in [ProfileIds -> Objects \cup {nullptr}]

(* A connection has a profile from its PROFILE on, and the profile is in the
   map from createProfileIfNotExists on. *)
Identified ==
  \A c \in Conns :
    /\ who[c] = nullptr <=> pc[c] \in {"unborn", "first"}
    /\ pc[c] \notin {"unborn", "first", "create"} => who[c] \in Known

(* The write section is occupied by the thread that entered it: the one that
   creates a profile, that fans a tweet out, or that was refused. *)
WriterInside ==
  \A c \in Conns : writer = c <=> pc[c] \in {"inc", "fan", "rejected"}

FanIndex == \A c \in Conns : pc[c] = "fan" => i >= 1 /\ lastTweet >= 1

(* Nobody follows a profile twice, and followers are in the map. *)
FollowersOK ==
  \A p \in Known :
    /\ IsInjective(profiles[p].followers)
    /\ ToSet(profiles[p].followers) \subseteq Known

(* SessionsAgree, with the session vector free of duplicates. *)
SessionsExact ==
  \A p \in Known :
    /\ profiles[p].sessions_on = Len(profiles[p].sessions)
    /\ IsInjective(profiles[p].sessions)
    /\ ToSet(profiles[p].sessions) = SessionThreads(p)

(* The room that createProfileIfNotExists found is still there when
   incSessionsOn takes it. *)
RoomLeft ==
  \A c \in Conns : pc[c] = "inc" => profiles[who[c]].sessions_on < MAX_SESSIONS

Control == TypeOK /\ MapOK /\ Identified /\ WriterInside /\ FanIndex

IInv == Control /\ FollowersOK /\ SessionsExact /\ RoomLeft

-----------------------------------------------------------------------------
(* Packets are a command and a number, and there are never fewer of them. *)
LEMMA PacketsType ==
  ASSUME lastTweet \in Nat
  PROVE  /\ Packets \subseteq AnyPacket
         /\ HELLO \in Packets /\ CLOSE_CONN \in Packets
         /\ lastTweet >= 1 => Tweet(lastTweet) \in Packets
  <1>1. /\ HELLO \in AnyPacket /\ CLOSE_CONN \in AnyPacket
        /\ \A n \in Nat : Tweet(n) \in AnyPacket
    <2>1. \A a \in {"SEND", "CLOSE_CONN"}, n \in Nat : <<a, n>> \in AnyPacket
      BY DEF AnyPacket
    <2>2. HELLO \in AnyPacket
      BY <2>1 DEF HELLO
    <2>3. CLOSE_CONN \in AnyPacket
      BY <2>1 DEF CLOSE_CONN
    <2>4. \A n \in Nat : Tweet(n) \in AnyPacket
      BY <2>1 DEF Tweet
    <2> QED
      BY <2>2, <2>3, <2>4
  <1>2. HELLO \in Packets /\ CLOSE_CONN \in Packets
    BY DEF Packets
  <1>3. lastTweet >= 1 => Tweet(lastTweet) \in Packets
    BY DEF Packets
  <1>4. \A x \in Packets : x = HELLO \/ x = CLOSE_CONN \/ \E n \in 1 .. lastTweet : x = Tweet(n)
    BY DEF Packets
  <1> QED
    BY <1>1, <1>2, <1>3, <1>4

LEMMA PacketsSame == lastTweet' = lastTweet => Packets' = Packets
  BY DEF Packets

LEMMA PacketsGrow ==
  ASSUME lastTweet \in Nat, lastTweet' = lastTweet + 1
  PROVE  Packets \subseteq Packets'
  BY DEF Packets

(* A known profile is an object; the others are at nullptr. *)
LEMMA KnownObject ==
  ASSUME MapOK, NEW p \in Known
  PROVE  p \in ProfileIds /\ profiles[p] # nullptr /\ profiles[p] \in Objects
  BY DEF MapOK, Known

LEMMA ObjectIsNotNull == \A o \in Objects : o # nullptr
  BY nullptrAssumption DEF Objects, AnyPacket

(* What the methods of Profile make of an object. *)
LEMMA IncSessionsOn ==
  ASSUME NEW profile \in Objects, NEW c \in Conns
  PROVE  LET after == incSessionsOn(profile, c) IN
         /\ after \in Objects
         /\ after.sessions_on = profile.sessions_on + 1
         /\ Len(after.sessions) = Len(profile.sessions) + 1
         /\ ToSet(after.sessions) = ToSet(profile.sessions) \cup {c}
         /\ IsInjective(profile.sessions) /\ c \notin ToSet(profile.sessions)
              => IsInjective(after.sessions)
         /\ after.followers = profile.followers
         /\ after.inbox = profile.inbox
  <1> DEFINE s == profile.sessions
  <1>1. s \in Seq(Conns) /\ profile.sessions_on + 1 \in Int
    BY DEF Objects
  <1>2. /\ Append(s, c) \in Seq(Conns)
        /\ Len(Append(s, c)) = Len(s) + 1
        /\ ToSet(Append(s, c)) = ToSet(s) \cup {c}
        /\ IsInjective(s) /\ c \notin ToSet(s) => IsInjective(Append(s, c))
    BY <1>1, AppendDistinct
  <1> HIDE DEF s
  <1>3. ASSUME NEW n \in Int, NEW v \in Seq(Conns)
        PROVE  LET o == [profile EXCEPT !.sessions_on = n, !.sessions = v] IN
               /\ o \in Objects /\ o.sessions_on = n /\ o.sessions = v
               /\ o.followers = profile.followers /\ o.inbox = profile.inbox
    BY DEF Objects
  <1> DEFINE o == [profile EXCEPT !.sessions_on = profile.sessions_on + 1,
                                 !.sessions = Append(s, c)]
  <1>4. /\ o \in Objects /\ o.sessions_on = profile.sessions_on + 1
        /\ o.sessions = Append(s, c)
        /\ o.followers = profile.followers /\ o.inbox = profile.inbox
    BY <1>1, <1>2, <1>3, ZenonT(40)
  <1>5. incSessionsOn(profile, c) = o
    BY DEF s, incSessionsOn
  <1> HIDE DEF o
  <1> QED
    BY <1>2, <1>4, <1>5 DEF s

LEMMA DecSessionsOn ==
  ASSUME NEW profile \in Objects, NEW c \in Conns, IsInjective(profile.sessions),
         c \in ToSet(profile.sessions)
  PROVE  LET after == decSessionsOn(profile, c) IN
         /\ after \in Objects
         /\ after.sessions_on = profile.sessions_on - 1
         /\ Len(after.sessions) = Len(profile.sessions) - 1
         /\ ToSet(after.sessions) = ToSet(profile.sessions) \ {c}
         /\ IsInjective(after.sessions)
         /\ after.followers = profile.followers
         /\ after.inbox = profile.inbox
  <1> DEFINE s == profile.sessions
             after == [profile EXCEPT !.sessions_on = @ - 1, !.sessions = RemoveFirst(@, c)]
  <1>1. s \in Seq(Conns) /\ Contains(s, c)
    BY ContainsToSet DEF Objects
  <1>2. /\ RemoveFirst(s, c) \in Seq(Conns)
        /\ Len(RemoveFirst(s, c)) = Len(s) - 1
        /\ ToSet(RemoveFirst(s, c)) = ToSet(s) \ {c}
        /\ IsInjective(RemoveFirst(s, c))
    BY <1>1, RemoveFirstDistinct
  <1>3. decSessionsOn(profile, c) = after
    BY <1>1 DEF decSessionsOn
  <1>4. /\ after \in Objects
        /\ after.sessions_on = profile.sessions_on - 1
        /\ after.sessions = RemoveFirst(s, c)
        /\ after.followers = profile.followers
        /\ after.inbox = profile.inbox
    <2>1. profile.sessions_on - 1 \in Int
      BY DEF Objects
    <2> HIDE DEF s
    <2>2. ASSUME NEW n \in Int, NEW v \in Seq(Conns)
          PROVE  LET o == [profile EXCEPT !.sessions_on = n, !.sessions = v] IN
                 /\ o \in Objects /\ o.sessions_on = n /\ o.sessions = v
                 /\ o.followers = profile.followers /\ o.inbox = profile.inbox
      BY DEF Objects
    <2> QED
      BY <1>2, <2>1, <2>2, ZenonT(40) DEF s
  <1> QED
    BY <1>2, <1>3, <1>4

(* sendPacket keeps the types of the sockets. *)
LEMMA SendType ==
  ASSUME TypeOK, NEW cs, NEW packets \in Seq(Packets), Send(cs, packets)
  PROVE  /\ sent' \in [Conns -> Seq(Packets)]
         /\ peer' \in [Conns -> {"open", "gone", "reset"}]
         /\ alive' \in BOOLEAN
  <1>1. \A c \in Conns : sent[c] \o packets \in Seq(Packets)
    BY ConcatProperties DEF TypeOK
  <1> QED
    BY <1>1 DEF Send, TypeOK

-----------------------------------------------------------------------------
(* The threads that are past createProfileIfNotExists act on an object of
   the map, and so does the fan-out on the follower it has come to. *)
LEMMA WhoKnown ==
  ASSUME MapOK, Identified, NEW c \in Conns,
         pc[c] \notin {"unborn", "first", "create"}
  PROVE  who[c] \in Known /\ who[c] \in ProfileIds /\ profiles[who[c]] \in Objects
  BY KnownObject DEF Identified

LEMMA FollowerKnown ==
  ASSUME MapOK, Identified, FanIndex, FollowersOK, TypeOK, NEW c \in Conns, MoreFollowers(c)
  PROVE  /\ i \in DOMAIN profiles[who[c]].followers
         /\ Follower(c) \in Known /\ Follower(c) \in ProfileIds
         /\ profiles[Follower(c)] \in Objects
         /\ lastTweet >= 1
  <1>1. who[c] \in Known /\ profiles[who[c]] \in Objects
    BY WhoKnown DEF MoreFollowers
  <1>2. profiles[who[c]].followers \in Seq(ProfileIds)
    BY <1>1 DEF Objects
  <1>3. i \in DOMAIN profiles[who[c]].followers /\ lastTweet >= 1
    BY <1>2, LenProperties DEF MoreFollowers, FanIndex, TypeOK
  <1>4. Follower(c) \in ToSet(profiles[who[c]].followers)
    BY <1>3 DEF Follower, ToSet
  <1> QED
    BY <1>1, <1>3, <1>4, KnownObject DEF FollowersOK

-----------------------------------------------------------------------------
(* The steps that change the map give one profile a new object. *)
Sets(p, object) ==
  /\ p \in ProfileIds
  /\ object \in Objects
  /\ profiles' = [profiles EXCEPT ![p] = object]

LEMMA SetsStep ==
  ASSUME MapOK, NEW p, NEW object, Sets(p, object)
  PROVE  /\ MapOK'
         /\ Known' = Known \cup {p}
         /\ profiles'[p] = object
         /\ \A q \in ProfileIds : q # p => profiles'[q] = profiles[q]
  BY ObjectIsNotNull DEF Sets, MapOK, Known

LEMMA CreateNewSets ==
  ASSUME IInv, NEW c \in Conns, CreateNew(c)
  PROVE  /\ Sets(who[c], NewProfile)
         /\ who[c] \notin Known
  <1>1. NewProfile \in Objects
    BY EmptySeq DEF NewProfile, Objects
  <1>2. who[c] \in ProfileIds
    <2>1. TypeOK /\ Identified
      BY DEF IInv, Control
    <2>2. pc[c] = "create"
      BY DEF CreateNew, Goto
    <2>3. who[c] # nullptr /\ who[c] \in ProfileIds \cup {nullptr}
      BY <2>1, <2>2 DEF TypeOK, Identified
    <2> QED BY <2>3
  <1> QED
    BY <1>1, <1>2 DEF CreateNew, Sets, Known

LEMMA IncSessionsSets ==
  ASSUME IInv, NEW c \in Conns, IncSessions(c)
  PROVE  /\ Sets(who[c], incSessionsOn(profiles[who[c]], c))
         /\ who[c] \in Known /\ profiles[who[c]] \in Objects
  <1>1. who[c] \in Known /\ who[c] \in ProfileIds /\ profiles[who[c]] \in Objects
    BY WhoKnown DEF IncSessions, Goto, IInv, Control
  <1>2. incSessionsOn(profiles[who[c]], c) \in Objects
    BY <1>1, IncSessionsOn
  <1>3. profiles' = [profiles EXCEPT ![who[c]] = incSessionsOn(profiles[who[c]], c)]
    BY DEF IncSessions
  <1> QED
    BY <1>1, <1>2, <1>3 DEF Sets

LEMMA FetchInboxSets ==
  ASSUME IInv, NEW c \in Conns, FetchInbox(c)
  PROVE  /\ Sets(who[c], emptied(profiles[who[c]]))
         /\ who[c] \in Known /\ profiles[who[c]] \in Objects
  <1>1. who[c] \in Known /\ who[c] \in ProfileIds /\ profiles[who[c]] \in Objects
    BY WhoKnown DEF FetchInbox, Goto, IInv, Control
  <1>2. emptied(profiles[who[c]]) \in Objects
    BY <1>1, EmptySeq DEF Objects, emptied
  <1>3. profiles' = [profiles EXCEPT ![who[c]] = emptied(profiles[who[c]])]
    BY DEF FetchInbox
  <1> QED
    BY <1>1, <1>2, <1>3 DEF Sets

LEMMA ReceiveCloseSets ==
  ASSUME IInv, NEW c \in Conns, ReceiveClose(c)
  PROVE  /\ Sets(who[c], decSessionsOn(profiles[who[c]], c))
         /\ who[c] \in Known /\ profiles[who[c]] \in Objects
         /\ IsInjective(profiles[who[c]].sessions)
         /\ c \in ToSet(profiles[who[c]].sessions)
  <1>1. who[c] \in Known /\ who[c] \in ProfileIds /\ profiles[who[c]] \in Objects
    BY WhoKnown DEF ReceiveClose, Goto, IInv, Control
  <1>2. c \in SessionThreads(who[c])
    BY DEF ReceiveClose, Goto, SessionThreads
  <1>3. /\ IsInjective(profiles[who[c]].sessions)
        /\ c \in ToSet(profiles[who[c]].sessions)
    BY <1>1, <1>2 DEF IInv, SessionsExact
  <1>4. decSessionsOn(profiles[who[c]], c) \in Objects
    BY <1>1, <1>3, DecSessionsOn
  <1>5. profiles' = [profiles EXCEPT ![who[c]] = decSessionsOn(profiles[who[c]], c)]
    BY DEF ReceiveClose
  <1> QED
    BY <1>1, <1>3, <1>4, <1>5 DEF Sets

LEMMA AddFollowerSets ==
  ASSUME IInv, NEW c \in Conns, AddFollower(c)
  PROVE  \/ UNCHANGED <<profiles, stateFile>>
         \/ /\ Sets(target[c], addFollower(profiles[target[c]], who[c]))
            /\ target[c] \in Known /\ profiles[target[c]] \in Objects
            /\ who[c] \in Known
            /\ ~follows(profiles[target[c]], who[c])
            /\ stateFile' = Snapshot(profiles')
  <1>1. who[c] \in Known /\ who[c] \in ProfileIds
    BY WhoKnown DEF AddFollower, Goto, IInv, Control
  <1>2. CASE target[c] \in Known
    <2>1. target[c] \in ProfileIds /\ profiles[target[c]] \in Objects
      BY <1>2, KnownObject DEF IInv, Control
    <2>2. addFollower(profiles[target[c]], who[c]) \in Objects
      BY <1>1, <2>1, AppendProperties DEF Objects, addFollower
    <2> QED
      BY <1>1, <1>2, <2>1, <2>2 DEF AddFollower, Sets
  <1>3. CASE target[c] \notin Known
    BY <1>3 DEF AddFollower
  <1> QED
    BY <1>2, <1>3

LEMMA InsertInInboxSets ==
  ASSUME IInv, NEW c \in Conns, InsertInInbox(c)
  PROVE  /\ Sets(Follower(c), insertPacket(profiles[Follower(c)], Tweet(lastTweet)))
         /\ Follower(c) \in Known /\ profiles[Follower(c)] \in Objects
         /\ Tweet(lastTweet) \in Packets /\ lastTweet >= 1
  <1>1. /\ Follower(c) \in Known /\ Follower(c) \in ProfileIds
        /\ profiles[Follower(c)] \in Objects /\ lastTweet >= 1
    BY FollowerKnown DEF InsertInInbox, IInv, Control
  <1>2. Tweet(lastTweet) \in Packets /\ Tweet(lastTweet) \in AnyPacket
    BY <1>1, PacketsType DEF IInv, Control, TypeOK
  <1>3. insertPacket(profiles[Follower(c)], Tweet(lastTweet)) \in Objects
    BY <1>1, <1>2, AppendProperties DEF Objects, insertPacket
  <1>4. profiles' = [profiles EXCEPT ![Follower(c)] =
                       insertPacket(profiles[Follower(c)], Tweet(lastTweet))]
    BY DEF InsertInInbox
  <1> QED
    BY <1>1, <1>2, <1>3, <1>4 DEF Sets

(* The steps that leave the map alone. *)
LEMMA QuietMap ==
  ASSUME NEW c \in Conns,
         \/ Accept(c) \/ FirstPacketProfile(c) \/ FirstPacketEmpty(c)
         \/ CreateFound(c) \/ CreateRefused(c) \/ SendHello(c)
         \/ ReceiveFollow(c) \/ ReceiveSend(c)
         \/ StartFanOut(c) \/ SendToFollower(c) \/ EndFanOut(c)
         \/ PeerClose(c)
  PROVE  profiles' = profiles /\ stateFile' = stateFile
  BY DEF Accept, FirstPacketProfile, FirstPacketEmpty, CreateFound, CreateRefused,
         SendHello, ReceiveFollow, ReceiveSend, StartFanOut, SendToFollower,
         EndFanOut, PeerClose, mapVars

(* No profile ever leaves the map. *)
LEMMA NextMap ==
  ASSUME IInv, [Next]_vars
  PROVE  MapOK' /\ Known \subseteq Known'
  <1>1. ASSUME profiles' = profiles PROVE MapOK' /\ Known \subseteq Known'
    BY <1>1 DEF IInv, Control, MapOK, Known
  <1>2. ASSUME NEW p, NEW object, Sets(p, object)
        PROVE  MapOK' /\ Known \subseteq Known'
    BY <1>2, SetsStep DEF IInv, Control
  <1>3. CASE UNCHANGED vars
    BY <1>1, <1>3 DEF vars, mapVars
  <1>4. ASSUME NEW c \in Conns, Run(c) \/ Receive(c) \/ (alive /\ PeerClose(c))
        PROVE  MapOK' /\ Known \subseteq Known'
    BY <1>1, <1>2, <1>4, QuietMap, CreateNewSets, IncSessionsSets, FetchInboxSets,
       ReceiveCloseSets, AddFollowerSets, InsertInInboxSets
       DEF Run, Create, Welcome, FanOut, Receive
  <1> QED
    BY <1>3, <1>4 DEF Next

-----------------------------------------------------------------------------
(* Type correctness: first the packets, then the objects of the map, then
   the other variables. *)
LEMMA PacketsNext ==
  ASSUME IInv, [Next]_vars
  PROVE  Packets \subseteq Packets' /\ lastTweet' \in Nat
  <1>1. lastTweet' = lastTweet \/ lastTweet' = lastTweet + 1
    BY DEF Next, Run, Create, Welcome, FanOut, Receive, vars, mapVars,
           CreateNew, CreateFound, CreateRefused, IncSessions, SendHello, FetchInbox,
           AddFollower, StartFanOut, SendToFollower, InsertInInbox, EndFanOut,
           Accept, FirstPacketProfile, FirstPacketEmpty, ReceiveFollow, ReceiveSend,
           ReceiveClose, PeerClose
  <1>2. lastTweet \in Nat
    BY DEF IInv, Control, TypeOK
  <1> QED
    BY <1>1, <1>2, PacketsSame, PacketsGrow

(* What TypeOK says of an object, beyond its fields. *)
Typed(object) ==
  /\ object.sessions_on \in 0 .. MAX_SESSIONS
  /\ object.inbox \in Seq(Packets)

LEMMA KnownTyped ==
  ASSUME IInv, NEW p \in Known
  PROVE  Typed(profiles[p]) /\ profiles[p] \in Objects
  BY KnownObject DEF IInv, Control, TypeOK, Typed, ProfileOK, Known

(* The new object of a step is typed: the only ones to change sessions_on
   are incSessionsOn, for which there was room, and decSessionsOn, which
   found a session in the vector. *)
LEMMA SetsTyped ==
  ASSUME IInv, NEW c \in Conns
  PROVE  /\ Typed(NewProfile)
         /\ IncSessions(c) => Typed(incSessionsOn(profiles[who[c]], c))
         /\ FetchInbox(c) => Typed(emptied(profiles[who[c]]))
         /\ ReceiveClose(c) => Typed(decSessionsOn(profiles[who[c]], c))
         /\ InsertInInbox(c) =>
              Typed(insertPacket(profiles[Follower(c)], Tweet(lastTweet)))
  <1>1. Typed(NewProfile)
    BY MAX_SESSIONSAssumption, EmptySeq DEF Typed, NewProfile
  <1>2. ASSUME IncSessions(c) PROVE Typed(incSessionsOn(profiles[who[c]], c))
    <2> DEFINE o == profiles[who[c]]
    <2>1. Typed(o) /\ o \in Objects
      BY <1>2, IncSessionsSets, KnownTyped
    <2>2. o.sessions_on < MAX_SESSIONS
      BY <1>2 DEF IncSessions, Goto, IInv, RoomLeft
    <2>3. /\ incSessionsOn(o, c).sessions_on = o.sessions_on + 1
          /\ incSessionsOn(o, c).inbox = o.inbox
      BY <2>1, IncSessionsOn
    <2> HIDE DEF o
    <2>4. Typed(incSessionsOn(o, c))
      BY <2>1, <2>2, <2>3, MAX_SESSIONSAssumption DEF Typed
    <2> QED
      BY <2>4 DEF o
  <1>3. ASSUME FetchInbox(c) PROVE Typed(emptied(profiles[who[c]]))
    <2>1. Typed(profiles[who[c]]) /\ profiles[who[c]] \in Objects
      BY <1>3, FetchInboxSets, KnownTyped
    <2> QED
      BY <2>1, EmptySeq DEF Typed, emptied, Objects
  <1>4. ASSUME ReceiveClose(c) PROVE Typed(decSessionsOn(profiles[who[c]], c))
    <2> DEFINE o == profiles[who[c]]
    <2>1. /\ Typed(o) /\ o \in Objects /\ IsInjective(o.sessions)
          /\ c \in ToSet(o.sessions) /\ who[c] \in Known
      BY <1>4, ReceiveCloseSets, KnownTyped
    <2>2. o.sessions_on = Len(o.sessions) /\ o.sessions \in Seq(Conns)
      BY <2>1 DEF IInv, SessionsExact, Objects
    <2>3. /\ decSessionsOn(o, c).sessions_on = o.sessions_on - 1
          /\ decSessionsOn(o, c).inbox = o.inbox
      BY <2>1, DecSessionsOn
    <2> HIDE DEF o
    <2>4. o.sessions_on # 0
      BY <2>1, <2>2, EmptySeq, ToSetEmpty
    <2>5. Typed(decSessionsOn(o, c))
      BY <2>1, <2>3, <2>4, MAX_SESSIONSAssumption DEF Typed
    <2> QED
      BY <2>5 DEF o
  <1>5. ASSUME InsertInInbox(c)
        PROVE  Typed(insertPacket(profiles[Follower(c)], Tweet(lastTweet)))
    <2>1. /\ Typed(profiles[Follower(c)]) /\ profiles[Follower(c)] \in Objects
          /\ Tweet(lastTweet) \in Packets
      BY <1>5, InsertInInboxSets, KnownTyped
    <2>2. Append(profiles[Follower(c)].inbox, Tweet(lastTweet)) \in Seq(Packets)
      BY <2>1, AppendProperties DEF Typed
    <2> QED
      BY <2>1, <2>2 DEF Typed, insertPacket, Objects
  <1> QED
    BY <1>1, <1>2, <1>3, <1>4, <1>5

LEMMA NextTyped ==
  ASSUME IInv, [Next]_vars, NEW p \in Known'
  PROVE  ProfileOK(profiles[p])'
  <1>1. /\ p \in ProfileIds /\ profiles'[p] \in Objects /\ Packets \subseteq Packets'
        /\ \A q \in Known : Typed(profiles[q])
    BY NextMap, PacketsNext, KnownTyped DEF MapOK, Known
  <1>2. SUFFICES Typed(profiles'[p])
    BY <1>1, <1>2, SeqMonotonic DEF Typed, ProfileOK, Objects
  <1>3. ASSUME profiles' = profiles PROVE Typed(profiles'[p])
    BY <1>1, <1>3 DEF Known
  <1>4. ASSUME NEW q, NEW object, Sets(q, object), Typed(object)
        PROVE  Typed(profiles'[p])
    BY <1>1, <1>4, SetsStep DEF IInv, Control, Known
  <1>5. ASSUME NEW c \in Conns, AddFollower(c) PROVE Typed(profiles'[p])
    <2>1. CASE UNCHANGED <<profiles, stateFile>>
      BY <1>3, <2>1
    <2>2. CASE /\ Sets(target[c], addFollower(profiles[target[c]], who[c]))
               /\ target[c] \in Known /\ profiles[target[c]] \in Objects
      <3>1. Typed(addFollower(profiles[target[c]], who[c]))
        BY <1>1, <2>2 DEF Typed, addFollower, Objects
      <3> QED
        BY <1>4, <2>2, <3>1
    <2> QED
      BY <1>5, <2>1, <2>2, AddFollowerSets
  <1>6. CASE UNCHANGED vars
    BY <1>3, <1>6 DEF vars, mapVars
  <1>7. ASSUME NEW c \in Conns, Run(c) \/ Receive(c) \/ (alive /\ PeerClose(c))
        PROVE  Typed(profiles'[p])
    BY <1>3, <1>4, <1>5, <1>7, SetsTyped, QuietMap, CreateNewSets, IncSessionsSets,
       FetchInboxSets, ReceiveCloseSets, InsertInInboxSets
       DEF Run, Create, Welcome, FanOut, Receive
  <1> QED
    BY <1>6, <1>7 DEF Next

(* state.json is only written with what is in the map. *)
LEMMA NextStateFileType ==
  ASSUME IInv, [Next]_vars, stateFile' # nullptr
  PROVE  DOMAIN stateFile' \subseteq ProfileIds
  <1>1. stateFile' = stateFile \/ stateFile' = Snapshot(profiles')
    BY DEF Next, Run, Create, Welcome, FanOut, Receive, vars, mapVars,
           CreateNew, CreateFound, CreateRefused, IncSessions, SendHello, FetchInbox,
           AddFollower, StartFanOut, SendToFollower, InsertInInbox, EndFanOut,
           Accept, FirstPacketProfile, FirstPacketEmpty, ReceiveFollow, ReceiveSend,
           ReceiveClose, PeerClose
  <1> QED
    BY <1>1 DEF Snapshot, IInv, Control, TypeOK

LEMMA NextParkedType ==
  ASSUME IInv, [Next]_vars
  PROVE  parked' \subseteq Known' \X Packets'
  <1>1. Known \subseteq Known' /\ Packets \subseteq Packets' /\ parked \subseteq Known \X Packets
    BY NextMap, PacketsNext DEF IInv, Control, TypeOK
  <1>2. ASSUME NEW c \in Conns, InsertInInbox(c) PROVE parked' \subseteq Known \X Packets
    <2>1. Follower(c) \in Known /\ Tweet(lastTweet) \in Packets
      BY <1>2, InsertInInboxSets
    <2>2. parked' = parked \cup {<<Follower(c), Tweet(lastTweet)>>}
      BY <1>2 DEF InsertInInbox
    <2> QED
      BY <1>1, <2>1, <2>2
  <1>3. parked' = parked \/ \E c \in Conns : InsertInInbox(c)
    BY DEF Next, Run, Create, Welcome, FanOut, Receive, vars, mapVars,
           CreateNew, CreateFound, CreateRefused, IncSessions, SendHello, FetchInbox,
           AddFollower, StartFanOut, SendToFollower, EndFanOut,
           Accept, FirstPacketProfile, FirstPacketEmpty, ReceiveFollow, ReceiveSend,
           ReceiveClose, PeerClose
  <1> QED
    BY <1>1, <1>2, <1>3

(* The packets a step sends are packets. *)
LEMMA NextSentType ==
  ASSUME IInv, [Next]_vars
  PROVE  /\ sent' \in [Conns -> Seq(Packets')]
         /\ peer' \in [Conns -> {"open", "gone", "reset"}]
         /\ alive' \in BOOLEAN
  <1>1. /\ \A s \in Seq(Packets) : s \in Seq(Packets')
        /\ sent \in [Conns -> Seq(Packets)]
        /\ peer \in [Conns -> {"open", "gone", "reset"}]
        /\ alive \in BOOLEAN
    BY PacketsNext, SeqMonotonic DEF IInv, Control, TypeOK
  <1> DEFINE SentType == /\ sent' \in [Conns -> Seq(Packets)]
                         /\ peer' \in [Conns -> {"open", "gone", "reset"}]
                         /\ alive' \in BOOLEAN
  <1>2. ASSUME NEW cs, NEW packets \in Seq(Packets), Send(cs, packets) PROVE SentType
    BY <1>2, SendType DEF IInv, Control
  <1>3. ASSUME NEW c \in Conns, CreateRefused(c) \/ SendHello(c) PROVE SentType
    <2>1. HELLO \in Packets /\ CLOSE_CONN \in Packets
      BY PacketsType DEF IInv, Control, TypeOK
    <2>2. <<HELLO>> \in Seq(Packets) /\ <<CLOSE_CONN>> \in Seq(Packets)
      BY <2>1
    <2> QED
      BY <1>2, <1>3, <2>2 DEF CreateRefused, SendHello
  <1>4. ASSUME NEW c \in Conns, FetchInbox(c) PROVE SentType
    <2>1. profiles[who[c]].inbox \in Seq(Packets)
      BY <1>4, FetchInboxSets, KnownTyped DEF Typed
    <2>2. Send(ToSet(profiles[who[c]].sessions), profiles[who[c]].inbox)
      BY <1>4 DEF FetchInbox
    <2> QED
      BY <1>2, <2>1, <2>2
  <1>5. ASSUME NEW c \in Conns, SendToFollower(c) PROVE SentType
    <2>1. lastTweet >= 1 /\ lastTweet \in Nat
      BY <1>5, FollowerKnown DEF SendToFollower, IInv, Control, TypeOK
    <2>2. Tweet(lastTweet) \in Packets
      BY <2>1, PacketsType
    <2>3. <<Tweet(lastTweet)>> \in Seq(Packets)
      BY <2>2
    <2>4. Send(ToSet(profiles[Follower(c)].sessions), <<Tweet(lastTweet)>>)
      BY <1>5 DEF SendToFollower
    <2> QED
      BY <1>2, <2>3, <2>4
  <1>6. ASSUME NEW c \in Conns, PeerClose(c) \/ FirstPacketEmpty(c) PROVE SentType
    BY <1>1, <1>6 DEF PeerClose, FirstPacketEmpty
  <1>7. ASSUME sent' = sent, peer' = peer, alive' = alive PROVE SentType
    BY <1>1, <1>7
  <1>8. ASSUME UNCHANGED vars PROVE SentType
    <2>1. sent' = sent /\ peer' = peer /\ alive' = alive
      BY <1>8 DEF vars, netVars
    <2> QED
      BY <1>7, <2>1
  <1>9. ASSUME NEW c \in Conns, Run(c) \/ Receive(c) \/ (alive /\ PeerClose(c)) PROVE SentType
    BY <1>3, <1>4, <1>5, <1>6, <1>7, <1>9
       DEF Run, Create, Welcome, FanOut, Receive, Accept, FirstPacketProfile,
           CreateNew, CreateFound, IncSessions, AddFollower, StartFanOut,
           InsertInInbox, EndFanOut, ReceiveFollow, ReceiveSend, ReceiveClose, netVars
  <1> HIDE DEF SentType
  <1>10. SentType
    BY <1>8, <1>9 DEF Next
  <1> QED
    BY <1>1, <1>10 DEF SentType

LEMMA NextThreadsType ==
  ASSUME IInv, [Next]_vars
  PROVE  /\ writer' \in Conns \cup {nullptr}
         /\ i' \in Nat
         /\ pc' \in [Conns -> Locations]
         /\ who' \in [Conns -> ProfileIds \cup {nullptr}]
         /\ target' \in [Conns -> ProfileIds \cup {nullptr}]
         /\ budget' \in [Conns -> 0 .. MaxCommands]
  <1> DEFINE T == /\ writer \in Conns \cup {nullptr}
                  /\ i \in Nat
                  /\ pc \in [Conns -> Locations]
                  /\ who \in [Conns -> ProfileIds \cup {nullptr}]
                  /\ target \in [Conns -> ProfileIds \cup {nullptr}]
                  /\ budget \in [Conns -> 0 .. MaxCommands]
  <1>1. T
    BY DEF IInv, Control, TypeOK
  <1>2. ASSUME NEW c \in Conns,
               Accept(c) \/ FirstPacketProfile(c) \/ FirstPacketEmpty(c) \/ PeerClose(c)
        PROVE  T'
    BY <1>1, <1>2 DEF Accept, FirstPacketProfile, FirstPacketEmpty, PeerClose, Goto,
                      Locations, mapVars
  <1>3. ASSUME NEW c \in Conns, Create(c) \/ Welcome(c)
        PROVE  T'
    BY <1>1, <1>3 DEF Create, Welcome, CreateNew, CreateFound, CreateRefused, IncSessions,
                      SendHello, FetchInbox, Goto, Locations, mapVars
  <1>4. ASSUME NEW c \in Conns, ReceiveFollow(c) \/ ReceiveSend(c)
        PROVE  T'
    BY <1>1, <1>4, BoundsAssumption
       DEF ReceiveFollow, ReceiveSend, ReceiveCommand, Goto, Locations, mapVars
  <1>5. ASSUME NEW c \in Conns, ReceiveClose(c) \/ AddFollower(c)
        PROVE  T'
    BY <1>1, <1>5 DEF ReceiveClose, AddFollower, Goto, Locations
  <1>6. ASSUME NEW c \in Conns, FanOut(c)
        PROVE  T'
    BY <1>1, <1>6 DEF FanOut, StartFanOut, SendToFollower, InsertInInbox, EndFanOut,
                      Goto, Locations
  <1>7. CASE UNCHANGED vars
    BY <1>1, <1>7 DEF vars, mapVars
  <1> QED
    BY <1>2, <1>3, <1>4, <1>5, <1>6, <1>7 DEF Next, Run, Receive

LEMMA NextTypeOK == IInv /\ [Next]_vars => TypeOK' /\ MapOK'
  <1> SUFFICES ASSUME IInv, [Next]_vars PROVE TypeOK' /\ MapOK'
    OBVIOUS
  <1>1. \A p \in ProfileIds : profiles'[p] # nullptr => ProfileOK(profiles[p])'
    BY NextTyped DEF Known
  <1> QED
    BY <1>1, NextMap, PacketsNext, NextStateFileType, NextParkedType, NextSentType,
       NextThreadsType DEF TypeOK

-----------------------------------------------------------------------------
(* Who a connection belongs to, who is in the write section and where the
   fan-out is. *)
LEMMA NextIdentified ==
  ASSUME IInv, [Next]_vars
  PROVE  Identified'
  <1>1. /\ pc \in [Conns -> Locations] /\ who \in [Conns -> ProfileIds \cup {nullptr}]
        /\ Identified /\ Known \subseteq Known'
    BY NextMap DEF IInv, Control, TypeOK
  <1> USE DEF Identified, Goto, mapVars
  <1>2. ASSUME NEW c \in Conns, FirstPacketProfile(c) PROVE Identified'
    BY <1>1, <1>2, ProfileIdsAssumption DEF FirstPacketProfile
  <1>3. ASSUME NEW c \in Conns, CreateNew(c) PROVE Identified'
    <2>1. who[c] \in Known'
      BY <1>3, CreateNewSets, SetsStep DEF IInv, Control
    <2> QED
      BY <1>1, <1>3, <2>1 DEF CreateNew
  <1>4. ASSUME NEW c \in Conns, CreateFound(c) \/ CreateRefused(c) PROVE Identified'
    <2>1. who[c] \in Known
      BY <1>1, <1>4 DEF CreateFound, CreateRefused, Known
    <2> QED
      BY <1>1, <1>4, <2>1 DEF CreateFound, CreateRefused
  <1>5. ASSUME NEW c \in Conns,
               \/ Accept(c) \/ FirstPacketEmpty(c) \/ IncSessions(c) \/ Welcome(c)
               \/ ReceiveFollow(c) \/ ReceiveSend(c) \/ ReceiveClose(c) \/ AddFollower(c)
        PROVE  Identified'
    BY <1>1, <1>5 DEF Accept, FirstPacketEmpty, IncSessions, Welcome, SendHello, FetchInbox,
                      ReceiveFollow, ReceiveSend, ReceiveCommand, ReceiveClose, AddFollower
  <1>6. ASSUME NEW c \in Conns, FanOut(c) \/ PeerClose(c) PROVE Identified'
    BY <1>1, <1>6 DEF FanOut, StartFanOut, SendToFollower, InsertInInbox, EndFanOut, PeerClose
  <1>7. CASE UNCHANGED vars
    BY <1>1, <1>7 DEF vars
  <1> QED
    BY <1>2, <1>3, <1>4, <1>5, <1>6, <1>7 DEF Next, Run, Create, Receive

LEMMA NextWriterInside ==
  ASSUME IInv, [Next]_vars
  PROVE  WriterInside'
  <1>1. /\ pc \in [Conns -> Locations] /\ writer \in Conns \cup {nullptr}
        /\ WriterInside /\ nullptr \notin Conns
    BY ConnsAssumption DEF IInv, Control, TypeOK
  <1> USE DEF WriterInside, Goto, LockFree, mapVars
  <1>2. ASSUME NEW c \in Conns,
               \/ Accept(c) \/ FirstPacketProfile(c) \/ FirstPacketEmpty(c) \/ PeerClose(c)
               \/ ReceiveFollow(c) \/ ReceiveSend(c) \/ ReceiveClose(c)
        PROVE  WriterInside'
    BY <1>1, <1>2 DEF Accept, FirstPacketProfile, FirstPacketEmpty, PeerClose,
                      ReceiveFollow, ReceiveSend, ReceiveCommand, ReceiveClose
  <1>3. ASSUME NEW c \in Conns, CreateNew(c) \/ CreateFound(c) \/ CreateRefused(c)
        PROVE  WriterInside'
    BY <1>1, <1>3 DEF CreateNew, CreateFound, CreateRefused
  <1>4. ASSUME NEW c \in Conns, IncSessions(c)
        PROVE  WriterInside'
    BY <1>1, <1>4 DEF IncSessions
  <1>5. ASSUME NEW c \in Conns, Welcome(c) \/ AddFollower(c)
        PROVE  WriterInside'
    BY <1>1, <1>5 DEF Welcome, SendHello, FetchInbox, AddFollower
  <1>6. ASSUME NEW c \in Conns, FanOut(c)
        PROVE  WriterInside'
    BY <1>1, <1>6 DEF FanOut, StartFanOut, SendToFollower, InsertInInbox, EndFanOut
  <1>7. CASE UNCHANGED vars
    BY <1>1, <1>7 DEF vars
  <1> QED
    BY <1>2, <1>3, <1>4, <1>5, <1>6, <1>7 DEF Next, Run, Create, Receive

LEMMA NextFanIndex ==
  ASSUME IInv, [Next]_vars
  PROVE  FanIndex'
  <1>1. /\ pc \in [Conns -> Locations] /\ i \in Nat /\ lastTweet \in Nat
        /\ FanIndex /\ WriterInside /\ nullptr \notin Conns
    BY ConnsAssumption DEF IInv, Control, TypeOK
  <1> USE DEF FanIndex, Goto
  <1>2. ASSUME NEW c \in Conns, Receive(c) \/ PeerClose(c) PROVE FanIndex'
    BY <1>1, <1>2 DEF Receive, Accept, FirstPacketProfile, FirstPacketEmpty, PeerClose,
                      ReceiveFollow, ReceiveSend, ReceiveCommand, ReceiveClose, mapVars
  <1>3. ASSUME NEW c \in Conns, Create(c) \/ Welcome(c) \/ AddFollower(c) PROVE FanIndex'
    BY <1>1, <1>3 DEF Create, CreateNew, CreateFound, CreateRefused, IncSessions,
                      Welcome, SendHello, FetchInbox, AddFollower, mapVars
  <1>4. ASSUME NEW c \in Conns, StartFanOut(c) \/ SendToFollower(c) \/ InsertInInbox(c)
        PROVE  FanIndex'
    BY <1>1, <1>4 DEF StartFanOut, SendToFollower, InsertInInbox
  <1>5. ASSUME NEW c \in Conns, EndFanOut(c) PROVE FanIndex'
    BY <1>1, <1>5 DEF EndFanOut, WriterInside
  <1>6. CASE UNCHANGED vars
    BY <1>1, <1>6 DEF vars, mapVars
  <1> QED
    BY <1>2, <1>3, <1>4, <1>5, <1>6 DEF Next, Run, FanOut

-----------------------------------------------------------------------------
(* Followers: addFollowerTo looks for the follower before it appends it. *)
LEMMA NextFollowersOK ==
  ASSUME IInv, [Next]_vars
  PROVE  FollowersOK'
  <1>1. Known \subseteq Known' /\ FollowersOK /\ MapOK
    BY NextMap DEF IInv, Control
  <1>2. ASSUME profiles' = profiles PROVE FollowersOK'
    BY <1>1, <1>2 DEF FollowersOK, Known
  <1>3. ASSUME NEW p, NEW object, Sets(p, object), IsInjective(object.followers),
               ToSet(object.followers) \subseteq Known
        PROVE  FollowersOK'
    <2>1. /\ Known' = Known \cup {p} /\ profiles'[p] = object
          /\ \A q \in ProfileIds : q # p => profiles'[q] = profiles[q]
      BY <1>1, <1>3, SetsStep
    <2>2. Known \subseteq ProfileIds
      BY DEF Known
    <2> QED
      BY <1>1, <1>3, <2>1, <2>2 DEF FollowersOK
  <1>4. ASSUME NEW p \in Known, NEW object, Sets(p, object),
               object.followers = profiles[p].followers
        PROVE  FollowersOK'
    BY <1>1, <1>3, <1>4 DEF FollowersOK
  <1>5. ASSUME NEW c \in Conns, CreateNew(c) PROVE FollowersOK'
    <2>1. NewProfile.followers = <<>>
      BY DEF NewProfile
    <2>2. ToSet(NewProfile.followers) = {} /\ IsInjective(NewProfile.followers)
      BY <2>1 DEF ToSet, IsInjective
    <2> QED
      BY <1>3, <1>5, <2>2, CreateNewSets
  <1>6. ASSUME NEW c \in Conns, IncSessions(c) PROVE FollowersOK'
    BY <1>4, <1>6, IncSessionsSets, IncSessionsOn
  <1>7. ASSUME NEW c \in Conns, FetchInbox(c) PROVE FollowersOK'
    <2>1. emptied(profiles[who[c]]).followers = profiles[who[c]].followers
      BY <1>7, FetchInboxSets DEF emptied, Objects
    <2> QED
      BY <1>4, <1>7, <2>1, FetchInboxSets
  <1>8. ASSUME NEW c \in Conns, ReceiveClose(c) PROVE FollowersOK'
    BY <1>4, <1>8, ReceiveCloseSets, DecSessionsOn
  <1>9. ASSUME NEW c \in Conns, InsertInInbox(c) PROVE FollowersOK'
    <2>1. insertPacket(profiles[Follower(c)], Tweet(lastTweet)).followers
            = profiles[Follower(c)].followers
      BY <1>9, InsertInInboxSets DEF insertPacket, Objects
    <2> QED
      BY <1>4, <1>9, <2>1, InsertInInboxSets
  <1>10. ASSUME NEW c \in Conns, AddFollower(c) PROVE FollowersOK'
    <2>1. CASE UNCHANGED <<profiles, stateFile>>
      BY <1>2, <2>1
    <2>2. CASE /\ Sets(target[c], addFollower(profiles[target[c]], who[c]))
               /\ target[c] \in Known /\ profiles[target[c]] \in Objects
               /\ who[c] \in Known
               /\ ~follows(profiles[target[c]], who[c])
      <3> DEFINE f == profiles[target[c]].followers
      <3>1. f \in Seq(ProfileIds) /\ who[c] \in ProfileIds
        BY <2>2 DEF Objects, Known
      <3>2. IsInjective(f) /\ ToSet(f) \subseteq Known /\ who[c] \notin ToSet(f)
        BY <1>1, <2>2, <3>1, ContainsToSet DEF FollowersOK, follows
      <3>3. addFollower(profiles[target[c]], who[c]).followers = Append(f, who[c])
        BY <2>2 DEF addFollower, Objects
      <3>4. /\ ToSet(Append(f, who[c])) = ToSet(f) \cup {who[c]}
            /\ IsInjective(Append(f, who[c]))
        BY <3>1, <3>2, AppendDistinct
      <3> HIDE DEF f
      <3> DEFINE o == addFollower(profiles[target[c]], who[c])
      <3>5. IsInjective(o.followers) /\ ToSet(o.followers) \subseteq Known
        BY <2>2, <3>2, <3>3, <3>4
      <3>6. Sets(target[c], o)
        BY <2>2
      <3> HIDE DEF o
      <3> QED
        BY <1>3, <3>5, <3>6
    <2> QED
      BY <1>10, <2>1, <2>2, AddFollowerSets
  <1>11. ASSUME UNCHANGED vars PROVE FollowersOK'
    BY <1>2, <1>11 DEF vars, mapVars
  <1>12. ASSUME NEW c \in Conns, Run(c) \/ Receive(c) \/ (alive /\ PeerClose(c))
         PROVE  FollowersOK'
    BY <1>2, <1>5, <1>6, <1>7, <1>8, <1>9, <1>10, <1>12, QuietMap
       DEF Run, Create, Welcome, FanOut, Receive
  <1> QED
    BY <1>11, <1>12 DEF Next

-----------------------------------------------------------------------------
(* Which steps open and close a session. *)
LEMMA ThreadsStep ==
  ASSUME IInv, NEW c \in Conns,
         \/ Accept(c) \/ FirstPacketProfile(c) \/ FirstPacketEmpty(c) \/ PeerClose(c)
         \/ CreateNew(c) \/ CreateFound(c) \/ CreateRefused(c) \/ Welcome(c)
         \/ ReceiveFollow(c) \/ ReceiveSend(c) \/ AddFollower(c) \/ FanOut(c)
  PROVE  \A p \in ProfileIds : SessionThreads(p)' = SessionThreads(p)
  <1>1. pc \in [Conns -> Locations] /\ who \in [Conns -> ProfileIds \cup {nullptr}]
    BY DEF IInv, Control, TypeOK
  <1> USE DEF SessionThreads, Goto
  <1>2. CASE Accept(c) \/ FirstPacketProfile(c) \/ FirstPacketEmpty(c) \/ PeerClose(c)
    BY <1>1, <1>2 DEF Accept, FirstPacketProfile, FirstPacketEmpty, PeerClose
  <1>3. CASE CreateNew(c) \/ CreateFound(c) \/ CreateRefused(c) \/ Welcome(c)
    BY <1>1, <1>3 DEF CreateNew, CreateFound, CreateRefused, Welcome, SendHello, FetchInbox
  <1>4. CASE ReceiveFollow(c) \/ ReceiveSend(c) \/ AddFollower(c)
    BY <1>1, <1>4 DEF ReceiveFollow, ReceiveSend, ReceiveCommand, AddFollower
  <1>5. CASE FanOut(c)
    BY <1>1, <1>5 DEF FanOut, StartFanOut, SendToFollower, InsertInInbox, EndFanOut
  <1> QED
    BY <1>2, <1>3, <1>4, <1>5

LEMMA ThreadsOpen ==
  ASSUME IInv, NEW c \in Conns, IncSessions(c)
  PROVE  /\ c \notin SessionThreads(who[c])
         /\ \A p \in ProfileIds :
              SessionThreads(p)' = IF p = who[c] THEN SessionThreads(p) \cup {c}
                                                ELSE SessionThreads(p)
  BY DEF IncSessions, Goto, SessionThreads, IInv, Control, TypeOK

LEMMA ThreadsClose ==
  ASSUME IInv, NEW c \in Conns, ReceiveClose(c)
  PROVE  \A p \in ProfileIds :
           SessionThreads(p)' = IF p = who[c] THEN SessionThreads(p) \ {c}
                                             ELSE SessionThreads(p)
  BY DEF ReceiveClose, Goto, SessionThreads, IInv, Control, TypeOK

(* The counter and the vector of a profile change with its threads. *)
LEMMA NextSessionsExact ==
  ASSUME IInv, [Next]_vars
  PROVE  SessionsExact'
  <1> DEFINE Exact(o, threads) ==
        o.sessions_on = Len(o.sessions) /\ IsInjective(o.sessions) /\ ToSet(o.sessions) = threads
  <1>1. /\ Known \subseteq Known' /\ MapOK
        /\ \A p \in Known : Exact(profiles[p], SessionThreads(p)) /\ p \in ProfileIds
    BY NextMap DEF IInv, Control, SessionsExact, Known
  <1>2. SUFFICES \A p \in Known' : Exact(profiles'[p], SessionThreads(p)')
    BY <1>2 DEF SessionsExact
  <1> HIDE DEF Exact
  <1>3. ASSUME profiles' = profiles,
               \A p \in ProfileIds : SessionThreads(p)' = SessionThreads(p)
        PROVE  \A p \in Known' : Exact(profiles'[p], SessionThreads(p)')
    BY <1>1, <1>3 DEF Known
  <1>4. ASSUME NEW p, NEW object, Sets(p, object), Exact(object, SessionThreads(p)'),
               \A q \in ProfileIds : q # p => SessionThreads(q)' = SessionThreads(q)
        PROVE  \A q \in Known' : Exact(profiles'[q], SessionThreads(q)')
    <2>1. /\ Known' = Known \cup {p} /\ profiles'[p] = object
          /\ \A q \in ProfileIds : q # p => profiles'[q] = profiles[q]
      BY <1>1, <1>4, SetsStep
    <2> QED
      BY <1>1, <1>4, <2>1
  <1>5. ASSUME NEW c \in Conns, CreateNew(c)
        PROVE  \A q \in Known' : Exact(profiles'[q], SessionThreads(q)')
    <2>1. SessionThreads(who[c]) = {}
      BY <1>5, CreateNewSets DEF SessionThreads, IInv, Control, Identified
    <2>2. Exact(NewProfile, {})
      <3>1. /\ NewProfile.sessions = <<>> /\ NewProfile.sessions_on = 0
            /\ Len(<<>>) = 0
        BY EmptySeq DEF NewProfile
      <3>2. ToSet(<<>>) = {} /\ IsInjective(<<>>)
        BY DEF ToSet, IsInjective
      <3> QED
        BY <3>1, <3>2 DEF Exact
    <2>3. \A q \in ProfileIds : SessionThreads(q)' = SessionThreads(q)
      BY <1>5, ThreadsStep
    <2>4. PICK p \in ProfileIds : p = who[c] /\ Sets(p, NewProfile)
      BY <1>5, CreateNewSets DEF Sets
    <2>5. SessionThreads(p)' = {}
      BY <2>1, <2>3, <2>4
    <2> QED
      BY <1>4, <2>2, <2>3, <2>4, <2>5
  <1>6. ASSUME NEW c \in Conns, IncSessions(c)
        PROVE  \A q \in Known' : Exact(profiles'[q], SessionThreads(q)')
    <2> DEFINE o == profiles[who[c]]
               after == incSessionsOn(o, c)
    <2>1. Sets(who[c], after) /\ who[c] \in Known /\ o \in Objects
      BY <1>6, IncSessionsSets
    <2>2. Exact(o, SessionThreads(who[c])) /\ c \notin SessionThreads(who[c])
      BY <1>1, <1>6, <2>1, ThreadsOpen
    <2>3. Exact(after, SessionThreads(who[c]) \cup {c})
      BY <2>1, <2>2, IncSessionsOn DEF Exact
    <2> HIDE DEF o, after
    <2>4. PICK p \in ProfileIds : p = who[c] /\ Sets(p, after)
      BY <2>1 DEF Sets
    <2>5. /\ SessionThreads(p)' = SessionThreads(who[c]) \cup {c}
          /\ \A q \in ProfileIds : q # p => SessionThreads(q)' = SessionThreads(q)
      BY <1>6, <2>4, ThreadsOpen
    <2> QED
      BY <1>4, <2>3, <2>4, <2>5
  <1>7. ASSUME NEW c \in Conns, ReceiveClose(c)
        PROVE  \A q \in Known' : Exact(profiles'[q], SessionThreads(q)')
    <2> DEFINE o == profiles[who[c]]
               after == decSessionsOn(o, c)
    <2>1. Sets(who[c], after) /\ who[c] \in Known /\ o \in Objects /\ c \in ToSet(o.sessions)
      BY <1>7, ReceiveCloseSets
    <2>2. Exact(o, SessionThreads(who[c]))
      BY <1>1, <2>1
    <2>3. Exact(after, SessionThreads(who[c]) \ {c})
      BY <2>1, <2>2, DecSessionsOn, ZenonT(40) DEF Exact
    <2> HIDE DEF o, after
    <2>4. PICK p \in ProfileIds : p = who[c] /\ Sets(p, after)
      BY <2>1 DEF Sets
    <2>5. /\ SessionThreads(p)' = SessionThreads(who[c]) \ {c}
          /\ \A q \in ProfileIds : q # p => SessionThreads(q)' = SessionThreads(q)
      BY <1>7, <2>4, ThreadsClose
    <2> QED
      BY <1>4, <2>3, <2>4, <2>5
  <1>8. ASSUME NEW p \in Known, NEW object, Sets(p, object),
               object.sessions_on = profiles[p].sessions_on,
               object.sessions = profiles[p].sessions,
               \A q \in ProfileIds : SessionThreads(q)' = SessionThreads(q)
        PROVE  \A q \in Known' : Exact(profiles'[q], SessionThreads(q)')
    <2>1. Exact(object, SessionThreads(p)')
      BY <1>1, <1>8 DEF Exact
    <2> QED
      BY <1>4, <1>8, <2>1
  <1>9. ASSUME NEW c \in Conns, FetchInbox(c)
        PROVE  \A q \in Known' : Exact(profiles'[q], SessionThreads(q)')
    <2>1. /\ emptied(profiles[who[c]]).sessions = profiles[who[c]].sessions
          /\ emptied(profiles[who[c]]).sessions_on = profiles[who[c]].sessions_on
      BY <1>9, FetchInboxSets DEF emptied, Objects
    <2>2. \A q \in ProfileIds : SessionThreads(q)' = SessionThreads(q)
      BY <1>9, ThreadsStep DEF Welcome
    <2> QED
      BY <1>8, <1>9, <2>1, <2>2, FetchInboxSets
  <1>10. ASSUME NEW c \in Conns, InsertInInbox(c)
         PROVE  \A q \in Known' : Exact(profiles'[q], SessionThreads(q)')
    <2> DEFINE o == profiles[Follower(c)]
               after == insertPacket(o, Tweet(lastTweet))
    <2>1. after.sessions = o.sessions /\ after.sessions_on = o.sessions_on
      BY <1>10, InsertInInboxSets DEF insertPacket, Objects
    <2>2. \A q \in ProfileIds : SessionThreads(q)' = SessionThreads(q)
      BY <1>10, ThreadsStep DEF FanOut
    <2> QED
      BY <1>8, <1>10, <2>1, <2>2, InsertInInboxSets
  <1>11. ASSUME NEW c \in Conns, AddFollower(c)
         PROVE  \A q \in Known' : Exact(profiles'[q], SessionThreads(q)')
    <2>1. \A q \in ProfileIds : SessionThreads(q)' = SessionThreads(q)
      BY <1>11, ThreadsStep
    <2>2. CASE UNCHANGED <<profiles, stateFile>>
      BY <1>3, <2>1, <2>2
    <2>3. CASE /\ Sets(target[c], addFollower(profiles[target[c]], who[c]))
               /\ target[c] \in Known /\ profiles[target[c]] \in Objects
      <3> DEFINE o == profiles[target[c]]
                 after == addFollower(o, who[c])
      <3>1. after.sessions = o.sessions /\ after.sessions_on = o.sessions_on
        BY <2>3 DEF addFollower, Objects
      <3> QED
        BY <1>8, <2>1, <2>3, <3>1
    <2> QED
      BY <1>11, <2>2, <2>3, AddFollowerSets
  <1>12. ASSUME UNCHANGED vars
         PROVE  \A q \in Known' : Exact(profiles'[q], SessionThreads(q)')
    BY <1>3, <1>12 DEF vars, mapVars, SessionThreads
  <1>13. ASSUME NEW c \in Conns, Run(c) \/ Receive(c) \/ (alive /\ PeerClose(c))
         PROVE  \A q \in Known' : Exact(profiles'[q], SessionThreads(q)')
    BY <1>3, <1>5, <1>6, <1>7, <1>9, <1>10, <1>11, <1>13, QuietMap, ThreadsStep
       DEF Run, Create, Welcome, FanOut, Receive
  <1> QED
    BY <1>12, <1>13 DEF Next

-----------------------------------------------------------------------------
(* Between the test of createProfileIfNotExists and incSessionsOn the lock
   keeps other threads from opening a session, and a session that closes
   makes more room. *)
LEMMA NextRoomLeft ==
  ASSUME IInv, [Next]_vars
  PROVE  RoomLeft'
  <1> DEFINE Same == \A d \in Conns : pc'[d] = "inc" => pc[d] = "inc" /\ who'[d] = who[d]
  <1>1. /\ pc \in [Conns -> Locations] /\ who \in [Conns -> ProfileIds \cup {nullptr}]
        /\ MapOK /\ RoomLeft /\ nullptr \notin Conns
        /\ \A d \in Conns : /\ pc[d] = "inc" => writer = d /\ who[d] \in Known
                            /\ pc[d] = "create" => who[d] \in ProfileIds
        /\ \A p \in Known : Typed(profiles[p]) /\ p \in ProfileIds
    BY ConnsAssumption, KnownTyped
       DEF IInv, Control, TypeOK, WriterInside, Identified, Known
  <1>2. ASSUME profiles' = profiles, Same PROVE RoomLeft'
    BY <1>1, <1>2 DEF RoomLeft
  <1>3. ASSUME NEW p \in Known, NEW object, Sets(p, object), Same,
               object.sessions_on \in Int,
               object.sessions_on <= profiles[p].sessions_on
        PROVE  RoomLeft'
    <2>1. /\ profiles'[p] = object
          /\ \A q \in ProfileIds : q # p => profiles'[q] = profiles[q]
      BY <1>1, <1>3, SetsStep
    <2>2. /\ MAX_SESSIONS \in Int
          /\ profiles[p].sessions_on \in Int
      BY <1>1, MAX_SESSIONSAssumption DEF Typed
    <2> QED
      BY <1>1, <1>3, <2>1, <2>2 DEF RoomLeft
  <1>4. ASSUME NEW c \in Conns,
               \/ Accept(c) \/ FirstPacketProfile(c) \/ FirstPacketEmpty(c) \/ PeerClose(c)
               \/ ReceiveFollow(c) \/ ReceiveSend(c) \/ ReceiveClose(c)
        PROVE  Same
    BY <1>1, <1>4 DEF Accept, FirstPacketProfile, FirstPacketEmpty, PeerClose,
                      ReceiveFollow, ReceiveSend, ReceiveCommand, ReceiveClose, Goto
  <1>5. ASSUME NEW c \in Conns,
               CreateRefused(c) \/ Welcome(c) \/ AddFollower(c) \/ FanOut(c) PROVE Same
    BY <1>1, <1>5 DEF CreateRefused, Welcome, SendHello, FetchInbox, AddFollower, FanOut,
                      StartFanOut, SendToFollower, InsertInInbox, EndFanOut, Goto
  <1>6. ASSUME NEW c \in Conns, IncSessions(c) PROVE RoomLeft'
    <2>1. \A d \in Conns : pc'[d] # "inc"
      BY <1>1, <1>6 DEF IncSessions, Goto
    <2> QED
      BY <2>1 DEF RoomLeft
  <1>7. ASSUME NEW c \in Conns, CreateNew(c) PROVE RoomLeft'
    <2>1. profiles'[who[c]] = NewProfile /\ who' = who
      <3>1. Sets(who[c], NewProfile)
        BY <1>7, CreateNewSets
      <3>2. profiles'[who[c]] = NewProfile
        BY <1>1, <3>1, SetsStep
      <3> QED
        BY <1>7, <3>2 DEF CreateNew
    <2>2. \A d \in Conns : pc'[d] = "inc" => d = c
      BY <1>1, <1>7 DEF CreateNew, Goto, LockFree
    <2>3. NewProfile.sessions_on = 0 /\ 0 < MAX_SESSIONS
      BY MAX_SESSIONSAssumption DEF NewProfile
    <2> QED
      BY <2>1, <2>2, <2>3 DEF RoomLeft
  <1>8. ASSUME NEW c \in Conns, CreateFound(c) PROVE RoomLeft'
    <2>1. \A d \in Conns : pc'[d] = "inc" => d = c
      BY <1>1, <1>8 DEF CreateFound, Goto, LockFree
    <2>2. who[c] \in Known /\ profiles[who[c]].sessions_on # MAX_SESSIONS
      BY <1>1, <1>8 DEF CreateFound, Goto, Known
    <2>3. profiles[who[c]].sessions_on < MAX_SESSIONS
      BY <1>1, <2>2, MAX_SESSIONSAssumption DEF Typed
    <2>4. profiles' = profiles /\ who' = who
      BY <1>8 DEF CreateFound
    <2> QED
      BY <2>1, <2>3, <2>4 DEF RoomLeft
  <1>9. ASSUME NEW c \in Conns, FetchInbox(c) PROVE RoomLeft'
    <2>1. emptied(profiles[who[c]]).sessions_on = profiles[who[c]].sessions_on
      BY <1>9, FetchInboxSets DEF emptied, Objects
    <2>2. profiles[who[c]].sessions_on \in Int
      BY <1>9, FetchInboxSets DEF Objects
    <2> QED
      BY <1>3, <1>5, <1>9, <2>1, <2>2, FetchInboxSets DEF Welcome
  <1>10. ASSUME NEW c \in Conns, ReceiveClose(c) PROVE RoomLeft'
    <2> DEFINE o == profiles[who[c]]
    <2>1. /\ decSessionsOn(o, c).sessions_on = o.sessions_on - 1
          /\ o.sessions_on \in Int
      BY <1>10, ReceiveCloseSets, DecSessionsOn DEF Objects
    <2>2. /\ decSessionsOn(o, c).sessions_on <= o.sessions_on
          /\ decSessionsOn(o, c).sessions_on \in Int
      BY <2>1
    <2>3. Same
      BY <1>4, <1>10
    <2>4. Sets(who[c], decSessionsOn(o, c)) /\ who[c] \in Known
      BY <1>10, ReceiveCloseSets
    <2> HIDE DEF Same
    <2> QED
      BY <1>3, <2>2, <2>3, <2>4
  <1>11. ASSUME NEW c \in Conns, InsertInInbox(c) PROVE RoomLeft'
    <2> DEFINE o == profiles[Follower(c)]
    <2>1. /\ insertPacket(o, Tweet(lastTweet)).sessions_on = o.sessions_on
          /\ o.sessions_on \in Int
      BY <1>11, InsertInInboxSets DEF insertPacket, Objects
    <2> QED
      BY <1>3, <1>5, <1>11, <2>1, InsertInInboxSets DEF FanOut
  <1>12. ASSUME NEW c \in Conns, AddFollower(c) PROVE RoomLeft'
    <2>1. CASE UNCHANGED <<profiles, stateFile>>
      BY <1>2, <1>5, <1>12, <2>1
    <2>2. CASE /\ Sets(target[c], addFollower(profiles[target[c]], who[c]))
               /\ target[c] \in Known /\ profiles[target[c]] \in Objects
      <3> DEFINE o == profiles[target[c]]
      <3>1. /\ addFollower(o, who[c]).sessions_on = o.sessions_on
            /\ o.sessions_on \in Int
        BY <2>2 DEF addFollower, Objects
      <3> QED
        BY <1>3, <1>5, <1>12, <2>2, <3>1
    <2> QED
      BY <1>12, <2>1, <2>2, AddFollowerSets
  <1>13. ASSUME UNCHANGED vars PROVE RoomLeft'
    BY <1>2, <1>13 DEF vars, mapVars
  <1>14. ASSUME NEW c \in Conns, Run(c) \/ Receive(c) \/ (alive /\ PeerClose(c))
         PROVE  RoomLeft'
    <2> HIDE DEF Same
    <2> QED
      BY <1>2, <1>4, <1>5, <1>6, <1>7, <1>8, <1>9, <1>10, <1>11, <1>12, <1>14, QuietMap
         DEF Run, Create, Welcome, FanOut, Receive
  <1> QED
    BY <1>13, <1>14 DEF Next

-----------------------------------------------------------------------------
LEMMA InitIInv == Init => IInv
  <1> SUFFICES ASSUME Init PROVE IInv
    OBVIOUS
  <1>1. Known = {}
    BY DEF Init, Known
  <1>2. MapOK
    BY DEF Init, MapOK
  <1>3. TypeOK
    BY <1>1, BoundsAssumption, EmptySeq DEF Init, TypeOK, Locations
  <1>4. Identified /\ FanIndex /\ RoomLeft
    BY DEF Init, Identified, FanIndex, RoomLeft
  <1>5. WriterInside
    BY ConnsAssumption DEF Init, WriterInside
  <1>6. FollowersOK /\ SessionsExact
    BY <1>1 DEF FollowersOK, SessionsExact
  <1> QED
    BY <1>2, <1>3, <1>4, <1>5, <1>6 DEF IInv, Control

LEMMA NextIInv == IInv /\ [Next]_vars => IInv'
  BY NextTypeOK, NextIdentified, NextWriterInside, NextFanIndex, NextFollowersOK,
     NextSessionsExact, NextRoomLeft DEF IInv, Control

LEMMA Invariance == Spec => []IInv
  BY InitIInv, NextIInv, PTL DEF Spec

(* Whatever the threads, the profiles and the clients that go away, the
   server's variables keep their types; in particular sessions_on never
   leaves 0..MAX_SESSIONS, although decSessionsOn runs without the lock of
   the map. *)
THEOREM TypeCorrect == Spec => []TypeOK
  <1>1. IInv => TypeOK
    BY DEF IInv, Control
  <1> QED
    BY Invariance, <1>1, PTL

LEMMA ThreadsCounted ==
  ASSUME IInv, NEW p \in Known
  PROVE  /\ profiles[p].sessions_on = Len(profiles[p].sessions)
         /\ ToSet(profiles[p].sessions) = SessionThreads(p)
         /\ Len(profiles[p].sessions) = Cardinality(SessionThreads(p))
  <1>1. /\ profiles[p].sessions \in Seq(Conns)
        /\ profiles[p].sessions_on = Len(profiles[p].sessions)
        /\ IsInjective(profiles[p].sessions)
        /\ ToSet(profiles[p].sessions) = SessionThreads(p)
    BY KnownObject DEF IInv, Control, SessionsExact, Objects
  <1> QED
    BY <1>1, DistinctLength

(* The count of sessions, the vector of connections and the threads in a
   session agree at every moment. *)
THEOREM SessionsAlwaysAgree == Spec => []SessionsAgree
  <1>1. IInv => SessionsAgree
    BY ThreadsCounted DEF SessionsAgree
  <1> QED
    BY Invariance, <1>1, PTL

(* The limit on the sessions of a profile holds however logins and logouts
   interleave. *)
THEOREM MaxSessionsHolds == Spec => []MaxSessions
  <1>1. ASSUME IInv, NEW p \in ProfileIds
        PROVE  Cardinality(SessionThreads(p)) <= MAX_SESSIONS
    <2>1. CASE p \in Known
      BY <1>1, <2>1, ThreadsCounted, KnownTyped, MAX_SESSIONSAssumption DEF Typed
    <2>2. CASE p \notin Known
      <3>1. SessionThreads(p) = {}
        BY <1>1, <2>2 DEF IInv, Control, Identified, SessionThreads
      <3> QED
        BY <3>1, FS_EmptySet, MAX_SESSIONSAssumption
    <2> QED
      BY <2>1, <2>2
  <1>2. IInv => MaxSessions
    BY <1>1 DEF MaxSessions
  <1> QED
    BY Invariance, <1>2, PTL

-----------------------------------------------------------------------------
(* state.json: what is written is the map of that moment, and the steps that
   write nothing change neither who is known nor who follows whom. *)
FileCurrent == Known # {} => stateFile = Snapshot(profiles)

LEMMA SnapshotSame ==
  ASSUME Known' = Known, \A p \in Known : profiles'[p].followers = profiles[p].followers
  PROVE  Snapshot(profiles') = Snapshot(profiles)
  BY DEF Snapshot, Known

LEMMA NextFileCurrent ==
  ASSUME IInv, FileCurrent, [Next]_vars
  PROVE  FileCurrent'
  <1>1. ASSUME profiles' = profiles, stateFile' = stateFile PROVE FileCurrent'
    BY <1>1 DEF FileCurrent, Known
  <1>2. ASSUME stateFile' = Snapshot(profiles') PROVE FileCurrent'
    BY <1>2 DEF FileCurrent
  <1>3. ASSUME NEW p \in Known, NEW object, Sets(p, object), stateFile' = stateFile,
               object.followers = profiles[p].followers
        PROVE  FileCurrent'
    <2>1. /\ Known' = Known \cup {p} /\ profiles'[p] = object
          /\ \A q \in ProfileIds : q # p => profiles'[q] = profiles[q]
      BY <1>3, SetsStep DEF IInv, Control
    <2>2. Known' = Known /\ \A q \in Known : q \in ProfileIds
      BY <2>1 DEF Known
    <2>3. Snapshot(profiles') = Snapshot(profiles)
      BY <1>3, <2>1, <2>2, SnapshotSame
    <2> QED
      BY <1>3, <2>2, <2>3 DEF FileCurrent
  <1>4. ASSUME NEW c \in Conns, CreateNew(c) PROVE FileCurrent'
    BY <1>2, <1>4 DEF CreateNew
  <1>5. ASSUME NEW c \in Conns, IncSessions(c) PROVE FileCurrent'
    <2>1. stateFile' = stateFile
      BY <1>5 DEF IncSessions
    <2> QED
      BY <1>3, <1>5, <2>1, IncSessionsSets, IncSessionsOn
  <1>6. ASSUME NEW c \in Conns, FetchInbox(c) PROVE FileCurrent'
    <2>1. emptied(profiles[who[c]]).followers = profiles[who[c]].followers
      BY <1>6, FetchInboxSets DEF emptied, Objects
    <2>2. stateFile' = stateFile
      BY <1>6 DEF FetchInbox
    <2> QED
      BY <1>3, <1>6, <2>1, <2>2, FetchInboxSets
  <1>7. ASSUME NEW c \in Conns, ReceiveClose(c) PROVE FileCurrent'
    <2>1. stateFile' = stateFile
      BY <1>7 DEF ReceiveClose
    <2> QED
      BY <1>3, <1>7, <2>1, ReceiveCloseSets, DecSessionsOn
  <1>8. ASSUME NEW c \in Conns, InsertInInbox(c) PROVE FileCurrent'
    <2>1. insertPacket(profiles[Follower(c)], Tweet(lastTweet)).followers
            = profiles[Follower(c)].followers
      BY <1>8, InsertInInboxSets DEF insertPacket, Objects
    <2>2. stateFile' = stateFile
      BY <1>8 DEF InsertInInbox
    <2> QED
      BY <1>3, <1>8, <2>1, <2>2, InsertInInboxSets
  <1>9. ASSUME NEW c \in Conns, AddFollower(c) PROVE FileCurrent'
    BY <1>1, <1>2, <1>9, AddFollowerSets
  <1>10. ASSUME UNCHANGED vars PROVE FileCurrent'
    BY <1>1, <1>10 DEF vars, mapVars
  <1>11. ASSUME NEW c \in Conns, Run(c) \/ Receive(c) \/ (alive /\ PeerClose(c))
         PROVE  FileCurrent'
    BY <1>1, <1>4, <1>5, <1>6, <1>7, <1>8, <1>9, <1>11, QuietMap
       DEF Run, Create, Welcome, FanOut, Receive
  <1> QED
    BY <1>10, <1>11 DEF Next

(* Whenever nobody writes the map, state.json holds what is in it. *)
THEOREM StateFileStaysCurrent == Spec => []StateFileCurrent
  <1>1. Init => FileCurrent
    BY DEF Init, FileCurrent, Known
  <1>2. IInv /\ FileCurrent /\ [Next]_vars => FileCurrent'
    BY NextFileCurrent
  <1>3. FileCurrent => StateFileCurrent
    BY DEF FileCurrent, StateFileCurrent
  <1> QED
    BY Invariance, <1>1, <1>2, <1>3, PTL DEF Spec

-----------------------------------------------------------------------------
(* An inbox that is not empty while its owner has a session has a thread on
   its way to empty it.  Such a thread only stops being one by emptying the
   inbox, and a packet goes to an inbox only while no session is counted. *)
Fetchers(p) == {c \in Conns : who[c] = p /\ pc[c] \in {"hello", "fetch"}}

LEMMA InboxFetchers ==
  InboxHasFetcher <=>
    \A p \in Known :
      profiles[p].inbox # <<>> /\ profiles[p].sessions_on > 0 => Fetchers(p) # {}
  BY DEF InboxHasFetcher, Fetchers, SessionThreads

LEMMA FetchersStay ==
  ASSUME IInv, NEW c \in Conns,
         \/ Accept(c) \/ FirstPacketProfile(c) \/ FirstPacketEmpty(c) \/ PeerClose(c)
         \/ Create(c) \/ SendHello(c) \/ ReceiveFollow(c) \/ ReceiveSend(c)
         \/ ReceiveClose(c) \/ AddFollower(c) \/ FanOut(c)
  PROVE  \A p \in ProfileIds : Fetchers(p) # {} => Fetchers(p)' # {}
  <1>1. /\ pc \in [Conns -> Locations] /\ who \in [Conns -> ProfileIds \cup {nullptr}]
        /\ nullptr \notin ProfileIds
        /\ pc[c] = "first" => who[c] = nullptr
    BY ProfileIdsAssumption DEF IInv, Control, TypeOK, Identified
  <1> SUFFICES ASSUME NEW p \in ProfileIds PROVE Fetchers(p) \subseteq Fetchers(p)'
    OBVIOUS
  <1> USE DEF Fetchers, Goto
  <1>2. CASE Accept(c) \/ FirstPacketProfile(c) \/ FirstPacketEmpty(c) \/ PeerClose(c)
    BY <1>1, <1>2 DEF Accept, FirstPacketProfile, FirstPacketEmpty, PeerClose
  <1>3. CASE Create(c) \/ SendHello(c)
    BY <1>1, <1>3 DEF Create, CreateNew, CreateFound, CreateRefused, IncSessions, SendHello
  <1>4. CASE ReceiveFollow(c) \/ ReceiveSend(c) \/ ReceiveClose(c) \/ AddFollower(c)
    BY <1>1, <1>4 DEF ReceiveFollow, ReceiveSend, ReceiveCommand, ReceiveClose, AddFollower
  <1>5. CASE FanOut(c)
    BY <1>1, <1>5 DEF FanOut, StartFanOut, SendToFollower, InsertInInbox, EndFanOut
  <1> QED
    BY <1>2, <1>3, <1>4, <1>5

LEMMA NextInboxHasFetcher ==
  ASSUME IInv, InboxHasFetcher, [Next]_vars
  PROVE  InboxHasFetcher'
  <1> DEFINE Drained(o, fetchers) == o.inbox # <<>> /\ o.sessions_on > 0 => fetchers # {}
             Goal == \A p \in Known' : Drained(profiles'[p], Fetchers(p)')
             Stay == \A p \in ProfileIds : Fetchers(p) # {} => Fetchers(p)' # {}
  <1>1. /\ \A p \in Known : Drained(profiles[p], Fetchers(p)) /\ p \in ProfileIds
        /\ MapOK
    BY InboxFetchers DEF Known, IInv, Control
  <1>2. SUFFICES Goal
    BY <1>2, InboxFetchers DEF InboxHasFetcher, Fetchers, SessionThreads
  <1>3. ASSUME profiles' = profiles, Stay PROVE Goal
    BY <1>1, <1>3 DEF Known
  <1>4. ASSUME NEW p, NEW object, Sets(p, object), Drained(object, Fetchers(p)'),
               \A q \in ProfileIds : q # p /\ Fetchers(q) # {} => Fetchers(q)' # {}
        PROVE  Goal
    <2>1. /\ Known' = Known \cup {p} /\ profiles'[p] = object
          /\ \A q \in ProfileIds : q # p => profiles'[q] = profiles[q]
      BY <1>1, <1>4, SetsStep
    <2> QED
      BY <1>1, <1>4, <2>1
  <1>5. ASSUME NEW p \in Known, NEW object, Sets(p, object), Stay,
               object.inbox = profiles[p].inbox,
               object.sessions_on > 0 => profiles[p].sessions_on > 0
        PROVE  Goal
    BY <1>1, <1>4, <1>5
  <1>6. ASSUME NEW c \in Conns, CreateNew(c) PROVE Goal
    <2>1. Sets(who[c], NewProfile) /\ NewProfile.inbox = <<>>
      BY <1>6, CreateNewSets DEF NewProfile
    <2>2. Stay
      BY <1>6, FetchersStay DEF Create
    <2> HIDE DEF Goal
    <2> QED
      BY <1>4, <2>1, <2>2
  <1>7. ASSUME NEW c \in Conns, IncSessions(c) PROVE Goal
    <2>1. PICK p \in ProfileIds :
            p = who[c] /\ Sets(p, incSessionsOn(profiles[who[c]], c))
      BY <1>7, IncSessionsSets DEF Sets
    <2>2. c \in Fetchers(p)'
      BY <1>7, <2>1 DEF IncSessions, Goto, Fetchers, IInv, Control, TypeOK
    <2>3. Stay
      BY <1>7, FetchersStay DEF Create
    <2> HIDE DEF Goal
    <2> QED
      BY <1>4, <2>1, <2>2, <2>3
  <1>8. ASSUME NEW c \in Conns, FetchInbox(c) PROVE Goal
    <2>1. Sets(who[c], emptied(profiles[who[c]])) /\ emptied(profiles[who[c]]).inbox = <<>>
      BY <1>8, FetchInboxSets DEF emptied, Objects
    <2>2. \A q \in ProfileIds : q # who[c] => Fetchers(q)' = Fetchers(q)
      BY <1>8 DEF FetchInbox, Goto, Fetchers, IInv, Control, TypeOK
    <2> HIDE DEF Goal
    <2> QED
      BY <1>4, <2>1, <2>2
  <1>9. ASSUME NEW c \in Conns, ReceiveClose(c) PROVE Goal
    <2> DEFINE o == profiles[who[c]]
    <2>1. /\ Sets(who[c], decSessionsOn(o, c)) /\ who[c] \in Known
          /\ decSessionsOn(o, c).inbox = o.inbox
          /\ decSessionsOn(o, c).sessions_on = o.sessions_on - 1
          /\ o.sessions_on \in Int
      BY <1>9, ReceiveCloseSets, DecSessionsOn DEF Objects
    <2>2. Stay
      BY <1>9, FetchersStay
    <2>3. decSessionsOn(o, c).sessions_on > 0 => o.sessions_on > 0
      BY <2>1
    <2> HIDE DEF Goal
    <2> QED
      BY <1>5, <2>1, <2>2, <2>3
  <1>10. ASSUME NEW c \in Conns, InsertInInbox(c) PROVE Goal
    <2> DEFINE o == profiles[Follower(c)]
               after == insertPacket(o, Tweet(lastTweet))
    <2>1. /\ Sets(Follower(c), after) /\ o \in Objects
      BY <1>10, InsertInInboxSets
    <2>2. after.sessions_on = o.sessions_on /\ ~(o.sessions_on > 0)
      BY <1>10, <2>1 DEF insertPacket, InsertInInbox, keepsPacket, Objects
    <2>3. Stay
      BY <1>10, FetchersStay DEF FanOut
    <2> HIDE DEF Goal, after, o
    <2> QED
      BY <1>4, <2>1, <2>2, <2>3
  <1>11. ASSUME NEW c \in Conns, AddFollower(c) PROVE Goal
    <2>1. Stay
      BY <1>11, FetchersStay
    <2>2. CASE UNCHANGED <<profiles, stateFile>>
      BY <1>3, <2>1, <2>2
    <2>3. CASE /\ Sets(target[c], addFollower(profiles[target[c]], who[c]))
               /\ target[c] \in Known /\ profiles[target[c]] \in Objects
      <3> DEFINE o == profiles[target[c]]
                 after == addFollower(o, who[c])
      <3>1. after.inbox = o.inbox /\ after.sessions_on = o.sessions_on
        BY <2>3 DEF addFollower, Objects
      <3>2. Sets(target[c], after)
        BY <2>3
      <3> HIDE DEF Goal, after
      <3> QED
        BY <1>5, <2>1, <2>3, <3>1, <3>2
    <2> QED
      BY <1>11, <2>2, <2>3, AddFollowerSets
  <1>12. ASSUME UNCHANGED vars PROVE Goal
    BY <1>3, <1>12 DEF vars, mapVars, Fetchers
  <1>13. ASSUME NEW c \in Conns, Run(c) \/ Receive(c) \/ (alive /\ PeerClose(c))
         PROVE  Goal
    <2>1. ASSUME \/ Accept(c) \/ FirstPacketProfile(c) \/ FirstPacketEmpty(c)
                 \/ CreateFound(c) \/ CreateRefused(c) \/ SendHello(c)
                 \/ ReceiveFollow(c) \/ ReceiveSend(c)
                 \/ StartFanOut(c) \/ SendToFollower(c) \/ EndFanOut(c)
                 \/ PeerClose(c)
          PROVE  Goal
      <3>1. profiles' = profiles
        BY <2>1, QuietMap
      <3>2. Stay
        BY <2>1, FetchersStay DEF Create, FanOut
      <3> HIDE DEF Goal
      <3> QED
        BY <1>3, <3>1, <3>2
    <2> HIDE DEF Goal
    <2> QED
      BY <1>6, <1>7, <1>8, <1>9, <1>10, <1>11, <1>13, <2>1
         DEF Run, Create, Welcome, FanOut, Receive
  <1> QED
    BY <1>12, <1>13 DEF Next

(* A tweet that waits in the inbox of a profile that is online has a thread
   on its way to send it: no login slips past a fan-out. *)
THEOREM MailIsFetched == Spec => []InboxHasFetcher
  <1>1. Init => InboxHasFetcher
    BY DEF Init, InboxHasFetcher, Known
  <1>2. IInv /\ InboxHasFetcher /\ [Next]_vars => InboxHasFetcher'
    BY NextInboxHasFetcher
  <1> QED
    BY Invariance, <1>1, <1>2, PTL DEF Spec

-----------------------------------------------------------------------------
(* What is delivered: no packet twice on a connection, no parked packet lost,
   and out of order only around the inbox.                                  *)

Got(c) == ToSet(sent[c])
Waiting(p) == ToSet(profiles[p].inbox)

(* What is parked are tweets, and an inbox holds packets parked for it. *)
ParkedTweets == \A e \in parked : \E n \in 1 .. lastTweet : e[2] = Tweet(n)
InboxParked == \A p \in Known : \A x \in Waiting(p) : <<p, x>> \in parked

(* The oldest tweet is first in an inbox. *)
InboxOrdered ==
  \A p \in Known : \A j, k \in DOMAIN profiles[p].inbox :
    j < k => profiles[p].inbox[j][2] < profiles[p].inbox[k][2]

(* A connection is sent nothing before its session is counted, HELLO is the
   welcome, and nothing comes twice. *)
Unsent ==
  \A c \in Conns :
    /\ pc[c] \in {"unborn", "first", "create", "inc"} => sent[c] = <<>>
    /\ pc[c] = "hello" => HELLO \notin Got(c)
SentDistinct == \A c \in Conns : IsInjective(sent[c])

(* What a connection was sent waits in no inbox of its profile. *)
Apart == \A c \in Conns : who[c] \in Known => Got(c) \cap Waiting(who[c]) = {}

(* The tweet being fanned out has not reached the followers that sendToFollowersOf
   has not come to, neither directly nor through their inboxes. *)
FanFresh ==
  \A c \in Conns : pc[c] = "fan" =>
    \A j \in DOMAIN profiles[who[c]].followers : j >= i =>
      LET q == profiles[who[c]].followers[j] IN
      /\ <<q, Tweet(lastTweet)>> \notin parked
      /\ \A d \in Conns : who[d] = q => Tweet(lastTweet) \notin Got(d)

(* A parked packet that has left the inbox is older than all that are there. *)
ParkedOlder ==
  \A e \in parked : \A x \in Waiting(e[1]) : e[2] \notin Waiting(e[1]) => e[2][2] < x[2]

(* OnlyInboxOvertaken. *)
Overtaken ==
  \A c \in Conns : \A j, k \in DOMAIN sent[c] :
    j < k /\ sent[c][j][2] > sent[c][k][2] /\ sent[c][k] # HELLO /\ sent[c][k] # CLOSE_CONN =>
      <<who[c], sent[c][k]>> \in parked /\ <<who[c], sent[c][j]>> \notin parked

(* NothingLost. *)
Delivered ==
  \A e \in parked : e[2] \in Waiting(e[1]) \/ \E c \in Conns : who[c] = e[1] /\ e[2] \in Got(c)

Inboxes == ParkedTweets /\ InboxParked /\ InboxOrdered /\ ParkedOlder
Sockets == Unsent /\ SentDistinct /\ Apart /\ FanFresh /\ Overtaken /\ Delivered
DInv == Inboxes /\ Sockets

-----------------------------------------------------------------------------
(* Packets and their numbers. *)
LEMMA PacketNumbers ==
  /\ HELLO[2] = 0 /\ CLOSE_CONN[2] = 0 /\ HELLO # CLOSE_CONN
  /\ \A n \in Nat : Tweet(n)[2] = n
  BY DEF HELLO, CLOSE_CONN, Tweet

LEMMA TweetIsNoGreeting ==
  \A n \in Nat : n >= 1 => Tweet(n) # HELLO /\ Tweet(n) # CLOSE_CONN
  BY PacketNumbers

LEMMA PacketCases ==
  ASSUME lastTweet \in Nat, NEW x \in Packets
  PROVE  /\ x[2] \in 0 .. lastTweet
         /\ x # HELLO /\ x # CLOSE_CONN => x[2] >= 1 /\ x = Tweet(x[2])
  <1>1. x = HELLO \/ x = CLOSE_CONN \/ \E n \in 1 .. lastTweet : x = Tweet(n)
    BY DEF Packets
  <1> QED
    BY <1>1, PacketNumbers

(* The types of what is delivered. *)
LEMMA DeliveryTypes ==
  ASSUME IInv
  PROVE  /\ lastTweet \in Nat /\ i \in Nat
         /\ parked \subseteq Known \X Packets
         /\ \A c \in Conns : sent[c] \in Seq(Packets) /\ Got(c) \subseteq Packets
         /\ \A p \in Known : /\ p \in ProfileIds /\ profiles[p] \in Objects
                             /\ profiles[p].inbox \in Seq(Packets)
                             /\ Waiting(p) \subseteq Packets
                             /\ profiles[p].followers \in Seq(ProfileIds)
  <1>1. \A c \in Conns : sent[c] \in Seq(Packets)
    BY DEF IInv, Control, TypeOK
  <1>2. \A p \in Known : profiles[p].inbox \in Seq(Packets) /\ profiles[p] \in Objects
    BY KnownTyped DEF Typed
  <1>3. \A c \in Conns : Got(c) \subseteq Packets
    BY <1>1, ToSetType DEF Got
  <1>4. \A p \in Known : Waiting(p) \subseteq Packets
    BY <1>2, ToSetType DEF Waiting
  <1> QED
    BY <1>1, <1>2, <1>3, <1>4 DEF IInv, Control, TypeOK, Known, Objects

(* The steps that hand over no packet, change no inbox and start or advance
   no fan-out. *)
Silent == {"unborn", "first", "create", "inc"}

LEMMA QuietDelivery ==
  ASSUME IInv, DInv, sent' = sent, parked' = parked, lastTweet' = lastTweet,
         Known \subseteq Known',
         \A p \in Known : profiles'[p].inbox = profiles[p].inbox,
         \A p \in Known' : p \notin Known => profiles'[p].inbox = <<>>,
         \A c \in Conns :
           /\ who'[c] = who[c] \/ sent[c] = <<>>
           /\ pc'[c] \in Silent => pc[c] \in Silent
           /\ pc'[c] = "hello" => pc[c] \in Silent \cup {"hello"}
           /\ pc'[c] = "fan" =>
                /\ pc[c] = "fan" /\ who'[c] = who[c] /\ i' = i
                /\ profiles'[who[c]].followers = profiles[who[c]].followers
  PROVE  DInv'
  <1>1. /\ \A p \in Known : Waiting(p)' = Waiting(p)
        /\ \A p \in Known' : p \notin Known => Waiting(p)' = {}
        /\ \A c \in Conns : Got(c)' = Got(c)
        /\ \A c \in Conns : sent[c] = <<>> => Got(c) = {}
        /\ parked \subseteq Known \X Packets
    BY DeliveryTypes DEF Waiting, Got, ToSet
  <1>2. ParkedTweets' /\ InboxParked'
    BY <1>1 DEF DInv, Inboxes, ParkedTweets, InboxParked
  <1>3. InboxOrdered'
    BY DEF DInv, Inboxes, InboxOrdered
  <1>4. ParkedOlder'
    BY <1>1 DEF DInv, Inboxes, ParkedOlder
  <1>5. Unsent'
    BY <1>1 DEF DInv, Sockets, Unsent, Silent
  <1>6. SentDistinct'
    BY DEF DInv, Sockets, SentDistinct
  <1>7. Apart'
    BY <1>1 DEF DInv, Sockets, Apart
  <1>8. FanFresh'
    BY <1>1 DEF DInv, Sockets, FanFresh
  <1>9. Overtaken'
    BY <1>1 DEF DInv, Sockets, Overtaken
  <1>10. Delivered'
    BY <1>1 DEF DInv, Sockets, Delivered
  <1> QED
    BY <1>2, <1>3, <1>4, <1>5, <1>6, <1>7, <1>8, <1>9, <1>10 DEF DInv, Inboxes, Sockets

LEMMA QuietSteps ==
  ASSUME IInv, DInv, NEW c \in Conns,
         \/ Accept(c) \/ FirstPacketProfile(c) \/ FirstPacketEmpty(c) \/ PeerClose(c)
         \/ CreateNew(c) \/ CreateFound(c) \/ IncSessions(c)
         \/ ReceiveFollow(c) \/ ReceiveSend(c) \/ ReceiveClose(c)
         \/ AddFollower(c) \/ EndFanOut(c)
  PROVE  DInv'
  <1>1. /\ pc \in [Conns -> Locations] /\ who \in [Conns -> ProfileIds \cup {nullptr}]
        /\ \A d \in Conns : pc[d] \in Silent => sent[d] = <<>>
        /\ MapOK
        /\ \A d \in Conns : pc[d] = "fan" => writer = d /\ who[d] \in Known
        /\ \A p \in Known : p \in ProfileIds /\ profiles[p] # nullptr
        /\ nullptr \notin Conns
    BY KnownObject, ConnsAssumption
       DEF IInv, Control, TypeOK, Identified, WriterInside, DInv, Sockets, Unsent, Silent
  <1> DEFINE Threads ==
        \A d \in Conns :
          /\ who'[d] = who[d] \/ sent[d] = <<>>
          /\ pc'[d] \in Silent => pc[d] \in Silent
          /\ pc'[d] = "hello" => pc[d] \in Silent \cup {"hello"}
          /\ pc'[d] = "fan" => pc[d] = "fan" /\ who'[d] = who[d] /\ i' = i
  <1>2. ASSUME Threads, sent' = sent, parked' = parked, lastTweet' = lastTweet, profiles' = profiles
        PROVE  DInv'
    <2>1. Known' = Known
      BY <1>2 DEF Known
    <2> QED
      BY <1>2, <2>1, QuietDelivery
  <1>3. ASSUME NEW p \in Known, NEW object, Sets(p, object), Threads,
               sent' = sent, parked' = parked, lastTweet' = lastTweet,
               object.inbox = profiles[p].inbox,
               \/ object.followers = profiles[p].followers
               \/ \A d \in Conns : pc[d] # "fan"
        PROVE  DInv'
    <2>1. /\ Known' = Known \cup {p} /\ profiles'[p] = object
          /\ \A q \in ProfileIds : q # p => profiles'[q] = profiles[q]
      BY <1>1, <1>3, SetsStep
    <2>2. Known' = Known /\ \A q \in Known : profiles'[q].inbox = profiles[q].inbox
      BY <1>1, <1>3, <2>1
    <2>3. \A d \in Conns :
            pc[d] = "fan" => profiles'[who[d]].followers = profiles[who[d]].followers
      BY <1>1, <1>3, <2>1
    <2> QED
      BY <1>3, <2>2, <2>3, QuietDelivery
  <1>4. CASE Accept(c) \/ FirstPacketProfile(c) \/ FirstPacketEmpty(c) \/ PeerClose(c)
    <2>1. /\ sent' = sent /\ parked' = parked /\ lastTweet' = lastTweet /\ profiles' = profiles
      BY <1>4 DEF Accept, FirstPacketProfile, FirstPacketEmpty, PeerClose, mapVars, netVars
    <2>2. Threads
      BY <1>1, <1>4 DEF Accept, FirstPacketProfile, FirstPacketEmpty, PeerClose, Goto,
                        Silent, mapVars
    <2> QED
      BY <1>2, <2>1, <2>2
  <1>5. CASE ReceiveFollow(c) \/ ReceiveSend(c)
    <2>1. /\ sent' = sent /\ parked' = parked /\ lastTweet' = lastTweet /\ profiles' = profiles
      BY <1>5 DEF ReceiveFollow, ReceiveSend, mapVars, netVars
    <2>2. Threads
      BY <1>1, <1>5 DEF ReceiveFollow, ReceiveSend, ReceiveCommand, Goto, Silent, mapVars
    <2> QED
      BY <1>2, <2>1, <2>2
  <1>6. CASE CreateFound(c) \/ EndFanOut(c)
    <2>1. /\ sent' = sent /\ parked' = parked /\ lastTweet' = lastTweet /\ profiles' = profiles
      BY <1>6 DEF CreateFound, EndFanOut, netVars
    <2>2. Threads
      BY <1>1, <1>6 DEF CreateFound, EndFanOut, Goto, Silent
    <2> QED
      BY <1>2, <2>1, <2>2
  <1>7. CASE CreateNew(c)
    <2>1. sent' = sent /\ parked' = parked /\ lastTweet' = lastTweet
      BY <1>7 DEF CreateNew, netVars
    <2>2. Threads
      BY <1>1, <1>7 DEF CreateNew, Goto, Silent
    <2>3. Sets(who[c], NewProfile) /\ who[c] \notin Known
      BY <1>7, CreateNewSets
    <2>4. /\ Known' = Known \cup {who[c]} /\ profiles'[who[c]] = NewProfile
          /\ \A q \in ProfileIds : q # who[c] => profiles'[q] = profiles[q]
      BY <1>1, <2>3, SetsStep
    <2>5. \A p \in Known : profiles'[p] = profiles[p]
      BY <1>1, <2>3, <2>4
    <2>6. \A p \in Known' : p \notin Known => profiles'[p].inbox = <<>>
      BY <2>4 DEF NewProfile
    <2>7. Known \subseteq Known'
      BY <2>4
    <2> QED
      BY <1>1, <2>1, <2>2, <2>5, <2>6, <2>7, QuietDelivery
  <1>8. CASE IncSessions(c)
    <2>1. sent' = sent /\ parked' = parked /\ lastTweet' = lastTweet
      BY <1>8 DEF IncSessions, netVars
    <2>2. Threads
      BY <1>1, <1>8 DEF IncSessions, Goto, Silent
    <2> HIDE DEF Threads
    <2> QED
      BY <1>3, <1>8, <2>1, <2>2, IncSessionsSets, IncSessionsOn
  <1>9. CASE ReceiveClose(c)
    <2>1. sent' = sent /\ parked' = parked /\ lastTweet' = lastTweet
      BY <1>9 DEF ReceiveClose, netVars
    <2>2. Threads
      BY <1>1, <1>9 DEF ReceiveClose, Goto, Silent
    <2> HIDE DEF Threads
    <2> QED
      BY <1>3, <1>9, <2>1, <2>2, ReceiveCloseSets, DecSessionsOn
  <1>10. CASE AddFollower(c)
    <2>1. sent' = sent /\ parked' = parked /\ lastTweet' = lastTweet
      BY <1>10 DEF AddFollower, netVars
    <2>2. Threads /\ \A d \in Conns : pc[d] # "fan"
      BY <1>1, <1>10 DEF AddFollower, Goto, Silent, LockFree
    <2>3. CASE UNCHANGED <<profiles, stateFile>>
      BY <1>2, <2>1, <2>2, <2>3
    <2>4. CASE /\ Sets(target[c], addFollower(profiles[target[c]], who[c]))
               /\ target[c] \in Known /\ profiles[target[c]] \in Objects
      <3> DEFINE o == addFollower(profiles[target[c]], who[c])
      <3>1. o.inbox = profiles[target[c]].inbox /\ Sets(target[c], o)
        BY <2>4 DEF addFollower, Objects
      <3> HIDE DEF Threads, o
      <3> QED
        BY <1>3, <2>1, <2>2, <2>4, <3>1
    <2> QED
      BY <1>10, <2>3, <2>4, AddFollowerSets
  <1> QED
    BY <1>4, <1>5, <1>6, <1>7, <1>8, <1>9, <1>10

-----------------------------------------------------------------------------
(* What a step that sends does to the packets of each connection. *)
LEMMA SendStep ==
  ASSUME IInv, NEW cs, NEW packets \in Seq(Packets), Send(cs, packets)
  PROVE  \A c \in Conns :
           IF c \in cs
           THEN sent'[c] = sent[c] \o packets /\ Got(c)' = Got(c) \cup ToSet(packets)
           ELSE sent'[c] = sent[c] /\ Got(c)' = Got(c)
  <1> TAKE c \in Conns
  <1>1. sent'[c] = IF c \in cs THEN sent[c] \o packets ELSE sent[c]
    BY DEF Send
  <1>2. sent[c] \in Seq(Packets)
    BY DeliveryTypes
  <1> QED
    BY <1>1, <1>2, ConcatToSet DEF Got

(* Overtaken, for the packets of one connection of p. *)
Late(s, p) ==
  \A j, k \in DOMAIN s :
    j < k /\ s[j][2] > s[k][2] /\ s[k] # HELLO /\ s[k] # CLOSE_CONN =>
      <<p, s[k]>> \in parked /\ <<p, s[j]>> \notin parked

LEMMA LateConcat ==
  ASSUME NEW S, NEW s \in Seq(S), NEW t \in Seq(S), NEW p, Late(s, p), Late(t, p),
         \A x \in ToSet(s), y \in ToSet(t) :
           x[2] > y[2] /\ y # HELLO /\ y # CLOSE_CONN =>
             <<p, y>> \in parked /\ <<p, x>> \notin parked
  PROVE  Late(s \o t, p)
  <1> SUFFICES ASSUME NEW j \in DOMAIN (s \o t), NEW k \in DOMAIN (s \o t),
                      j < k, (s \o t)[j][2] > (s \o t)[k][2],
                      (s \o t)[k] # HELLO, (s \o t)[k] # CLOSE_CONN
               PROVE  /\ <<p, (s \o t)[k]>> \in parked
                      /\ <<p, (s \o t)[j]>> \notin parked
    BY DEF Late
  <1>1. /\ Len(s) \in Nat /\ DOMAIN s = 1 .. Len(s)
        /\ \A n \in DOMAIN (s \o t) :
             \/ n \in DOMAIN s /\ (s \o t)[n] = s[n]
             \/ /\ n > Len(s) /\ n - Len(s) \in DOMAIN t
                /\ (s \o t)[n] = t[n - Len(s)]
        /\ DOMAIN (s \o t) \subseteq Nat
    BY ConcatElements, SMTT(30)
  <1>2. CASE k \in DOMAIN s /\ (s \o t)[k] = s[k]
    <2>1. j \in DOMAIN s /\ (s \o t)[j] = s[j]
      BY <1>1, <1>2
    <2> QED
      BY <1>2, <2>1 DEF Late
  <1>3. CASE k > Len(s) /\ k - Len(s) \in DOMAIN t /\ (s \o t)[k] = t[k - Len(s)]
    <2>1. CASE j \in DOMAIN s /\ (s \o t)[j] = s[j]
      <3>1. s[j] \in ToSet(s) /\ t[k - Len(s)] \in ToSet(t)
        BY <1>3, <2>1 DEF ToSet
      <3> QED
        BY <1>3, <2>1, <3>1
    <2>2. CASE j > Len(s) /\ j - Len(s) \in DOMAIN t /\ (s \o t)[j] = t[j - Len(s)]
      <3>1. j - Len(s) < k - Len(s)
        BY <1>1
      <3> QED
        BY <1>3, <2>2, <3>1 DEF Late
    <2> QED
      BY <1>1, <2>1, <2>2
  <1> QED
    BY <1>1, <1>2, <1>3

LEMMA LateSingleton == \A x, p : Late(<<x>>, p)
  BY DEF Late

LEMMA OvertakenIsLate == Overtaken <=> \A c \in Conns : Late(sent[c], who[c])
  BY DEF Overtaken, Late

-----------------------------------------------------------------------------
(* HELLO, and the CLOSE_CONN of a refusal. *)
LEMMA GreetingStep ==
  ASSUME IInv, DInv, NEW c \in Conns, NEW x \in {HELLO, CLOSE_CONN}, x \notin Got(c),
         Send({c}, <<x>>), profiles' = profiles, parked' = parked, lastTweet' = lastTweet,
         who' = who, i' = i,
         \A d \in Conns : /\ pc'[d] \in Silent => pc[d] \in Silent /\ d # c
                          /\ pc'[d] = "hello" => pc[d] = "hello" /\ d # c
                          /\ pc'[d] = "fan" => pc[d] = "fan"
  PROVE  DInv'
  <1>1. /\ x \in Packets /\ <<x>> \in Seq(Packets) /\ lastTweet \in Nat
        /\ \A d \in Conns : sent[d] \in Seq(Packets)
        /\ ToSet(<<x>>) = {x}
    BY DeliveryTypes, PacketsType, ToSetSingleton
  <1>2. \A n \in Nat : n >= 1 => Tweet(n) # x
    BY TweetIsNoGreeting
  <1>3. /\ Known' = Known
        /\ \A p \in Known : Waiting(p)' = Waiting(p)
        /\ \A d \in Conns : Got(d) \subseteq Got(d)' /\ Got(d)' \subseteq Got(d) \cup {x}
        /\ \A d \in Conns : d # c => sent'[d] = sent[d] /\ Got(d)' = Got(d)
        /\ sent'[c] = sent[c] \o <<x>>
    <2>1. Known' = Known /\ \A p \in Known : Waiting(p)' = Waiting(p)
      BY DEF Known, Waiting
    <2>2. \A d \in Conns :
            IF d \in {c}
            THEN sent'[d] = sent[d] \o <<x>> /\ Got(d)' = Got(d) \cup ToSet(<<x>>)
            ELSE sent'[d] = sent[d] /\ Got(d)' = Got(d)
      BY <1>1, SendStep
    <2>3. \A d \in Conns : Got(d) \subseteq Got(d)' /\ Got(d)' \subseteq Got(d) \cup {x}
      BY <1>1, <2>2
    <2> QED
      BY <2>1, <2>2, <2>3
  <1>4. /\ \A p \in Known : x \notin Waiting(p)
        /\ parked \subseteq Known \X Packets
    <2>1. ASSUME NEW p \in Known, NEW y \in Waiting(p) PROVE x # y
      <3>1. PICK n \in 1 .. lastTweet : y = Tweet(n)
        BY <2>1 DEF DInv, Inboxes, ParkedTweets, InboxParked
      <3> QED
        BY <1>1, <1>2, <3>1
    <2> QED
      BY <2>1, DeliveryTypes
  <1>5. Inboxes'
    <2>1. ParkedTweets' /\ InboxParked'
      BY <1>3 DEF DInv, Inboxes, ParkedTweets, InboxParked
    <2>2. InboxOrdered'
      BY <1>3 DEF DInv, Inboxes, InboxOrdered
    <2>3. ParkedOlder'
      BY <1>3, <1>4 DEF DInv, Inboxes, ParkedOlder
    <2> QED
      BY <2>1, <2>2, <2>3 DEF Inboxes
  <1>6. Unsent'
    BY <1>3 DEF DInv, Sockets, Unsent, Silent
  <1>7. SentDistinct'
    <2>1. IsInjective(sent[c] \o <<x>>)
      <3>1. IsInjective(<<x>>) /\ IsInjective(sent[c]) /\ ToSet(sent[c]) \cap ToSet(<<x>>) = {}
        BY <1>1 DEF IsInjective, Got, DInv, Sockets, SentDistinct
      <3> QED
        BY <1>1, <3>1, ConcatDistinct
    <2> QED
      BY <1>3, <2>1 DEF DInv, Sockets, SentDistinct
  <1>8. Apart'
    BY <1>3, <1>4 DEF DInv, Sockets, Apart
  <1>9. FanFresh'
    <2>1. ASSUME NEW d \in Conns, pc'[d] = "fan" PROVE Tweet(lastTweet) # x
      <3>1. lastTweet >= 1
        BY <2>1 DEF IInv, Control, FanIndex
      <3> QED
        BY <1>1, <1>2, <3>1
    <2> QED
      BY <1>3, <2>1 DEF DInv, Sockets, FanFresh
  <1>10. Overtaken'
    <2>1. Late(sent[c] \o <<x>>, who[c])
      <3>1. Late(sent[c], who[c]) /\ Late(<<x>>, who[c])
        BY OvertakenIsLate, LateSingleton DEF DInv, Sockets
      <3> QED
        BY <1>1, <3>1, LateConcat
    <2>2. ASSUME NEW d \in Conns, NEW j \in DOMAIN sent'[d], NEW k \in DOMAIN sent'[d],
                 j < k, sent'[d][j][2] > sent'[d][k][2], sent'[d][k] # HELLO, sent'[d][k] # CLOSE_CONN
          PROVE  <<who[d], sent'[d][k]>> \in parked /\ <<who[d], sent'[d][j]>> \notin parked
      <3>1. Late(sent'[d], who[d])
        BY <1>3, <2>1, OvertakenIsLate DEF DInv, Sockets
      <3> QED
        BY <2>2, <3>1 DEF Late
    <2> QED
      BY <1>3, <2>2 DEF Overtaken
  <1>11. Delivered'
    BY <1>3, <1>4 DEF DInv, Sockets, Delivered
  <1> QED
    BY <1>5, <1>6, <1>7, <1>8, <1>9, <1>10, <1>11 DEF DInv, Sockets

LEMMA SendHelloDelivery ==
  ASSUME IInv, DInv, NEW c \in Conns, SendHello(c)
  PROVE  DInv'
  <1>1. /\ profiles' = profiles /\ parked' = parked /\ lastTweet' = lastTweet
        /\ who' = who /\ i' = i
    BY DEF SendHello, mapVars
  <1>2. Send({c}, <<HELLO>>) /\ pc[c] = "hello" /\ pc' = [pc EXCEPT ![c] = "fetch"]
    BY DEF SendHello, Goto
  <1>3. HELLO \notin Got(c)
    BY <1>2 DEF DInv, Sockets, Unsent
  <1>4. pc \in [Conns -> Locations]
    BY DEF IInv, Control, TypeOK
  <1>5. \A d \in Conns : /\ pc'[d] \in Silent => pc[d] \in Silent /\ d # c
                         /\ pc'[d] = "hello" => pc[d] = "hello" /\ d # c
                         /\ pc'[d] = "fan" => pc[d] = "fan"
    BY <1>2, <1>4 DEF Silent
  <1> QED
    BY <1>1, <1>2, <1>3, <1>5, GreetingStep

LEMMA CreateRefusedDelivery ==
  ASSUME IInv, DInv, NEW c \in Conns, CreateRefused(c)
  PROVE  DInv'
  <1>1. /\ profiles' = profiles /\ parked' = parked /\ lastTweet' = lastTweet
        /\ who' = who /\ i' = i
    BY DEF CreateRefused
  <1>2. Send({c}, <<CLOSE_CONN>>) /\ pc[c] = "create" /\ pc' = [pc EXCEPT ![c] = "rejected"]
    BY DEF CreateRefused, Goto
  <1>3. CLOSE_CONN \notin Got(c)
    BY <1>2 DEF DInv, Sockets, Unsent, Got, ToSet
  <1>4. pc \in [Conns -> Locations]
    BY DEF IInv, Control, TypeOK
  <1>5. \A d \in Conns : /\ pc'[d] \in Silent => pc[d] \in Silent /\ d # c
                         /\ pc'[d] = "hello" => pc[d] = "hello" /\ d # c
                         /\ pc'[d] = "fan" => pc[d] = "fan"
    BY <1>2, <1>4 DEF Silent
  <1> QED
    BY <1>1, <1>2, <1>3, <1>5, GreetingStep

-----------------------------------------------------------------------------
(* The tweet whose fan-out begins has a number that no packet has. *)
LEMMA StartFanOutDelivery ==
  ASSUME IInv, DInv, NEW c \in Conns, StartFanOut(c)
  PROVE  DInv'
  <1>1. /\ sent' = sent /\ profiles' = profiles /\ parked' = parked /\ who' = who
        /\ lastTweet' = lastTweet + 1 /\ i' = 1
        /\ pc[c] = "send" /\ pc' = [pc EXCEPT ![c] = "fan"]
    BY DEF StartFanOut, netVars, Goto
  <1>2. /\ lastTweet \in Nat /\ parked \subseteq Known \X Packets
        /\ \A d \in Conns : Got(d) \subseteq Packets
        /\ pc \in [Conns -> Locations]
        /\ \A d \in Conns : pc[d] # "fan"
    BY DeliveryTypes, ConnsAssumption DEF IInv, Control, TypeOK, WriterInside, StartFanOut, LockFree
  <1>3. /\ Known' = Known
        /\ \A p \in Known : Waiting(p)' = Waiting(p)
        /\ \A d \in Conns : Got(d)' = Got(d)
    BY <1>1 DEF Known, Waiting, Got
  <1>4. Tweet(lastTweet') \notin Packets
    <2>1. Tweet(lastTweet')[2] = lastTweet + 1
      BY <1>1, <1>2, PacketNumbers
    <2>2. \A x \in Packets : x[2] <= lastTweet
      BY <1>2, PacketCases
    <2> QED
      BY <1>2, <2>1, <2>2
  <1>5. Inboxes'
    <2>1. ParkedTweets'
      BY <1>1, <1>2 DEF DInv, Inboxes, ParkedTweets
    <2>2. InboxParked' /\ InboxOrdered' /\ ParkedOlder'
      BY <1>1, <1>2, <1>3 DEF DInv, Inboxes, InboxParked, InboxOrdered, ParkedOlder
    <2> QED
      BY <2>1, <2>2 DEF Inboxes
  <1>6. Unsent' /\ SentDistinct' /\ Apart'
    BY <1>1, <1>2, <1>3 DEF DInv, Sockets, Unsent, SentDistinct, Apart
  <1>7. FanFresh'
    BY <1>1, <1>2, <1>3, <1>4 DEF FanFresh
  <1>8. Overtaken' /\ Delivered'
    BY <1>1, <1>2, <1>3 DEF DInv, Sockets, Overtaken, Delivered
  <1> QED
    BY <1>5, <1>6, <1>7, <1>8 DEF DInv, Sockets

-----------------------------------------------------------------------------
(* What is known of the follower that sendToFollowersOf has come to. *)
LEMMA FanOutTarget ==
  ASSUME IInv, DInv, NEW c \in Conns, MoreFollowers(c)
  PROVE  /\ Follower(c) \in Known /\ Follower(c) \in ProfileIds
         /\ profiles[Follower(c)] \in Objects
         /\ lastTweet >= 1 /\ lastTweet \in Nat /\ Tweet(lastTweet) \in Packets
         /\ Tweet(lastTweet) # HELLO /\ Tweet(lastTweet) # CLOSE_CONN
         /\ <<Follower(c), Tweet(lastTweet)>> \notin parked
         /\ Tweet(lastTweet) \notin Waiting(Follower(c))
         /\ \A d \in Conns : who[d] = Follower(c) => Tweet(lastTweet) \notin Got(d)
         /\ \A d \in Conns : pc[d] = "fan" => d = c
         /\ \A j \in DOMAIN profiles[who[c]].followers :
              j >= i + 1 => j >= i /\ profiles[who[c]].followers[j] # Follower(c)
  <1>1. /\ i \in DOMAIN profiles[who[c]].followers
        /\ Follower(c) \in Known /\ Follower(c) \in ProfileIds
        /\ profiles[Follower(c)] \in Objects
        /\ lastTweet >= 1
    BY FollowerKnown DEF IInv, Control
  <1>2. lastTweet \in Nat /\ Tweet(lastTweet) \in Packets
    BY <1>1, PacketsType DEF IInv, Control, TypeOK
  <1>3. Tweet(lastTweet) # HELLO /\ Tweet(lastTweet) # CLOSE_CONN
    BY <1>1, <1>2, TweetIsNoGreeting
  <1>4. /\ <<Follower(c), Tweet(lastTweet)>> \notin parked
        /\ \A d \in Conns : who[d] = Follower(c) => Tweet(lastTweet) \notin Got(d)
    <2>1. pc[c] = "fan" /\ i >= i
      BY <1>1 DEF MoreFollowers, IInv, Control, TypeOK
    <2> QED
      BY <1>1, <2>1 DEF Follower, DInv, Sockets, FanFresh
  <1>5. Tweet(lastTweet) \notin Waiting(Follower(c))
    BY <1>1, <1>4 DEF DInv, Inboxes, InboxParked
  <1>6. \A d \in Conns : pc[d] = "fan" => d = c
    BY DEF MoreFollowers, IInv, Control, WriterInside
  <1>7. ASSUME NEW j \in DOMAIN profiles[who[c]].followers, j >= i + 1
        PROVE  j >= i /\ profiles[who[c]].followers[j] # Follower(c)
    <2>1. who[c] \in Known /\ profiles[who[c]] \in Objects
      BY WhoKnown DEF MoreFollowers, IInv, Control
    <2>2. IsInjective(profiles[who[c]].followers)
      BY <2>1 DEF IInv, FollowersOK
    <2>3. j \in Nat /\ i \in Nat /\ j # i /\ j >= i
      <3>1. profiles[who[c]].followers \in Seq(ProfileIds)
        BY <2>1 DEF Objects
      <3> QED
        BY <1>1, <1>7, <3>1 DEF IInv, Control, TypeOK
    <2> QED
      BY <1>1, <2>2, <2>3 DEF Follower, IsInjective
  <1> QED
    BY <1>1, <1>2, <1>3, <1>4, <1>5, <1>6, <1>7

-----------------------------------------------------------------------------
(* A tweet that is parked is the youngest there is, and new. *)
LEMMA InsertInInboxDelivery ==
  ASSUME IInv, DInv, NEW c \in Conns, InsertInInbox(c)
  PROVE  DInv'
  <1> DEFINE T == Tweet(lastTweet)
  <1>1. PICK q \in ProfileIds : q = Follower(c)
    BY FanOutTarget DEF InsertInInbox
  <1>2. /\ q \in Known /\ profiles[q] \in Objects
        /\ lastTweet >= 1 /\ lastTweet \in Nat /\ T \in Packets
        /\ T # HELLO /\ T # CLOSE_CONN /\ T[2] = lastTweet
        /\ <<q, T>> \notin parked /\ T \notin Waiting(q)
        /\ \A d \in Conns : who[d] = q => T \notin Got(d)
        /\ \A d \in Conns : pc[d] = "fan" => d = c
        /\ \A j \in DOMAIN profiles[who[c]].followers :
              j >= i + 1 => j >= i /\ profiles[who[c]].followers[j] # q
    BY <1>1, FanOutTarget, PacketNumbers DEF InsertInInbox
  <1>3. /\ sent' = sent /\ lastTweet' = lastTweet /\ i' = i + 1 /\ who' = who /\ pc' = pc
        /\ parked' = parked \cup {<<q, T>>}
    BY <1>1 DEF InsertInInbox, netVars
  <1>4. Sets(q, insertPacket(profiles[q], T))
    BY <1>1, InsertInInboxSets
  <1>5. /\ \A d \in Conns : sent[d] \in Seq(Packets)
        /\ parked \subseteq Known \X Packets
        /\ \A p \in Known : /\ p \in ProfileIds
                            /\ profiles[p].inbox \in Seq(Packets)
                            /\ Waiting(p) \subseteq Packets
        /\ i \in Nat
    BY DeliveryTypes
  <1>6. /\ Known' = Known
        /\ profiles'[q].inbox = Append(profiles[q].inbox, T)
        /\ profiles'[q].followers = profiles[q].followers
        /\ \A p \in ProfileIds : p # q => profiles'[p] = profiles[p]
    <2>1. /\ Known' = Known \cup {q} /\ profiles'[q] = insertPacket(profiles[q], T)
          /\ \A p \in ProfileIds : p # q => profiles'[p] = profiles[p]
      BY <1>4, SetsStep DEF IInv, Control
    <2>2. /\ insertPacket(profiles[q], T).inbox = Append(profiles[q].inbox, T)
          /\ insertPacket(profiles[q], T).followers = profiles[q].followers
      BY <1>2 DEF insertPacket, Objects
    <2> QED
      BY <1>2, <2>1, <2>2
  <1>7. /\ \A d \in Conns : Got(d)' = Got(d)
        /\ Waiting(q)' = Waiting(q) \cup {T}
        /\ \A p \in Known : p # q => Waiting(p)' = Waiting(p)
    <2>1. Waiting(q)' = Waiting(q) \cup {T}
      BY <1>2, <1>5, <1>6, AppendDistinct DEF Waiting
    <2> QED
      BY <1>3, <1>5, <1>6, <2>1 DEF Got, Waiting
  <1> HIDE DEF T
  <1>8. ParkedTweets'
    <2>1. \E n \in 1 .. lastTweet : T = Tweet(n)
      BY <1>2 DEF T
    <2> QED
      BY <1>3, <2>1 DEF DInv, Inboxes, ParkedTweets
  <1>9. InboxParked'
    BY <1>2, <1>3, <1>6, <1>7 DEF DInv, Inboxes, InboxParked
  <1>10. \A e \in parked : e[1] = q => e[2][2] < lastTweet
    <2> SUFFICES ASSUME NEW e \in parked, e[1] = q PROVE e[2][2] < lastTweet
      OBVIOUS
    <2>1. PICK n \in 1 .. lastTweet : e[2] = Tweet(n)
      BY DEF DInv, Inboxes, ParkedTweets
    <2>2. e = <<q, e[2]>>
      BY <1>5
    <2>3. n # lastTweet
      BY <1>2, <2>1, <2>2 DEF T
    <2> QED
      BY <1>2, <2>1, <2>3, PacketNumbers
  <1>11. \A x \in Waiting(q) : x[2] < lastTweet
    <2> SUFFICES ASSUME NEW x \in Waiting(q) PROVE x[2] < lastTweet
      OBVIOUS
    <2>1. <<q, x>> \in parked
      BY <1>2 DEF DInv, Inboxes, InboxParked
    <2> QED
      BY <1>10, <2>1
  <1>12. InboxOrdered'
    <2> DEFINE s == profiles[q].inbox
               t == Append(s, T)
    <2>1. /\ DOMAIN s = 1 .. Len(s) /\ Len(s) \in Nat /\ DOMAIN t = 1 .. (Len(s) + 1)
          /\ \A n \in 1 .. Len(s) : t[n] = s[n]
          /\ t[Len(s) + 1] = T
      <3>1. s \in Seq(Packets)
        BY <1>2, <1>5
      <3> HIDE DEF s
      <3> QED
        BY <1>2, <3>1, AppendProperties, LenProperties
    <2>2. \A n \in 1 .. Len(s) : s[n] \in Waiting(q)
      BY <2>1 DEF Waiting, ToSet
    <2>3. \A j, k \in 1 .. Len(s) : j < k => s[j][2] < s[k][2]
      BY <1>2, <2>1 DEF DInv, Inboxes, InboxOrdered
    <2> HIDE DEF s, t
    <2>4. \A j, k \in DOMAIN t : j < k => t[j][2] < t[k][2]
      <3> SUFFICES ASSUME NEW j \in DOMAIN t, NEW k \in DOMAIN t, j < k
                   PROVE  t[j][2] < t[k][2]
        OBVIOUS
      <3>1. j \in 1 .. Len(s)
        BY <2>1
      <3>2. CASE k \in 1 .. Len(s)
        BY <2>1, <2>3, <3>1, <3>2
      <3>3. CASE k = Len(s) + 1
        BY <1>2, <1>11, <2>1, <2>2, <3>1, <3>3
      <3> QED
        BY <2>1, <3>2, <3>3
    <2>5. profiles'[q].inbox = t
      BY <1>6 DEF t, s
    <2> QED
      BY <1>2, <1>5, <1>6, <2>4, <2>5 DEF DInv, Inboxes, InboxOrdered
  <1>13. ParkedOlder'
    <2> SUFFICES ASSUME NEW e \in parked', NEW x \in Waiting(e[1])', e[2] \notin Waiting(e[1])'
                 PROVE  e[2][2] < x[2]
      BY <1>3 DEF ParkedOlder
    <2>1. e \in parked
      BY <1>3, <1>7
    <2>2. e[1] \in Known
      BY <1>5, <2>1
    <2>3. CASE e[1] = q
      <3>1. e[2] \notin Waiting(q) /\ (x \in Waiting(q) \/ x = T)
        BY <1>7, <2>3
      <3>2. CASE x \in Waiting(q)
        BY <2>1, <2>3, <3>1, <3>2 DEF DInv, Inboxes, ParkedOlder
      <3>3. CASE x = T
        BY <1>2, <1>10, <2>1, <2>3, <3>3
      <3> QED
        BY <3>1, <3>2, <3>3
    <2>4. CASE e[1] # q
      BY <1>7, <2>1, <2>2, <2>4 DEF DInv, Inboxes, ParkedOlder
    <2> QED
      BY <2>3, <2>4
  <1>14. Unsent' /\ SentDistinct'
    BY <1>3, <1>7 DEF DInv, Sockets, Unsent, SentDistinct
  <1>15. Apart'
    BY <1>2, <1>3, <1>6, <1>7 DEF DInv, Sockets, Apart
  <1>16. FanFresh'
    <2> SUFFICES ASSUME pc[c] = "fan",
                        NEW j \in DOMAIN profiles[who[c]].followers, j >= i + 1,
                        NEW p, p = profiles[who[c]].followers[j]
                 PROVE  /\ <<p, T>> \notin parked'
                        /\ \A d \in Conns : who[d] = p => T \notin Got(d)
      <3>1. ASSUME pc[c] = "fan"
            PROVE  profiles'[who[c]].followers = profiles[who[c]].followers
        BY <1>5, <1>6, <3>1, WhoKnown DEF IInv, Control
      <3> QED
        BY <1>2, <1>3, <1>7, <3>1 DEF FanFresh, T
    <2>1. p # q /\ j >= i
      BY <1>2
    <2>2. /\ <<p, T>> \notin parked
          /\ \A d \in Conns : who[d] = p => T \notin Got(d)
      BY <2>1 DEF DInv, Sockets, FanFresh, T
    <2> QED
      BY <1>3, <2>1, <2>2
  <1>17. Overtaken'
    <2> SUFFICES ASSUME NEW d \in Conns PROVE Late(sent[d], who[d])'
      BY <1>3, OvertakenIsLate DEF Overtaken, Late
    <2>1. Late(sent[d], who[d])
      BY OvertakenIsLate DEF DInv, Sockets
    <2>2. \A j \in DOMAIN sent[d] : sent[d][j] \in Got(d)
      BY DEF Got, ToSet
    <2> QED
      BY <1>2, <1>3, <2>1, <2>2 DEF Late
  <1>18. Delivered'
    BY <1>3, <1>5, <1>7 DEF DInv, Sockets, Delivered
  <1> QED
    BY <1>8, <1>9, <1>12, <1>13, <1>14, <1>15, <1>16, <1>17, <1>18 DEF DInv, Inboxes, Sockets

-----------------------------------------------------------------------------
(* The tweet that is sent goes to every session of one follower, to none of
   which anything like it was sent. *)
LEMMA SendToFollowerDelivery ==
  ASSUME IInv, DInv, NEW c \in Conns, SendToFollower(c)
  PROVE  DInv'
  <1> DEFINE T == Tweet(lastTweet)
             cs == ToSet(profiles[Follower(c)].sessions)
  <1>1. PICK q \in ProfileIds : q = Follower(c)
    BY FanOutTarget DEF SendToFollower
  <1>2. /\ q \in Known
        /\ lastTweet >= 1 /\ lastTweet \in Nat /\ T \in Packets
        /\ T # HELLO /\ T # CLOSE_CONN /\ T[2] = lastTweet
        /\ <<q, T>> \notin parked /\ T \notin Waiting(q)
        /\ \A d \in Conns : who[d] = q => T \notin Got(d)
        /\ \A d \in Conns : pc[d] = "fan" => d = c
        /\ \A j \in DOMAIN profiles[who[c]].followers :
              j >= i + 1 => j >= i /\ profiles[who[c]].followers[j] # q
    BY <1>1, FanOutTarget, PacketNumbers DEF SendToFollower
  <1>3. /\ profiles' = profiles /\ parked' = parked /\ lastTweet' = lastTweet
        /\ i' = i + 1 /\ who' = who /\ pc' = pc
    BY DEF SendToFollower
  <1>4. /\ \A d \in Conns : sent[d] \in Seq(Packets) /\ Got(d) \subseteq Packets
        /\ <<T>> \in Seq(Packets) /\ ToSet(<<T>>) = {T}
    BY <1>2, DeliveryTypes, ToSetSingleton
  <1>5. \A d \in cs : d \in Conns /\ who[d] = q /\ pc[d] \notin Silent
    <2>1. cs = SessionThreads(q)
      BY <1>1, <1>2 DEF IInv, SessionsExact
    <2> QED
      BY <2>1 DEF SessionThreads, Silent
  <1>6. \A d \in Conns :
           IF d \in cs
           THEN sent'[d] = sent[d] \o <<T>> /\ Got(d)' = Got(d) \cup {T}
           ELSE sent'[d] = sent[d] /\ Got(d)' = Got(d)
    <2>1. Send(cs, <<T>>)
      BY DEF SendToFollower
    <2> HIDE DEF cs, T
    <2> QED
      BY <1>4, <2>1, SendStep
  <1>7. Known' = Known /\ \A p \in Known : Waiting(p)' = Waiting(p)
    BY <1>3 DEF Known, Waiting
  <1> HIDE DEF T, cs
  <1>8. Inboxes'
    BY <1>3, <1>7 DEF DInv, Inboxes, ParkedTweets, InboxParked, InboxOrdered, ParkedOlder,
                      Waiting
  <1>9. Unsent'
    <2>1. \A d \in Conns : HELLO \in Got(d)' => HELLO \in Got(d)
      BY <1>2, <1>6
    <2> QED
      BY <1>3, <1>5, <1>6, <2>1 DEF DInv, Sockets, Unsent, Silent
  <1>10. SentDistinct'
    <2> SUFFICES ASSUME NEW d \in cs PROVE IsInjective(sent[d] \o <<T>>)
      BY <1>6 DEF DInv, Sockets, SentDistinct
    <2>1. IsInjective(<<T>>) /\ IsInjective(sent[d]) /\ ToSet(sent[d]) \cap ToSet(<<T>>) = {}
      BY <1>2, <1>4, <1>5 DEF IsInjective, Got, DInv, Sockets, SentDistinct
    <2> QED
      BY <1>4, <1>5, <2>1, ConcatDistinct
  <1>11. Apart'
    BY <1>2, <1>3, <1>5, <1>6, <1>7 DEF DInv, Sockets, Apart
  <1>12. FanFresh'
    <2> SUFFICES ASSUME pc[c] = "fan",
                        NEW j \in DOMAIN profiles[who[c]].followers, j >= i + 1,
                        NEW p, p = profiles[who[c]].followers[j]
                 PROVE  /\ <<p, T>> \notin parked
                        /\ \A d \in Conns : who[d] = p => T \notin Got(d)'
      BY <1>2, <1>3 DEF FanFresh, T
    <2>1. p # q /\ j >= i
      BY <1>2
    <2>2. /\ <<p, T>> \notin parked
          /\ \A d \in Conns : who[d] = p => T \notin Got(d)
      BY <2>1 DEF DInv, Sockets, FanFresh, T
    <2> QED
      BY <1>5, <1>6, <2>1, <2>2
  <1>13. Overtaken'
    <2> SUFFICES ASSUME NEW d \in Conns PROVE Late(sent'[d], who[d])
      BY <1>3, OvertakenIsLate DEF Overtaken, Late
    <2>1. Late(sent[d], who[d]) /\ Late(<<T>>, who[d])
      BY OvertakenIsLate, LateSingleton DEF DInv, Sockets
    <2>2. \A x \in Got(d) : ~(x[2] > T[2])
      BY <1>2, <1>4, PacketCases
    <2>3. Late(sent[d] \o <<T>>, who[d])
      BY <1>4, <2>1, <2>2, LateConcat DEF Got
    <2> QED
      BY <1>6, <2>1, <2>3
  <1>14. Delivered'
    BY <1>3, <1>6, <1>7, DeliveryTypes DEF DInv, Sockets, Delivered
  <1> QED
    BY <1>8, <1>9, <1>10, <1>11, <1>12, <1>13, <1>14 DEF DInv, Sockets

(* The whole inbox goes to every session of the profile: one thread fetches,
   and it is itself in a session. *)
LEMMA FetchInboxDelivery ==
  ASSUME IInv, DInv, NEW c \in Conns, FetchInbox(c)
  PROVE  DInv'
  <1> DEFINE mail == profiles[who[c]].inbox
             cs == ToSet(profiles[who[c]].sessions)
  <1>1. PICK p \in ProfileIds : p = who[c]
    BY WhoKnown DEF FetchInbox, Goto, IInv, Control
  <1>2. /\ p \in Known /\ Sets(p, emptied(profiles[p])) /\ profiles[p] \in Objects
    BY <1>1, FetchInboxSets
  <1>3. /\ parked' = parked /\ lastTweet' = lastTweet /\ i' = i /\ who' = who
        /\ pc[c] = "fetch" /\ pc' = [pc EXCEPT ![c] = "receive"]
    BY DEF FetchInbox, Goto
  <1>4. /\ \A d \in Conns : sent[d] \in Seq(Packets) /\ Got(d) \subseteq Packets
        /\ \A q \in Known : q \in ProfileIds /\ profiles[q] \in Objects
        /\ mail \in Seq(Packets) /\ ToSet(mail) = Waiting(p)
        /\ parked \subseteq Known \X Packets
        /\ lastTweet \in Nat
        /\ pc \in [Conns -> Locations]
    BY <1>1, <1>2, DeliveryTypes DEF Waiting, IInv, Control, TypeOK
  <1>5. \A d \in Conns : d \in cs <=> who[d] = p /\ pc[d] \in
             {"hello", "fetch", "receive", "follow", "send", "fan"}
    BY <1>1, <1>2 DEF IInv, SessionsExact, SessionThreads
  <1>6. \A d \in Conns :
           IF d \in cs
           THEN sent'[d] = sent[d] \o mail /\ Got(d)' = Got(d) \cup Waiting(p)
           ELSE sent'[d] = sent[d] /\ Got(d)' = Got(d)
    <2>1. Send(cs, mail)
      BY DEF FetchInbox
    <2> HIDE DEF cs, mail
    <2> QED
      BY <1>4, <2>1, SendStep
  <1>7. /\ Known' = Known /\ Waiting(p)' = {} /\ profiles'[p].inbox = <<>>
        /\ \A q \in ProfileIds : q # p => profiles'[q] = profiles[q]
        /\ \A q \in Known : q # p => Waiting(q)' = Waiting(q)
        /\ \A q \in Known : profiles'[q].followers = profiles[q].followers
    <2>1. /\ Known' = Known \cup {p} /\ profiles'[p] = emptied(profiles[p])
          /\ \A q \in ProfileIds : q # p => profiles'[q] = profiles[q]
      BY <1>2, SetsStep DEF IInv, Control
    <2>2. /\ emptied(profiles[p]).inbox = <<>>
          /\ emptied(profiles[p]).followers = profiles[p].followers
      BY <1>2 DEF emptied, Objects
    <2> QED
      BY <1>2, <1>4, <2>1, <2>2 DEF Waiting, ToSet
  <1>8. /\ \A x \in Waiting(p) : /\ <<p, x>> \in parked
                                 /\ x # HELLO /\ x # CLOSE_CONN
        /\ IsInjective(mail) /\ Late(mail, p)
    <2>1. ASSUME NEW x \in Waiting(p)
          PROVE  <<p, x>> \in parked /\ x # HELLO /\ x # CLOSE_CONN
      <3>1. <<p, x>> \in parked
        BY <1>2 DEF DInv, Inboxes, InboxParked
      <3>2. PICK n \in 1 .. lastTweet : x = Tweet(n)
        BY <3>1 DEF DInv, Inboxes, ParkedTweets
      <3> QED
        BY <1>4, <3>1, <3>2, TweetIsNoGreeting
    <2>2. /\ \A j, k \in DOMAIN mail : j < k => mail[j][2] < mail[k][2]
          /\ \A j \in DOMAIN mail : mail[j][2] \in Nat
          /\ DOMAIN mail \subseteq Nat
      <3>1. \A j, k \in DOMAIN mail : j < k => mail[j][2] < mail[k][2]
        BY <1>1, <1>2 DEF DInv, Inboxes, InboxOrdered
      <3> HIDE DEF mail
      <3>2. DOMAIN mail \subseteq Nat /\ \A j \in DOMAIN mail : mail[j] \in Packets
        BY <1>4
      <3>3. \A j \in DOMAIN mail : mail[j][2] \in Nat
        BY <1>4, <3>2, PacketCases
      <3> QED
        BY <3>1, <3>2, <3>3
    <2> HIDE DEF mail
    <2>3. IsInjective(mail)
      BY <2>2 DEF IsInjective
    <2>4. Late(mail, p)
      BY <2>2 DEF Late
    <2> QED
      BY <2>1, <2>3, <2>4
  <1> HIDE DEF mail, cs
  <1>9. Inboxes'
    <2>1. ParkedTweets'
      BY <1>3 DEF DInv, Inboxes, ParkedTweets
    <2>2. InboxParked'
      BY <1>3, <1>7 DEF DInv, Inboxes, InboxParked
    <2>3. InboxOrdered'
      BY <1>4, <1>7 DEF DInv, Inboxes, InboxOrdered
    <2>4. ParkedOlder'
      BY <1>3, <1>4, <1>7 DEF DInv, Inboxes, ParkedOlder
    <2> QED
      BY <2>1, <2>2, <2>3, <2>4 DEF Inboxes
  <1>10. Unsent'
    <2>1. \A d \in Conns : HELLO \in Got(d)' => HELLO \in Got(d)
      BY <1>6, <1>8
    <2>2. \A d \in Conns : pc'[d] \in Silent => pc[d] \in Silent /\ d \notin cs
      BY <1>3, <1>4, <1>5 DEF Silent
    <2>3. \A d \in Conns : pc'[d] = "hello" => pc[d] = "hello"
      BY <1>3, <1>4
    <2> QED
      BY <1>6, <2>1, <2>2, <2>3 DEF DInv, Sockets, Unsent, Silent
  <1>11. \A d \in cs : d \in Conns => Got(d) \cap Waiting(p) = {}
    BY <1>2, <1>5 DEF DInv, Sockets, Apart
  <1>12. SentDistinct'
    <2> SUFFICES ASSUME NEW d \in Conns, d \in cs PROVE IsInjective(sent[d] \o mail)
      BY <1>6 DEF DInv, Sockets, SentDistinct
    <2>1. IsInjective(sent[d]) /\ ToSet(sent[d]) \cap ToSet(mail) = {}
      BY <1>4, <1>11 DEF Got, DInv, Sockets, SentDistinct
    <2> QED
      BY <1>4, <1>8, <2>1, ConcatDistinct
  <1>13. Apart'
    BY <1>3, <1>5, <1>6, <1>7 DEF DInv, Sockets, Apart
  <1>14. FanFresh'
    <2> SUFFICES ASSUME NEW f \in Conns, pc[f] = "fan",
                        NEW j \in DOMAIN profiles[who[f]].followers, j >= i,
                        NEW q, q = profiles[who[f]].followers[j]
                 PROVE  /\ <<q, Tweet(lastTweet)>> \notin parked
                        /\ \A d \in Conns : who[d] = q => Tweet(lastTweet) \notin Got(d)'
      <3>1. \A f \in Conns : pc'[f] = "fan" => pc[f] = "fan"
        BY <1>3, <1>4
      <3>2. \A f \in Conns :
              pc[f] = "fan" => profiles'[who[f]].followers = profiles[who[f]].followers
        BY <1>7, WhoKnown DEF IInv, Control
      <3> QED
        BY <1>3, <3>1, <3>2 DEF FanFresh
    <2>1. /\ <<q, Tweet(lastTweet)>> \notin parked
          /\ \A d \in Conns : who[d] = q => Tweet(lastTweet) \notin Got(d)
      BY DEF DInv, Sockets, FanFresh
    <2>2. q = p => Tweet(lastTweet) \notin Waiting(p)
      BY <1>8, <2>1
    <2> QED
      BY <1>5, <1>6, <2>1, <2>2
  <1>15. Overtaken'
    <2> SUFFICES ASSUME NEW d \in Conns PROVE Late(sent'[d], who[d])
      BY <1>3, OvertakenIsLate DEF Overtaken, Late
    <2>1. Late(sent[d], who[d])
      BY OvertakenIsLate DEF DInv, Sockets
    <2>2. CASE d \in cs
      <3>1. who[d] = p
        BY <1>5, <2>2
      <3>2. ASSUME NEW x \in Got(d), NEW y \in Waiting(p), x[2] > y[2]
            PROVE  <<p, y>> \in parked /\ <<p, x>> \notin parked
        <4>1. <<p, y>> \in parked /\ x \notin Waiting(p)
          BY <1>8, <1>11, <2>2
        <4>2. <<p, x>> \in parked => x[2] < y[2]
          BY <4>1 DEF DInv, Inboxes, ParkedOlder
        <4>3. x \in Packets /\ y \in Packets
          BY <1>2, <1>4, DeliveryTypes
        <4>4. x[2] \in Int /\ y[2] \in Int
          BY <1>4, <4>3, PacketCases
        <4> QED
          BY <3>2, <4>1, <4>2, <4>4
      <3>3. Late(sent[d] \o mail, p)
        BY <1>4, <1>8, <2>1, <3>1, <3>2, LateConcat DEF Got
      <3> QED
        BY <1>6, <2>2, <3>1, <3>3
    <2>3. CASE d \notin cs
      BY <1>6, <2>1, <2>3
    <2> QED
      BY <2>2, <2>3
  <1>16. Delivered'
    <2> SUFFICES ASSUME NEW e \in parked
                 PROVE  \/ e[2] \in Waiting(e[1])'
                        \/ \E d \in Conns : who[d] = e[1] /\ e[2] \in Got(d)'
      BY <1>3 DEF Delivered
    <2>1. e[1] \in Known
      BY <1>4
    <2>2. CASE \E d \in Conns : who[d] = e[1] /\ e[2] \in Got(d)
      BY <1>6, <2>2
    <2>3. CASE e[2] \in Waiting(e[1]) /\ e[1] # p
      BY <1>7, <2>1, <2>3
    <2>4. CASE e[2] \in Waiting(e[1]) /\ e[1] = p
      <3>1. c \in cs /\ who[c] = p
        BY <1>1, <1>3, <1>5
      <3> QED
        BY <1>6, <2>4, <3>1
    <2> QED
      BY <2>2, <2>3, <2>4 DEF DInv, Sockets, Delivered
  <1> QED
    BY <1>9, <1>10, <1>12, <1>13, <1>14, <1>15, <1>16 DEF DInv, Sockets

-----------------------------------------------------------------------------
LEMMA InitDInv == Init => DInv
  <1> SUFFICES ASSUME Init PROVE DInv
    OBVIOUS
  <1>1. Known = {} /\ parked = {} /\ \A c \in Conns : sent[c] = <<>> /\ pc[c] = "unborn"
    BY DEF Init, Known
  <1>2. \A c \in Conns : Got(c) = {} /\ IsInjective(sent[c]) /\ DOMAIN sent[c] = {}
    BY <1>1 DEF Got, ToSet, IsInjective
  <1>3. Inboxes
    BY <1>1 DEF Inboxes, ParkedTweets, InboxParked, InboxOrdered, ParkedOlder
  <1>4. Sockets
    BY <1>1, <1>2 DEF Sockets, Unsent, SentDistinct, Apart, FanFresh, Overtaken, Delivered
  <1> QED
    BY <1>3, <1>4 DEF DInv

LEMMA NextDInv == IInv /\ DInv /\ [Next]_vars => DInv'
  <1> SUFFICES ASSUME IInv, DInv, [Next]_vars PROVE DInv'
    OBVIOUS
  <1>1. ASSUME UNCHANGED vars PROVE DInv'
    <2>1. UNCHANGED mapVars /\ UNCHANGED netVars /\ pc' = pc /\ who' = who
      BY <1>1 DEF vars
    <2>2. /\ sent' = sent /\ parked' = parked /\ lastTweet' = lastTweet
          /\ profiles' = profiles /\ i' = i
      BY <2>1 DEF mapVars, netVars
    <2>3. Known' = Known
      BY <2>2 DEF Known
    <2> QED
      BY <2>1, <2>2, <2>3, QuietDelivery
  <1>2. ASSUME NEW c \in Conns, Run(c) \/ Receive(c) \/ (alive /\ PeerClose(c))
        PROVE  DInv'
    BY <1>2, QuietSteps, SendHelloDelivery, CreateRefusedDelivery, FetchInboxDelivery,
       StartFanOutDelivery, SendToFollowerDelivery, InsertInInboxDelivery
       DEF Run, Create, Welcome, FanOut, Receive
  <1> QED
    BY <1>1, <1>2 DEF Next

LEMMA DeliveryInvariance == Spec => [](IInv /\ DInv)
  <1>1. Init => IInv /\ DInv
    BY InitIInv, InitDInv
  <1>2. IInv /\ DInv /\ [Next]_vars => IInv' /\ DInv'
    BY NextIInv, NextDInv
  <1> QED
    BY <1>1, <1>2, PTL DEF Spec

(* No connection is sent a packet twice, and none is sent what still waits in
   its profile's inbox: the direct way and the inbox exclude each other,
   however logins, fan-outs and fetches overlap. *)
THEOREM SentAtMostOnce == Spec => []SentOnce
  <1>1. ASSUME IInv, DInv PROVE SentOnce
    BY <1>1 DEF SentOnce, DInv, Sockets, SentDistinct, Apart, IsInjective, Got, Waiting
  <1> QED
    BY DeliveryInvariance, <1>1, PTL

(* A packet that once went to an inbox is there until a connection of its
   owner is sent it. *)
THEOREM NothingParkedIsLost == Spec => []NothingLost
  <1>1. ASSUME IInv, DInv PROVE NothingLost
    <2> SUFFICES ASSUME NEW e \in parked
                 PROVE  \/ Contains(profiles[e[1]].inbox, e[2])
                        \/ \E c \in Conns : who[c] = e[1] /\ Contains(sent[c], e[2])
      BY DEF NothingLost
    <2>1. /\ \A c \in Conns : sent[c] \in Seq(Packets)
          /\ profiles[e[1]].inbox \in Seq(Packets)
      BY <1>1, DeliveryTypes
    <2>2. e[2] \in Waiting(e[1]) \/ \E c \in Conns : who[c] = e[1] /\ e[2] \in Got(c)
      BY <1>1 DEF DInv, Sockets, Delivered
    <2>3. CASE e[2] \in Waiting(e[1])
      BY <2>1, <2>3, ContainsToSet DEF Waiting
    <2>4. ASSUME NEW c \in Conns, who[c] = e[1], e[2] \in Got(c)
          PROVE  Contains(sent[c], e[2])
      BY <2>1, <2>4, ContainsToSet DEF Got
    <2> QED
      BY <2>2, <2>3, <2>4
  <1> QED
    BY DeliveryInvariance, <1>1, PTL

(* A tweet overtakes another on a connection only if the other waited in the
   inbox and it did not. *)
THEOREM OnlyInboxIsOvertaken == Spec => []OnlyInboxOvertaken
  <1>1. ASSUME IInv, DInv PROVE OnlyInboxOvertaken
    BY <1>1 DEF OnlyInboxOvertaken, DInv, Sockets, Overtaken
  <1> QED
    BY DeliveryInvariance, <1>1, PTL

-----------------------------------------------------------------------------
(* The server as Delivery: each follower is reached by each tweet once.      *)

(* The followers that sendToFollowersOf has passed have been reached. *)
Reached(p) == lastTweet \in Mailbox(p) \/ \E c \in Conns : who[c] = p /\ lastTweet \in Numbers(sent[c])
FanReached ==
  \A c \in Conns : pc[c] = "fan" =>
    \A j \in DOMAIN profiles[who[c]].followers : j < i => Reached(profiles[who[c]].followers[j])

LEMMA NumbersOf ==
  /\ \A s : Numbers(s) = {x[2] : x \in ToSet(s)} \ {0}
  /\ Numbers(<<>>) = {}
  BY DEF Numbers, ToSet

(* The numbers of packets: greetings have none. *)
LEMMA TweetNumbers ==
  ASSUME lastTweet \in Nat, NEW s \in Seq(Packets)
  PROVE  /\ \A n \in Nat : n >= 1 => (n \in Numbers(s) <=> Tweet(n) \in ToSet(s))
         /\ \A n \in Nat : n >= 1 => Numbers(<<Tweet(n)>>) = {n}
         /\ Numbers(<<HELLO>>) = {} /\ Numbers(<<CLOSE_CONN>>) = {}
         /\ \A t \in Seq(Packets) : Numbers(s \o t) = Numbers(s) \cup Numbers(t)
         /\ \A x \in Packets : Numbers(Append(s, x)) = Numbers(s) \cup Numbers(<<x>>)
  <1>1. \A x \in ToSet(s) : x \in Packets
    BY ToSetType
  <1>2. ASSUME NEW n \in Nat, n >= 1 PROVE n \in Numbers(s) <=> Tweet(n) \in ToSet(s)
    <2>1. ASSUME NEW x \in ToSet(s), x[2] = n PROVE x = Tweet(n)
      BY <1>1, <1>2, <2>1, PacketCases, PacketNumbers
    <2> QED BY <1>2, <2>1, NumbersOf, PacketNumbers
  <1>3. \A x : Numbers(<<x>>) = {x[2]} \ {0}
    BY NumbersOf, ToSetSingleton
  <1>4. \A t \in Seq(Packets) : Numbers(s \o t) = Numbers(s) \cup Numbers(t)
    BY NumbersOf, ConcatToSet
  <1>5. \A x \in Packets : Numbers(Append(s, x)) = Numbers(s) \cup Numbers(<<x>>)
    BY NumbersOf, AppendDistinct, ToSetSingleton
  <1> QED
    BY <1>2, <1>3, <1>4, <1>5, PacketNumbers

(* The sessions of Delivery, and the fan-out on its way. *)
LEMMA SessionsAre == \A p : D!Sessions(p) = SessionThreads(p)
  BY DEF D!Sessions, Online, SessionThreads

LEMMA ReachedAre == \A p \in ProfileIds : D!Reached(p) <=> Reached(p)
  BY DEF D!Reached, Reached

LEMMA AuthorIs ==
  ASSUME IInv
  PROVE  /\ \A c \in Conns : pc[c] = "fan" => Author = who[c]
         /\ (\A c \in Conns : pc[c] # "fan") => Author = nullptr
  BY ConnsAssumption DEF IInv, Control, TypeOK, WriterInside, Author

LEMMA AuthorBecomes ==
  ASSUME IInv'
  PROVE  /\ \A c \in Conns : pc'[c] = "fan" => Author' = who'[c]
         /\ (\A c \in Conns : pc'[c] # "fan") => Author' = nullptr
  BY ConnsAssumption DEF IInv, Control, TypeOK, WriterInside, Author

(* What a step does to the set of sessions. *)
LEMMA GotoOnline ==
  ASSUME IInv, NEW c \in Conns, NEW from, NEW to, Goto(c, from, to)
  PROVE  Online' = IF to \in {"hello", "fetch", "receive", "follow", "send", "fan"}
                   THEN Online \cup {c} ELSE Online \ {c}
  BY DEF Goto, Online, IInv, Control, TypeOK

(* What a step that sets one profile does to followers and mailboxes. *)
LEMMA SetsView ==
  ASSUME MapOK, NEW p, NEW object, Sets(p, object)
  PROVE  \A q \in ProfileIds :
           /\ FollowersOf(q)' = IF q = p THEN ToSet(object.followers) ELSE FollowersOf(q)
           /\ Mailbox(q)' = IF q = p THEN Numbers(object.inbox) ELSE Mailbox(q)
  BY SetsStep DEF FollowersOf, Mailbox

(* What a step that sends does to the numbers each connection was sent. *)
LEMMA SendView ==
  ASSUME IInv, NEW cs, NEW packets \in Seq(Packets), Send(cs, packets)
  PROVE  \A c \in Conns :
           Numbers(sent[c])' = IF c \in cs THEN Numbers(sent[c]) \cup Numbers(packets)
                                          ELSE Numbers(sent[c])
  <1> TAKE c \in Conns
  <1>1. sent[c] \in Seq(Packets) /\ lastTweet \in Nat
    BY DeliveryTypes
  <1>2. Numbers(sent[c] \o packets) = Numbers(sent[c]) \cup Numbers(packets)
    BY <1>1, TweetNumbers
  <1>3. Numbers(sent[c])' = Numbers(sent'[c])
    BY DEF Numbers
  <1> QED BY <1>2, <1>3, SendStep

(* The followers that wait for the tweet on its way have not been reached. *)
LEMMA TargetIsDue ==
  ASSUME IInv, DInv, NEW c \in Conns, MoreFollowers(c)
  PROVE  /\ Follower(c) \in ProfileIds /\ Follower(c) \in Known
         /\ Author = who[c] /\ Author # nullptr /\ Author \in ProfileIds
         /\ Follower(c) \in FollowersOf(Author)
         /\ ~Reached(Follower(c))
         /\ lastTweet \in Nat /\ lastTweet >= 1 /\ Tweet(lastTweet) \in Packets
  <1>1. pc[c] = "fan" /\ who[c] \in Known /\ who[c] \in ProfileIds
    BY WhoKnown DEF MoreFollowers, IInv, Control
  <1>2. Author = who[c] /\ Author # nullptr
    BY <1>1, AuthorIs, ProfileIdsAssumption
  <1>3. /\ Follower(c) \in Known /\ Follower(c) \in ProfileIds
        /\ lastTweet >= 1 /\ lastTweet \in Nat /\ Tweet(lastTweet) \in Packets
        /\ Tweet(lastTweet) \notin Waiting(Follower(c))
        /\ \A d \in Conns : who[d] = Follower(c) => Tweet(lastTweet) \notin Got(d)
    BY FanOutTarget
  <1>4. Follower(c) \in FollowersOf(Author)
    <2>1. i \in DOMAIN profiles[who[c]].followers
      BY FollowerKnown DEF IInv, Control
    <2> QED BY <1>1, <1>2, <2>1 DEF FollowersOf, Follower, ToSet
  <1>5. lastTweet \notin Mailbox(Follower(c))
    <2>1. profiles[Follower(c)].inbox \in Seq(Packets)
      BY <1>3, DeliveryTypes
    <2> QED BY <1>3, <2>1, TweetNumbers DEF Mailbox, Waiting
  <1>6. \A d \in Conns : who[d] = Follower(c) => lastTweet \notin Numbers(sent[d])
    BY <1>3, DeliveryTypes, TweetNumbers DEF Got
  <1> QED BY <1>1, <1>2, <1>3, <1>4, <1>5, <1>6 DEF Reached

(* The sessions of a known profile are those in its vector. *)
LEMMA SessionsCounted ==
  ASSUME IInv, NEW p \in Known
  PROVE  /\ ToSet(profiles[p].sessions) = SessionThreads(p)
         /\ keepsPacket(profiles[p]) <=> SessionThreads(p) = {}
  <1>1. /\ profiles[p].sessions_on = Len(profiles[p].sessions)
        /\ ToSet(profiles[p].sessions) = SessionThreads(p)
    BY ThreadsCounted
  <1>2. profiles[p].sessions \in Seq(Conns)
    BY KnownObject DEF IInv, Control, Objects
  <1>3. Len(profiles[p].sessions) \in Nat /\ (Len(profiles[p].sessions) = 0 <=> profiles[p].sessions = <<>>)
    BY <1>2, EmptySeq, LenProperties
  <1>4. ToSet(profiles[p].sessions) = {} <=> profiles[p].sessions = <<>>
    BY <1>2, ToSetEmpty
  <1> QED BY <1>1, <1>3, <1>4 DEF keepsPacket

(* What stays when a thread only moves on. *)
LEMMA AuthorStays ==
  ASSUME IInv, IInv',
         \A d \in Conns : /\ pc'[d] = "fan" <=> pc[d] = "fan"
                          /\ pc[d] = "fan" => who'[d] = who[d]
  PROVE  Author' = Author
  <1>1. CASE \E d \in Conns : pc[d] = "fan"
    BY <1>1, AuthorIs, AuthorBecomes
  <1>2. CASE \A d \in Conns : pc[d] # "fan"
    BY <1>2, AuthorIs, AuthorBecomes
  <1> QED BY <1>1, <1>2

LEMMA MapStays ==
  ASSUME profiles' = profiles
  PROVE  \A p \in ProfileIds : FollowersOf(p)' = FollowersOf(p) /\ Mailbox(p)' = Mailbox(p)
  BY DEF FollowersOf, Mailbox, Known

LEMMA SentStays ==
  ASSUME sent' = sent
  PROVE  \A c \in Conns : Numbers(sent[c])' = Numbers(sent[c])
  BY DEF Numbers

(* The steps that Delivery does not see. *)
LEMMA HiddenSteps ==
  ASSUME IInv, DInv, IInv', NEW c \in Conns,
         \/ Accept(c) \/ FirstPacketEmpty(c) \/ PeerClose(c)
         \/ CreateNew(c) \/ CreateFound(c) \/ CreateRefused(c) \/ SendHello(c)
         \/ ReceiveFollow(c) \/ ReceiveSend(c)
  PROVE  UNCHANGED D!vars
  <1>1. /\ pc \in [Conns -> Locations] /\ nullptr \notin Conns /\ MapOK
        /\ \A d \in Conns : writer = d <=> pc[d] \in {"inc", "fan", "rejected"}
    BY ConnsAssumption DEF IInv, Control, TypeOK, WriterInside
  <1>2. who' = who /\ lastTweet' = lastTweet
    BY DEF Accept, FirstPacketEmpty, PeerClose, CreateNew, CreateFound, CreateRefused,
           SendHello, ReceiveFollow, ReceiveSend, mapVars
  <1>3. Online' = Online /\ \A d \in Conns : pc'[d] = "fan" <=> pc[d] = "fan"
    BY <1>1 DEF Accept, FirstPacketEmpty, PeerClose, CreateNew, CreateFound, CreateRefused,
           SendHello, ReceiveFollow, ReceiveSend, ReceiveCommand, Goto, Online
  <1>4. Author' = Author
    BY <1>2, <1>3, AuthorStays
  <1>5. \A p \in ProfileIds : FollowersOf(p)' = FollowersOf(p) /\ Mailbox(p)' = Mailbox(p)
    <2>1. CASE CreateNew(c)
      <3>1. Sets(who[c], NewProfile) /\ who[c] \notin Known
        BY <2>1, CreateNewSets
      <3>2. ToSet(NewProfile.followers) = {} /\ Numbers(NewProfile.inbox) = {}
        BY NumbersOf DEF NewProfile, ToSet
      <3>3. FollowersOf(who[c]) = {} /\ Mailbox(who[c]) = {}
        BY <3>1 DEF FollowersOf, Mailbox
      <3> QED BY <1>1, <3>1, <3>2, <3>3, SetsView
    <2>2. CASE ~CreateNew(c)
      BY <2>2, QuietMap, MapStays
    <2> QED BY <2>1, <2>2
  <1>6. \A d \in Conns : Numbers(sent[d])' = Numbers(sent[d])
    <2>1. CASE CreateRefused(c) \/ SendHello(c)
      <3>1. PICK x \in {HELLO, CLOSE_CONN} : Send({c}, <<x>>)
        BY <2>1 DEF CreateRefused, SendHello
      <3>2. x \in Packets /\ <<x>> \in Seq(Packets) /\ <<>> \in Seq(Packets) /\ lastTweet \in Nat
        BY DeliveryTypes DEF Packets
      <3>3. Numbers(<<x>>) = {}
        BY <3>2, TweetNumbers
      <3>4. \A d \in Conns : Numbers(sent[d])' =
              IF d \in {c} THEN Numbers(sent[d]) \cup Numbers(<<x>>) ELSE Numbers(sent[d])
        BY <3>1, <3>2, SendView
      <3> QED BY <3>3, <3>4
    <2>2. CASE ~CreateRefused(c) /\ ~SendHello(c)
      BY <2>2, SentStays DEF Accept, FirstPacketEmpty, PeerClose, CreateNew, CreateFound,
         ReceiveFollow, ReceiveSend, netVars
    <2> QED BY <2>1, <2>2
  <1> QED BY <1>2, <1>3, <1>4, <1>5, <1>6 DEF D!vars

(* Sessions begin, come and go. *)
LEMMA PresentStep ==
  ASSUME IInv, IInv', NEW c \in Conns, FirstPacketProfile(c)
  PROVE  \E p \in ProfileIds : D!Present(c, p)
  <1>1. PICK p \in ProfileIds : who' = [who EXCEPT ![c] = p]
    BY DEF FirstPacketProfile
  <1>2. Goto(c, "first", "create") /\ profiles' = profiles /\ sent' = sent /\ lastTweet' = lastTweet
    BY DEF FirstPacketProfile, mapVars, netVars
  <1>3. who[c] = nullptr /\ c \notin Online /\ Online' = Online
    BY <1>2, GotoOnline DEF Online, Goto, IInv, Control, Identified
  <1>4. Author' = Author
    BY <1>1, <1>2, AuthorStays DEF Goto, IInv, Control, TypeOK
  <1>5. \A q \in ProfileIds : FollowersOf(q)' = FollowersOf(q) /\ Mailbox(q)' = Mailbox(q)
    BY <1>2, MapStays
  <1>6. \A d \in Conns : Numbers(sent[d])' = Numbers(sent[d])
    BY <1>2, SentStays
  <1> QED BY <1>1, <1>2, <1>3, <1>4, <1>5, <1>6 DEF D!Present

LEMMA EnterStep ==
  ASSUME IInv, IInv', NEW c \in Conns, IncSessions(c)
  PROVE  D!Enter(c)
  <1>1. /\ Goto(c, "inc", "hello") /\ sent' = sent /\ lastTweet' = lastTweet /\ who' = who
    BY DEF IncSessions, netVars
  <1>2. who[c] \in Known /\ who[c] \in ProfileIds /\ profiles[who[c]] \in Objects
    BY <1>1, WhoKnown DEF Goto, IInv, Control
  <1>3. c \notin Online /\ Online' = Online \cup {c} /\ who[c] # nullptr
    BY <1>1, <1>2, GotoOnline, ProfileIdsAssumption DEF Online, Goto
  <1>4. D!Cardinality(D!Sessions(who[c])) < MAX_SESSIONS
    <2>1. Cardinality(SessionThreads(who[c])) < MAX_SESSIONS
      BY <1>1, <1>2, ThreadsCounted DEF Goto, IInv, RoomLeft
    <2>2. D!Cardinality(SessionThreads(who[c])) = Cardinality(SessionThreads(who[c]))
      BY DEF D!Cardinality, Cardinality
    <2> QED BY <2>1, <2>2, SessionsAre
  <1>5. Author' = Author
    BY <1>1, AuthorStays DEF Goto, IInv, Control, TypeOK
  <1>6. \A q \in ProfileIds : FollowersOf(q)' = FollowersOf(q) /\ Mailbox(q)' = Mailbox(q)
    <2>1. Sets(who[c], incSessionsOn(profiles[who[c]], c))
      BY IncSessionsSets
    <2>2. /\ incSessionsOn(profiles[who[c]], c).followers = profiles[who[c]].followers
          /\ incSessionsOn(profiles[who[c]], c).inbox = profiles[who[c]].inbox
      BY <1>2, IncSessionsOn
    <2>3. MapOK
      BY DEF IInv, Control
    <2> QED BY <1>2, <2>1, <2>2, <2>3, SetsView DEF FollowersOf, Mailbox
  <1>7. \A d \in Conns : Numbers(sent[d])' = Numbers(sent[d])
    BY <1>1, SentStays
  <1> QED BY <1>1, <1>3, <1>4, <1>5, <1>6, <1>7 DEF D!Enter

LEMMA LeaveStep ==
  ASSUME IInv, IInv', NEW c \in Conns, ReceiveClose(c)
  PROVE  D!Leave(c)
  <1>1. /\ Goto(c, "receive", "ended") /\ sent' = sent /\ lastTweet' = lastTweet /\ who' = who
    BY DEF ReceiveClose, netVars
  <1>2. c \in Online /\ Online' = Online \ {c}
    <2>1. c \in Online
      BY <1>1 DEF Online, Goto
    <2>2. Online' = IF "ended" \in {"hello", "fetch", "receive", "follow", "send", "fan"}
                    THEN Online \cup {c} ELSE Online \ {c}
      BY <1>1, GotoOnline
    <2> QED BY <2>1, <2>2
  <1>3. Author' = Author
    BY <1>1, AuthorStays DEF Goto, IInv, Control, TypeOK
  <1>4. \A q \in ProfileIds : FollowersOf(q)' = FollowersOf(q) /\ Mailbox(q)' = Mailbox(q)
    <2>1. /\ Sets(who[c], decSessionsOn(profiles[who[c]], c)) /\ who[c] \in Known
          /\ decSessionsOn(profiles[who[c]], c).followers = profiles[who[c]].followers
          /\ decSessionsOn(profiles[who[c]], c).inbox = profiles[who[c]].inbox
      BY ReceiveCloseSets, DecSessionsOn
    <2>2. MapOK
      BY DEF IInv, Control
    <2> QED BY <2>1, <2>2, SetsView DEF FollowersOf, Mailbox
  <1>5. \A d \in Conns : Numbers(sent[d])' = Numbers(sent[d])
    BY <1>1, SentStays
  <1> QED BY <1>1, <1>2, <1>3, <1>4, <1>5 DEF D!Leave

(* A FOLLOW is carried out while no tweet is on its way. *)
LEMMA FollowStep ==
  ASSUME IInv, IInv', NEW c \in Conns, AddFollower(c)
  PROVE  (\E p \in ProfileIds : D!Follow(c, p)) \/ UNCHANGED D!vars
  <1>1. /\ Goto(c, "follow", "receive") /\ sent' = sent /\ lastTweet' = lastTweet /\ who' = who
        /\ writer = nullptr
    BY DEF AddFollower, netVars, LockFree
  <1>2. c \in Online /\ Online' = Online
    BY <1>1, GotoOnline DEF Online, Goto
  <1>3. Author = nullptr /\ Author' = nullptr
    <2>1. \A d \in Conns : pc[d] # "fan" /\ pc'[d] # "fan"
      BY <1>1, ConnsAssumption DEF Goto, IInv, Control, TypeOK, WriterInside
    <2> QED BY <2>1, AuthorIs, AuthorBecomes
  <1>4. \A d \in Conns : Numbers(sent[d])' = Numbers(sent[d])
    BY <1>1, SentStays
  <1>5. CASE profiles' = profiles
    BY <1>1, <1>2, <1>3, <1>4, <1>5, MapStays DEF D!vars
  <1>6. CASE profiles' # profiles
    <2> DEFINE p == target[c]
               object == addFollower(profiles[p], who[c])
    <2>1. Sets(p, object) /\ p \in Known /\ profiles[p] \in Objects /\ who[c] \in Known
      BY <1>6, AddFollowerSets
    <2>2. p \in ProfileIds /\ p # who[c] /\ MapOK
      BY <1>6, <2>1 DEF AddFollower, Known, IInv, Control
    <2>3. object.followers = Append(profiles[p].followers, who[c]) /\ object.inbox = profiles[p].inbox
      BY <2>1 DEF addFollower, Objects
    <2>4. ToSet(object.followers) = ToSet(profiles[p].followers) \cup {who[c]}
      <3>1. profiles[p].followers \in Seq(ProfileIds) /\ who[c] \in ProfileIds
        BY <2>1 DEF Objects, Known
      <3> QED BY <2>3, <3>1, AppendDistinct
    <2> HIDE DEF p, object
    <2>5. \A q \in ProfileIds :
            /\ FollowersOf(q)' = IF q = p THEN FollowersOf(p) \cup {who[c]} ELSE FollowersOf(q)
            /\ Mailbox(q)' = Mailbox(q)
      <3>1. FollowersOf(p) = ToSet(profiles[p].followers) /\ Mailbox(p) = Numbers(profiles[p].inbox)
        BY <2>1 DEF FollowersOf, Mailbox
      <3> QED BY <2>1, <2>2, <2>3, <2>4, <3>1, SetsView
    <2>6. [q \in ProfileIds |-> FollowersOf(q)]' =
            [[q \in ProfileIds |-> FollowersOf(q)] EXCEPT ![p] = @ \cup {who[c]}]
      BY <2>2, <2>5
    <2> QED BY <1>1, <1>2, <1>3, <1>4, <2>2, <2>5, <2>6 DEF D!Follow
  <1> QED BY <1>5, <1>6

LEMMA PostStep ==
  ASSUME IInv, IInv', NEW c \in Conns, StartFanOut(c)
  PROVE  D!Post(c)
  <1>1. /\ Goto(c, "send", "fan") /\ sent' = sent /\ lastTweet' = lastTweet + 1 /\ who' = who
        /\ writer = nullptr /\ profiles' = profiles
    BY DEF StartFanOut, netVars, LockFree
  <1>2. c \in Online /\ Online' = Online
    BY <1>1, GotoOnline DEF Online, Goto
  <1>3. Author = nullptr /\ Author' = who[c]
    <2>1. pc'[c] = "fan" /\ \A d \in Conns : pc[d] # "fan"
      BY <1>1, ConnsAssumption DEF Goto, IInv, Control, TypeOK, WriterInside
    <2> QED BY <1>1, <2>1, AuthorIs, AuthorBecomes
  <1>4. \A d \in Conns : Numbers(sent[d])' = Numbers(sent[d])
    BY <1>1, SentStays
  <1>5. \A p \in ProfileIds : FollowersOf(p)' = FollowersOf(p) /\ Mailbox(p)' = Mailbox(p)
    BY <1>1, MapStays
  <1> QED BY <1>1, <1>2, <1>3, <1>4, <1>5 DEF D!Post

(* A step of the fan-out reaches the follower it has come to, directly or
   through the inbox. *)
LEMMA TellStep ==
  ASSUME IInv, DInv, IInv', NEW c \in Conns, SendToFollower(c)
  PROVE  \E q \in ProfileIds : q = Follower(c) /\ D!Tell(q) /\ Reached(q)'
  <1> DEFINE T == Tweet(lastTweet)
  <1> PICK q \in ProfileIds : q = Follower(c)
    BY TargetIsDue DEF SendToFollower
  <1>1. /\ q \in ProfileIds /\ q \in Known /\ Author # nullptr /\ Author \in ProfileIds
        /\ q \in FollowersOf(Author) /\ ~Reached(q)
        /\ lastTweet \in Nat /\ lastTweet >= 1 /\ T \in Packets
    BY TargetIsDue DEF SendToFollower
  <1>2. /\ profiles' = profiles /\ lastTweet' = lastTweet /\ who' = who /\ pc' = pc
        /\ Send(ToSet(profiles[q].sessions), <<T>>) /\ ~keepsPacket(profiles[q])
    BY DEF SendToFollower
  <1> HIDE DEF T
  <1>3. D!Due(q)
    BY <1>1, ReachedAre DEF D!Due
  <1>4. D!Sessions(q) = ToSet(profiles[q].sessions) /\ D!Sessions(q) # {}
    BY <1>1, <1>2, SessionsCounted, SessionsAre
  <1>5. \A d \in Conns : Numbers(sent[d])' = IF d \in D!Sessions(q)
                                             THEN Numbers(sent[d]) \cup {lastTweet}
                                             ELSE Numbers(sent[d])
    <2>1. <<T>> \in Seq(Packets) /\ <<>> \in Seq(Packets)
      BY <1>1
    <2>2. Numbers(<<T>>) = {lastTweet}
      BY <1>1, <2>1, TweetNumbers DEF T
    <2>3. \A d \in Conns : Numbers(sent[d])' = IF d \in ToSet(profiles[q].sessions)
                                               THEN Numbers(sent[d]) \cup Numbers(<<T>>)
                                               ELSE Numbers(sent[d])
      BY <1>2, <2>1, SendView
    <2> QED BY <1>4, <2>2, <2>3
  <1>6. Online' = Online /\ Author' = Author
    BY <1>2, AuthorStays DEF Online
  <1>7. \A p \in ProfileIds : FollowersOf(p)' = FollowersOf(p) /\ Mailbox(p)' = Mailbox(p)
    BY <1>2, MapStays
  <1>8. D!Sent(q, {lastTweet})
    BY <1>5 DEF D!Sent
  <1>9. D!Tell(q)
    BY <1>2, <1>3, <1>4, <1>6, <1>7, <1>8 DEF D!Tell
  <1>10. \E d \in Conns : who'[d] = q /\ lastTweet' \in Numbers(sent[d])'
    <2>1. PICK d \in Conns : d \in D!Sessions(q) /\ who[d] = q
      BY <1>4 DEF D!Sessions, Online
    <2> QED BY <1>2, <1>5, <2>1
  <1> QED BY <1>9, <1>10 DEF Reached

LEMMA KeepStep ==
  ASSUME IInv, DInv, IInv', NEW c \in Conns, InsertInInbox(c)
  PROVE  \E q \in ProfileIds : q = Follower(c) /\ D!Keep(q) /\ Reached(q)'
  <1> DEFINE T == Tweet(lastTweet)
  <1> PICK q \in ProfileIds : q = Follower(c)
    BY TargetIsDue DEF InsertInInbox
  <1>1. /\ q \in ProfileIds /\ q \in Known /\ Author # nullptr /\ Author \in ProfileIds
        /\ q \in FollowersOf(Author) /\ ~Reached(q)
        /\ lastTweet \in Nat /\ lastTweet >= 1 /\ T \in Packets
    BY TargetIsDue DEF InsertInInbox
  <1>2. /\ sent' = sent /\ lastTweet' = lastTweet /\ who' = who /\ pc' = pc
        /\ Sets(q, insertPacket(profiles[q], T)) /\ keepsPacket(profiles[q])
    BY InsertInInboxSets DEF InsertInInbox, netVars
  <1>3. D!Due(q)
    BY <1>1, ReachedAre DEF D!Due
  <1>4. D!Sessions(q) = {}
    BY <1>1, <1>2, SessionsCounted, SessionsAre
  <1>5. Online' = Online /\ Author' = Author
    BY <1>2, AuthorStays DEF Online
  <1>6. \A d \in Conns : Numbers(sent[d])' = Numbers(sent[d])
    BY <1>2, SentStays
  <1>7. \A p \in ProfileIds :
          /\ FollowersOf(p)' = FollowersOf(p)
          /\ Mailbox(p)' = IF p = q THEN Mailbox(q) \cup {lastTweet} ELSE Mailbox(p)
    <2> DEFINE o == insertPacket(profiles[q], T)
    <2>1. profiles[q] \in Objects /\ profiles[q].inbox \in Seq(Packets) /\ MapOK
      BY <1>1, DeliveryTypes DEF IInv, Control
    <2>2. o.followers = profiles[q].followers /\ o.inbox = Append(profiles[q].inbox, T)
      BY <2>1 DEF insertPacket, Objects
    <2>3. Numbers(Append(profiles[q].inbox, T)) = Numbers(profiles[q].inbox) \cup {lastTweet}
      <3>1. Numbers(<<T>>) = {lastTweet}
        BY <1>1, <2>1, TweetNumbers DEF T
      <3> HIDE DEF T
      <3>2. Numbers(Append(profiles[q].inbox, T)) = Numbers(profiles[q].inbox) \cup Numbers(<<T>>)
        BY <1>1, <2>1, TweetNumbers
      <3> QED BY <3>1, <3>2
    <2> HIDE DEF o, T
    <2>4. /\ FollowersOf(q) = ToSet(profiles[q].followers)
          /\ Mailbox(q) = Numbers(profiles[q].inbox)
      BY <1>1 DEF FollowersOf, Mailbox
    <2>5. \A p \in ProfileIds :
            /\ FollowersOf(p)' = IF p = q THEN ToSet(o.followers) ELSE FollowersOf(p)
            /\ Mailbox(p)' = IF p = q THEN Numbers(o.inbox) ELSE Mailbox(p)
      BY <1>2, <2>1, SetsView DEF o
    <2> QED BY <2>2, <2>3, <2>4, <2>5
  <1>8. [p \in ProfileIds |-> Mailbox(p)]' =
          [[p \in ProfileIds |-> Mailbox(p)] EXCEPT ![q] = @ \cup {lastTweet}]
    BY <1>7
  <1>9. D!Keep(q)
    BY <1>2, <1>3, <1>4, <1>5, <1>6, <1>7, <1>8 DEF D!Keep
  <1> QED BY <1>2, <1>7, <1>9 DEF Reached

(* sendToFollowersOf ends when it has come to every follower. *)
LEMMA ArriveStep ==
  ASSUME IInv, IInv', FanReached, NEW c \in Conns, EndFanOut(c)
  PROVE  D!Arrive
  <1>1. /\ Goto(c, "fan", "receive") /\ sent' = sent /\ lastTweet' = lastTweet /\ who' = who
        /\ profiles' = profiles /\ writer' = nullptr
    BY DEF EndFanOut, netVars
  <1>2. pc[c] = "fan" /\ who[c] \in Known /\ who[c] \in ProfileIds /\ profiles[who[c]] \in Objects
    BY <1>1, WhoKnown DEF Goto, IInv, Control
  <1>3. Online' = Online
    BY <1>1, GotoOnline DEF Online, Goto
  <1>4. Author = who[c] /\ Author # nullptr /\ Author' = nullptr
    <2>1. \A d \in Conns : pc'[d] # "fan"
      BY <1>1, <1>2 DEF Goto, IInv, Control, TypeOK, WriterInside
    <2> QED BY <1>2, <2>1, AuthorIs, AuthorBecomes, ProfileIdsAssumption
  <1>5. \A p \in FollowersOf(who[c]) : p \in ProfileIds /\ Reached(p)
    <2>1. /\ profiles[who[c]].followers \in Seq(ProfileIds)
          /\ ~(i <= Len(profiles[who[c]].followers)) /\ i \in Nat
      BY <1>2, DeliveryTypes DEF EndFanOut, MoreFollowers
    <2>2. \A j \in DOMAIN profiles[who[c]].followers :
            j < i /\ profiles[who[c]].followers[j] \in ProfileIds
      BY <2>1
    <2> QED BY <1>2, <2>2 DEF FanReached, FollowersOf, ToSet
  <1>6. \A d \in Conns : Numbers(sent[d])' = Numbers(sent[d])
    BY <1>1, SentStays
  <1>7. \A p \in ProfileIds : FollowersOf(p)' = FollowersOf(p) /\ Mailbox(p)' = Mailbox(p)
    BY <1>1, MapStays
  <1> QED BY <1>1, <1>2, <1>3, <1>4, <1>5, <1>6, <1>7, ReachedAre DEF D!Arrive

(* The inbox goes to all sessions of its owner, or there is nothing in it. *)
LEMMA CollectStep ==
  ASSUME IInv, DInv, IInv', NEW c \in Conns, FetchInbox(c)
  PROVE  D!Collect(who[c]) \/ UNCHANGED D!vars
  <1> DEFINE mail == profiles[who[c]].inbox
  <1>1. PICK p \in ProfileIds : p = who[c]
    BY WhoKnown DEF FetchInbox, Goto, IInv, Control
  <1>2. /\ Goto(c, "fetch", "receive") /\ lastTweet' = lastTweet /\ who' = who
        /\ Send(ToSet(profiles[p].sessions), mail)
        /\ p \in Known /\ Sets(p, emptied(profiles[p])) /\ profiles[p] \in Objects
    BY <1>1, FetchInboxSets DEF FetchInbox
  <1>3. c \in Online /\ Online' = Online
    BY <1>2, GotoOnline DEF Online, Goto
  <1>4. Author' = Author
    BY <1>2, AuthorStays DEF Goto, IInv, Control, TypeOK
  <1>5. D!Sessions(p) = ToSet(profiles[p].sessions) /\ D!Sessions(p) # {}
    <2>1. c \in D!Sessions(p)
      BY <1>1, <1>3 DEF D!Sessions
    <2> QED BY <1>2, <2>1, SessionsCounted, SessionsAre
  <1>6. mail \in Seq(Packets) /\ Mailbox(p) = Numbers(mail)
    BY <1>1, <1>2, DeliveryTypes DEF Mailbox
  <1> HIDE DEF mail
  <1>7. \A d \in Conns : Numbers(sent[d])' = IF d \in D!Sessions(p)
                                             THEN Numbers(sent[d]) \cup Mailbox(p)
                                             ELSE Numbers(sent[d])
    <2>1. \A d \in Conns : Numbers(sent[d])' = IF d \in ToSet(profiles[p].sessions)
                                               THEN Numbers(sent[d]) \cup Numbers(mail)
                                               ELSE Numbers(sent[d])
      BY <1>2, <1>6, SendView
    <2> QED BY <1>5, <1>6, <2>1
  <1>8. \A q \in ProfileIds :
          /\ FollowersOf(q)' = FollowersOf(q)
          /\ Mailbox(q)' = IF q = p THEN {} ELSE Mailbox(q)
    <2>1. MapOK
      BY DEF IInv, Control
    <2>2. /\ emptied(profiles[p]).followers = profiles[p].followers
          /\ emptied(profiles[p]).inbox = <<>>
      BY <1>2 DEF emptied, Objects
    <2>3. FollowersOf(p) = ToSet(profiles[p].followers)
      BY <1>2 DEF FollowersOf
    <2> QED BY <1>2, <2>1, <2>2, <2>3, SetsView, NumbersOf
  <1>9. CASE Mailbox(p) = {}
    BY <1>2, <1>3, <1>4, <1>7, <1>8, <1>9 DEF D!vars
  <1>10. CASE Mailbox(p) # {}
    <2>1. [q \in ProfileIds |-> Mailbox(q)]' =
            [[q \in ProfileIds |-> Mailbox(q)] EXCEPT ![p] = {}]
      BY <1>8
    <2>2. D!Sent(p, Mailbox(p))
      BY <1>7 DEF D!Sent
    <2>3. D!Collect(p)
      BY <1>2, <1>3, <1>4, <1>5, <1>8, <1>10, <2>1, <2>2 DEF D!Collect
    <2> QED BY <1>1, <2>3
  <1> QED BY <1>9, <1>10

-----------------------------------------------------------------------------
(* Every step of the server is a step of Delivery or changes nothing that
   Delivery sees. *)
LEMMA StepDelivers ==
  ASSUME IInv, DInv, FanReached, IInv', [Next]_vars
  PROVE  [D!Next]_(D!vars)
  <1>1. CASE UNCHANGED vars
    <2>1. /\ profiles' = profiles /\ sent' = sent /\ lastTweet' = lastTweet /\ writer' = writer
          /\ pc' = pc /\ who' = who
      BY <1>1 DEF vars, mapVars, netVars
    <2>2. Online' = Online /\ Author' = Author
      BY <2>1 DEF Online, Author
    <2> QED BY <2>1, <2>2, MapStays, SentStays DEF D!vars
  <1>2. ASSUME NEW c \in Conns, Run(c) \/ Receive(c) \/ (alive /\ PeerClose(c))
        PROVE  D!Next \/ UNCHANGED D!vars
    <2>1. CASE \/ Accept(c) \/ FirstPacketEmpty(c) \/ PeerClose(c)
               \/ CreateNew(c) \/ CreateFound(c) \/ CreateRefused(c) \/ SendHello(c)
               \/ ReceiveFollow(c) \/ ReceiveSend(c)
      BY <2>1, HiddenSteps
    <2>2. CASE FirstPacketProfile(c)
      BY <2>2, PresentStep DEF D!Next
    <2>3. CASE IncSessions(c)
      BY <2>3, EnterStep DEF D!Next
    <2>4. CASE ReceiveClose(c)
      BY <2>4, LeaveStep DEF D!Next
    <2>5. CASE AddFollower(c)
      BY <2>5, FollowStep DEF D!Next
    <2>6. CASE StartFanOut(c)
      BY <2>6, PostStep DEF D!Next
    <2>7. CASE SendToFollower(c)
      BY <2>7, TellStep DEF D!Next
    <2>8. CASE InsertInInbox(c)
      BY <2>8, KeepStep DEF D!Next
    <2>9. CASE EndFanOut(c)
      BY <2>9, ArriveStep DEF D!Next
    <2>10. CASE FetchInbox(c)
      <3>1. who[c] \in ProfileIds
        BY <2>10, FetchInboxSets DEF Sets
      <3> QED BY <2>10, <3>1, CollectStep DEF D!Next
    <2> QED
      BY <1>2, <2>1, <2>2, <2>3, <2>4, <2>5, <2>6, <2>7, <2>8, <2>9, <2>10
         DEF Run, Create, Welcome, FanOut, Receive
  <1> QED BY <1>1, <1>2 DEF Next

(* Whom a tweet has reached, it has reached for good: what leaves a mailbox is
   received by a connection of its owner. *)
LEMMA ReachedStays ==
  ASSUME IInv, [D!Next]_(D!vars), lastTweet' = lastTweet
  PROVE  \A p \in ProfileIds : Reached(p) => Reached(p)'
  <1> DEFINE Mail == [p \in ProfileIds |-> Mailbox(p)]
             Seen == [c \in Conns |-> Numbers(sent[c])]
  <1>1. \A p \in ProfileIds :
          /\ Reached(p) <=> \/ lastTweet \in Mail[p]
                            \/ \E c \in Conns : who[c] = p /\ lastTweet \in Seen[c]
          /\ Reached(p)' <=> \/ lastTweet \in Mail'[p]
                             \/ \E c \in Conns : who'[c] = p /\ lastTweet \in Seen'[c]
    BY DEF Reached
  <1>2. DOMAIN Mail = ProfileIds /\ DOMAIN Seen = Conns
    OBVIOUS
  <1>3. who \in [Conns -> ProfileIds \cup {nullptr}] /\ lastTweet + 1 # lastTweet
    BY DEF IInv, Control, TypeOK
  <1> HIDE DEF Mail, Seen
  <1>4. ASSUME who' = who, \A c \in Conns : Seen[c] \subseteq Seen'[c],
               \A p \in ProfileIds :
                 \/ Mail[p] \subseteq Mail'[p]
                 \/ \E c \in Conns : who[c] = p /\ Mail[p] \subseteq Seen'[c]
        PROVE  \A p \in ProfileIds : Reached(p) => Reached(p)'
    BY <1>1, <1>4
  <1>5. CASE UNCHANGED D!vars
    BY <1>4, <1>5 DEF D!vars, Mail, Seen
  <1>6. ASSUME NEW c \in Conns, D!Enter(c) \/ D!Leave(c) \/ D!Post(c)
        PROVE  \A p \in ProfileIds : Reached(p) => Reached(p)'
    BY <1>3, <1>4, <1>6 DEF D!Enter, D!Leave, D!Post, Mail, Seen
  <1>7. ASSUME NEW c \in Conns, NEW p \in ProfileIds, D!Follow(c, p)
        PROVE  \A q \in ProfileIds : Reached(q) => Reached(q)'
    BY <1>4, <1>7 DEF D!Follow, Mail, Seen
  <1>8. ASSUME NEW c \in Conns, NEW p \in ProfileIds, D!Present(c, p)
        PROVE  \A q \in ProfileIds : Reached(q) => Reached(q)'
    <2>1. /\ Mail' = Mail /\ Seen' = Seen
          /\ who[c] = nullptr /\ \A d \in Conns : d # c => who'[d] = who[d]
      BY <1>3, <1>8 DEF D!Present, Mail, Seen
    <2> QED BY <1>1, <2>1, ProfileIdsAssumption
  <1>9. ASSUME NEW p \in ProfileIds, D!Keep(p)
        PROVE  \A q \in ProfileIds : Reached(q) => Reached(q)'
    <2>1. Mail' = [Mail EXCEPT ![p] = @ \cup {lastTweet}] /\ Seen' = Seen /\ who' = who
      BY <1>9 DEF D!Keep, Mail, Seen
    <2> QED BY <1>2, <1>4, <2>1
  <1>10. ASSUME NEW p \in ProfileIds, NEW tweets, D!Sent(p, tweets)
         PROVE  \A c \in Conns : /\ Seen[c] \subseteq Seen'[c]
                                 /\ c \in D!Sessions(p) => tweets \subseteq Seen'[c]
    <2>1. Seen' = [c \in Conns |-> IF c \in D!Sessions(p) THEN Seen[c] \cup tweets ELSE Seen[c]]
      BY <1>10 DEF D!Sent, Seen
    <2> QED BY <2>1
  <1>11. ASSUME NEW p \in ProfileIds, D!Tell(p)
         PROVE  \A q \in ProfileIds : Reached(q) => Reached(q)'
    <2>1. Mail' = Mail /\ who' = who /\ D!Sent(p, {lastTweet})
      BY <1>11 DEF D!Tell, Mail
    <2> QED BY <1>4, <1>10, <2>1
  <1>12. ASSUME NEW p \in ProfileIds, D!Collect(p)
         PROVE  \A q \in ProfileIds : Reached(q) => Reached(q)'
    <2>1. /\ Mail' = [Mail EXCEPT ![p] = {}] /\ who' = who
          /\ D!Sent(p, Mail[p]) /\ D!Sessions(p) # {}
      BY <1>12 DEF D!Collect, Mail
    <2>2. PICK c \in Conns : c \in D!Sessions(p) /\ who[c] = p
      BY <2>1 DEF D!Sessions, Online
    <2>3. \A d \in Conns : Seen[d] \subseteq Seen'[d]
      BY <1>10, <2>1
    <2>4. Mail[p] \subseteq Seen'[c]
      BY <1>10, <2>1, <2>2
    <2>5. \A q \in ProfileIds : q # p => Mail'[q] = Mail[q]
      BY <1>2, <2>1
    <2> QED BY <1>4, <2>1, <2>2, <2>3, <2>4, <2>5
  <1>13. CASE D!Arrive
    BY <1>4, <1>13 DEF D!Arrive, Mail, Seen
  <1> QED BY <1>5, <1>6, <1>7, <1>8, <1>9, <1>11, <1>12, <1>13 DEF D!Next

(* The fan-out passes a follower in the step that reaches it. *)
LEMMA NextFanReached ==
  ASSUME IInv, DInv, FanReached, IInv', [Next]_vars
  PROVE  FanReached'
  <1>1. [D!Next]_(D!vars) /\ nullptr \notin Conns
    BY StepDelivers, ConnsAssumption
  <1>2. /\ pc \in [Conns -> Locations] /\ MapOK /\ i \in Nat /\ lastTweet \in Nat
        /\ who \in [Conns -> ProfileIds \cup {nullptr}]
        /\ \A d \in Conns : pc[d] = "fan" => writer = d /\ who[d] \in Known
        /\ \A p \in Known : /\ p \in ProfileIds /\ profiles[p] \in Objects
                            /\ profiles[p].followers \in Seq(ProfileIds)
    BY DeliveryTypes DEF IInv, Control, TypeOK, WriterInside, Identified
  <1> DEFINE Same(d) == /\ pc[d] = "fan" /\ who'[d] = who[d]
                        /\ profiles'[who[d]].followers = profiles[who[d]].followers
  <1>3. ASSUME lastTweet' = lastTweet,
               \A d \in Conns : pc'[d] = "fan" => Same(d),
               \/ i' = i
               \/ /\ i' = i + 1
                  /\ \E c \in Conns, q \in ProfileIds :
                       /\ \A d \in Conns : pc[d] = "fan" => d = c
                       /\ q = Follower(c) /\ Reached(q)'
        PROVE  FanReached'
    <2> SUFFICES ASSUME NEW d \in Conns, pc'[d] = "fan",
                        NEW j \in DOMAIN profiles[who[d]].followers, j < i',
                        NEW p, p = profiles[who[d]].followers[j]
                 PROVE  Reached(p)'
      BY <1>3 DEF FanReached
    <2>1. Same(d) /\ who[d] \in Known /\ p \in ProfileIds /\ j \in Nat
      BY <1>2, <1>3
    <2>2. CASE j < i
      <3>1. Reached(p)
        BY <2>1, <2>2 DEF FanReached
      <3> QED BY <1>1, <1>3, <2>1, <3>1, ReachedStays
    <2>3. CASE j = i /\ i' = i + 1
      <3>1. PICK c \in Conns, q \in ProfileIds :
                 /\ \A e \in Conns : pc[e] = "fan" => e = c
                 /\ q = Follower(c) /\ Reached(q)'
        BY <1>2, <1>3, <2>3
      <3>2. p = q
        BY <2>1, <2>3, <3>1 DEF Follower
      <3> QED BY <3>1, <3>2
    <2> QED BY <1>2, <1>3, <2>1, <2>2, <2>3
  <1>4. ASSUME NEW c \in Conns,
               \/ Accept(c) \/ FirstPacketProfile(c) \/ FirstPacketEmpty(c) \/ PeerClose(c)
               \/ CreateFound(c) \/ CreateRefused(c) \/ SendHello(c)
               \/ ReceiveFollow(c) \/ ReceiveSend(c)
        PROVE  FanReached'
    <2>1. lastTweet' = lastTweet /\ i' = i /\ profiles' = profiles
      BY <1>4 DEF Accept, FirstPacketProfile, FirstPacketEmpty, PeerClose,
         CreateFound, CreateRefused, SendHello, ReceiveFollow, ReceiveSend, mapVars
    <2>2. \A d \in Conns : pc'[d] = "fan" => pc[d] = "fan" /\ who'[d] = who[d]
      BY <1>2, <1>4 DEF Accept, FirstPacketProfile, FirstPacketEmpty, PeerClose, Goto,
         CreateFound, CreateRefused, SendHello, ReceiveFollow, ReceiveSend, ReceiveCommand
    <2> QED BY <1>3, <2>1, <2>2
  <1>5. ASSUME NEW c \in Conns, NEW p, NEW object, Sets(p, object),
               lastTweet' = lastTweet, i' = i, who' = who,
               \A d \in Conns : pc'[d] = "fan" => pc[d] = "fan",
               p \in Known => \/ object.followers = profiles[p].followers
                             \/ writer = nullptr
        PROVE  FanReached'
    <2>1. \A d \in Conns : pc'[d] = "fan" => Same(d)
      <3> SUFFICES ASSUME NEW d \in Conns, pc'[d] = "fan" PROVE Same(d)
        OBVIOUS
      <3>1. pc[d] = "fan" /\ writer = d /\ who[d] \in Known /\ who[d] \in ProfileIds
        BY <1>2, <1>5
      <3>2. /\ profiles'[p] = object
            /\ \A q \in ProfileIds : q # p => profiles'[q] = profiles[q]
        BY <1>2, <1>5, SetsStep
      <3> QED BY <1>1, <1>5, <3>1, <3>2
    <2> HIDE DEF Same
    <2> QED BY <1>3, <1>5, <2>1
  <1>6. ASSUME NEW c \in Conns, CreateNew(c) \/ IncSessions(c) \/ ReceiveClose(c) \/ FetchInbox(c)
        PROVE  FanReached'
    <2>1. /\ lastTweet' = lastTweet /\ i' = i /\ who' = who
          /\ \A d \in Conns : pc'[d] = "fan" => pc[d] = "fan"
      BY <1>2, <1>6 DEF CreateNew, IncSessions, ReceiveClose, FetchInbox, Goto
    <2>2. CASE CreateNew(c)
      BY <1>5, <2>1, <2>2, CreateNewSets
    <2>3. CASE IncSessions(c)
      BY <1>5, <2>1, <2>3, IncSessionsSets, IncSessionsOn
    <2>4. CASE ReceiveClose(c)
      BY <1>5, <2>1, <2>4, ReceiveCloseSets, DecSessionsOn
    <2>5. CASE FetchInbox(c)
      <3>1. emptied(profiles[who[c]]).followers = profiles[who[c]].followers
        BY <2>5, FetchInboxSets DEF emptied, Objects
      <3> QED BY <1>5, <2>1, <2>5, <3>1, FetchInboxSets
    <2> QED BY <1>6, <2>2, <2>3, <2>4, <2>5
  <1>7. ASSUME NEW c \in Conns, AddFollower(c) PROVE FanReached'
    <2>1. /\ lastTweet' = lastTweet /\ i' = i /\ who' = who /\ writer = nullptr
          /\ \A d \in Conns : pc'[d] = "fan" => pc[d] = "fan"
      BY <1>2, <1>7 DEF AddFollower, Goto, LockFree
    <2>2. CASE profiles' = profiles
      BY <1>3, <2>1, <2>2
    <2>3. CASE profiles' # profiles
      BY <1>5, <1>7, <2>1, <2>3, AddFollowerSets
    <2> QED BY <2>2, <2>3
  <1>8. ASSUME NEW c \in Conns, StartFanOut(c) PROVE FanReached'
    <2>1. i' = 1 /\ who' = who /\ profiles' = profiles /\ writer = nullptr
      BY <1>8 DEF StartFanOut, LockFree
    <2>2. \A d \in Conns : pc'[d] = "fan" => d = c
      BY <1>1, <1>2, <1>8, <2>1 DEF StartFanOut, Goto
    <2>3. who[c] \in Known
      BY <1>8, WhoKnown DEF StartFanOut, Goto, IInv, Control
    <2>4. \A j \in DOMAIN profiles[who[c]].followers : j \in Nat /\ j >= 1
      BY <1>2, <2>3
    <2> QED BY <2>1, <2>2, <2>4 DEF FanReached
  <1>9. ASSUME NEW c \in Conns, SendToFollower(c) \/ InsertInInbox(c) PROVE FanReached'
    <2>1. /\ lastTweet' = lastTweet /\ i' = i + 1 /\ who' = who /\ pc' = pc
          /\ pc[c] = "fan"
      BY <1>9 DEF SendToFollower, InsertInInbox, MoreFollowers
    <2>2. \A d \in Conns : pc[d] = "fan" => d = c
      BY <1>2, <2>1
    <2>3. \E q \in ProfileIds : q = Follower(c) /\ Reached(q)'
      BY <1>9, TellStep, KeepStep
    <2>4. \A p \in Known : profiles'[p].followers = profiles[p].followers
      <3>1. CASE SendToFollower(c)
        BY <3>1 DEF SendToFollower
      <3>2. CASE InsertInInbox(c)
        <4> DEFINE f == Follower(c)
                   o == insertPacket(profiles[f], Tweet(lastTweet))
        <4>1. Sets(f, o) /\ f \in Known /\ profiles[f] \in Objects
          BY <3>2, InsertInInboxSets
        <4>2. o.followers = profiles[f].followers
          BY <4>1 DEF insertPacket, Objects
        <4> HIDE DEF f, o
        <4>3. /\ profiles'[f] = o
              /\ \A q \in ProfileIds : q # f => profiles'[q] = profiles[q]
          BY <1>2, <4>1, SetsStep
        <4> QED BY <1>2, <4>2, <4>3
      <3> QED BY <1>9, <3>1, <3>2
    <2>5. \A d \in Conns : pc'[d] = "fan" => Same(d)
      BY <1>2, <2>1, <2>4
    <2> HIDE DEF Same
    <2> QED BY <1>3, <2>1, <2>2, <2>3, <2>5
  <1>10. ASSUME NEW c \in Conns, EndFanOut(c) PROVE FanReached'
    <2>1. pc[c] = "fan" /\ pc' = [pc EXCEPT ![c] = "receive"]
      BY <1>10 DEF EndFanOut, Goto
    <2>2. \A d \in Conns : pc'[d] # "fan"
      BY <1>2, <2>1
    <2> QED BY <2>2 DEF FanReached
  <1>11. CASE UNCHANGED vars
    BY <1>3, <1>11 DEF vars, mapVars
  <1> QED
    BY <1>4, <1>6, <1>7, <1>8, <1>9, <1>10, <1>11
       DEF Next, Run, Create, Welcome, FanOut, Receive

(* The server implements Delivery.  Although sendToFollowersOf is many steps,
   logins and logouts come in between without the lock of the map, and an
   inbox is fetched by another thread later, each follower of an author is
   reached by each tweet exactly once: on all the sessions it has when its turn
   comes, or else in its inbox, which goes to all the sessions of a later
   moment. *)
THEOREM ServerDelivers == Spec => EachFollowerOnce
  <1>1. Init => IInv /\ DInv /\ FanReached
    BY InitIInv, InitDInv DEF Init, FanReached
  <1>2. IInv /\ DInv /\ FanReached /\ [Next]_vars => (IInv /\ DInv /\ FanReached)'
    BY NextIInv, NextDInv, NextFanReached
  <1>3. Init => D!Init
    <2> SUFFICES ASSUME Init PROVE D!Init
      OBVIOUS
    <2>1. Known = {} /\ Online = {} /\ Author = nullptr /\ lastTweet = 0
      BY DEF Init, Known, Online, Author
    <2>2. \A c \in Conns : Numbers(sent[c]) = {}
      BY NumbersOf DEF Init
    <2>3. \A p \in ProfileIds : FollowersOf(p) = {} /\ Mailbox(p) = {}
      BY <2>1 DEF FollowersOf, Mailbox
    <2>4. who = [c \in Conns |-> nullptr]
      BY DEF Init
    <2> QED BY <2>1, <2>2, <2>3, <2>4 DEF D!Init
  <1>4. IInv /\ DInv /\ FanReached /\ [Next]_vars => [D!Next]_(D!vars)
    BY NextIInv, StepDelivers
  <1> QED
    BY <1>1, <1>2, <1>3, <1>4, PTL DEF Spec, EachFollowerOnce, D!Spec
=============================================================================
