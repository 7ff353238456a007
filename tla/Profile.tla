------------------------------- MODULE Profile ------------------------------
(***************************************************************************)
(* A Profile object (server/Profile.cpp) with its Inbox (server/Inbox.cpp),*)
(* as a value, and what each of its methods makes of it.  Every method     *)
(* that changes an object runs under that object's mutex m, so a method is *)
(* one operator.                                                           *)
(***************************************************************************)
EXTENDS Integers, Sequences, SequencesExt

(* Profile::Profile *)
NewProfile == [sessions_on |-> 0, sessions |-> <<>>, followers |-> <<>>, inbox |-> <<>>]

incSessionsOn(profile, conn) ==
  [profile EXCEPT !.sessions_on = @ + 1, !.sessions = Append(@, conn)]

(* Fault: the session leaves the vector and stays in the count. *)
decSessionsOnUncounted(profile, conn) ==
  [profile EXCEPT !.sessions = RemoveFirst(@, conn)]

(* The first entry for conn leaves the vector; no entry, no change. *)
decSessionsOn(profile, conn) ==
  IF Contains(profile.sessions, conn)
  THEN [profile EXCEPT !.sessions_on = @ - 1, !.sessions = RemoveFirst(@, conn)]
  ELSE profile

(* The connection of a client that was logged in on another server: it joins
   the vector and is not counted. *)
updateSessionsOn(profile, conn) == [profile EXCEPT !.sessions = Append(@, conn)]

(* Fault: a second FOLLOW is not recognised. *)
followsNever(profile, follower) == FALSE

(* ProfilesManager::addFollowerTo, the part on the followed profile *)
follows(profile, follower) == Contains(profile.followers, follower)

addFollower(profile, follower) ==
  [profile EXCEPT !.followers = Append(@, follower)]

(* Fault: the test on the number of sessions is off by one. *)
keepsPacketOffByOne(profile) == profile.sessions_on <= 1

(* Profile::sendOrInsertInbox keeps the packet exactly when no session is
   counted, and otherwise sends it on every session in the vector. *)
keepsPacket(profile) == profile.sessions_on <= 0

(* Faults: the inbox holds one packet; the inbox is a stack. *)
insertPacketOverwrites(profile, packet) == [profile EXCEPT !.inbox = <<packet>>]
insertPacketInFront(profile, packet) == [profile EXCEPT !.inbox = <<packet>> \o @]

insertPacket(profile, packet) == [profile EXCEPT !.inbox = Append(@, packet)]

(* Profile::fetchInboxContent pops packet after packet until none is left. *)
emptied(profile) == [profile EXCEPT !.inbox = <<>>]
=============================================================================
