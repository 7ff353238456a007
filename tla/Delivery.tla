------------------------------ MODULE Delivery ------------------------------
(***************************************************************************)
(* What the server promises to those who follow: each follower of an       *)
(* author is reached by a tweet exactly once, on all its sessions together *)
(* if it is online, else in a mailbox, which all the sessions of a later   *)
(* moment are sent together.  When sessions come and go, and when mail is  *)
(* collected, is left open.                                                *)
(***************************************************************************)
EXTENDS Naturals, FiniteSets

CONSTANTS
  Profiles,     (* who may follow and be followed                           *)
  Conns,        (* connections                                              *)
  none,         (* no profile                                               *)
  MaxSessions   (* sessions that a profile may have at a time               *)

VARIABLES
  owner,        (* the profile that a connection has presented, or none     *)
  online,       (* connections that have a session                          *)
  followers,    (* those who follow each profile                            *)
  author,       (* whose tweet is on its way to the followers, or none      *)
  last,         (* the number of the last tweet                             *)
  mailbox,      (* tweets that wait for each profile                        *)
  received      (* tweets that each connection was sent                     *)

vars == <<owner, online, followers, author, last, mailbox, received>>

Init ==
  /\ owner = [c \in Conns |-> none] /\ online = {}
  /\ followers = [p \in Profiles |-> {}]
  /\ author = none /\ last = 0
  /\ mailbox = [p \in Profiles |-> {}]
  /\ received = [c \in Conns |-> {}]

Sessions(p) == {c \in online : owner[c] = p}

Present(c, p) ==
  /\ owner[c] = none
  /\ owner' = [owner EXCEPT ![c] = p]
  /\ UNCHANGED <<online, followers, author, last, mailbox, received>>

Enter(c) ==
  /\ owner[c] # none /\ c \notin online
  /\ Cardinality(Sessions(owner[c])) < MaxSessions
  /\ online' = online \cup {c}
  /\ UNCHANGED <<owner, followers, author, last, mailbox, received>>

Leave(c) ==
  /\ c \in online
  /\ online' = online \ {c}
  /\ UNCHANGED <<owner, followers, author, last, mailbox, received>>

(* Nobody begins to follow while a tweet is on its way. *)
Follow(c, p) ==
  /\ c \in online /\ p # owner[c] /\ author = none
  /\ followers' = [followers EXCEPT ![p] = @ \cup {owner[c]}]
  /\ UNCHANGED <<owner, online, author, last, mailbox, received>>

(* One tweet is on its way at a time. *)
Post(c) ==
  /\ c \in online /\ author = none
  /\ author' = owner[c]
  /\ last' = last + 1
  /\ UNCHANGED <<owner, online, followers, mailbox, received>>

Reached(p) == last \in mailbox[p] \/ \E c \in Conns : owner[c] = p /\ last \in received[c]

Due(p) == author # none /\ p \in followers[author] /\ ~Reached(p)

(* All sessions of p are sent some tweets. *)
Sent(p, tweets) ==
  received' = [c \in Conns |-> IF c \in Sessions(p) THEN received[c] \cup tweets ELSE received[c]]

Tell(p) ==
  /\ Due(p) /\ Sessions(p) # {}
  /\ Sent(p, {last})
  /\ UNCHANGED <<owner, online, followers, author, last, mailbox>>

Keep(p) ==
  /\ Due(p) /\ Sessions(p) = {}
  /\ mailbox' = [mailbox EXCEPT ![p] = @ \cup {last}]
  /\ UNCHANGED <<owner, online, followers, author, last, received>>

(* The tweet has reached everybody whom it is for. *)
Arrive ==
  /\ author # none /\ \A p \in followers[author] : Reached(p)
  /\ author' = none
  /\ UNCHANGED <<owner, online, followers, last, mailbox, received>>

Collect(p) ==
  /\ mailbox[p] # {} /\ Sessions(p) # {}
  /\ Sent(p, mailbox[p])
  /\ mailbox' = [mailbox EXCEPT ![p] = {}]
  /\ UNCHANGED <<owner, online, followers, author, last>>

Next ==
  \/ \E c \in Conns : Enter(c) \/ Leave(c) \/ Post(c)
  \/ \E c \in Conns, p \in Profiles : Present(c, p) \/ Follow(c, p)
  \/ \E p \in Profiles : Tell(p) \/ Keep(p) \/ Collect(p)
  \/ Arrive

Spec == Init /\ [][Next]_vars
=============================================================================
