--------------------------- MODULE MCReplication ----------------------------
(* Small instances of Replication for TLC. *)
EXTENDS Replication

CONSTANTS k1, k2, k3, p1, p2, b1, b2

(* One author, and two programs with the profile of a reader: the first one
   subscribes and leaves, the second one comes for the mail.  Each may send
   what it takes: log in and tweet; log in, follow and leave; log in. *)
AuthorAndReader == (k1 :> p1) @@ (k2 :> p2) @@ (k3 :> p2)
Separate == (k1 :> {"SEND"}) @@ (k2 :> {"FOLLOW", "CLOSE_CONN"}) @@ (k3 :> {})

PacketsEach == (k1 :> 2) @@ (k2 :> 3) @@ (k3 :> 1)

(* One client, whose user types every command. *)
Single == k1 :> p1
Anything == [k \in Clients |-> {"FOLLOW", "SEND", "CLOSE_CONN"}]
OnePacket == [k \in Clients |-> 1]
=============================================================================
