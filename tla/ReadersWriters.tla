--------------------------- MODULE ReadersWriters ---------------------------
(***************************************************************************)
(* What ProfileAccessController promises to its callers: the profile map   *)
(* is either read by any number of threads or written by exactly one.      *)
(* Which thread gets in, and when, is left open.                           *)
(***************************************************************************)
CONSTANT Threads   (* the server threads that call the controller          *)

VARIABLES readers, (* threads between requestRead and releaseRead          *)
          writers  (* threads between requestWrite and releaseWrite        *)

vars == <<readers, writers>>

Init == readers = {} /\ writers = {}

StartRead(t) ==
  /\ t \notin readers
  /\ writers = {}
  /\ readers' = readers \cup {t}
  /\ UNCHANGED writers

EndRead(t) ==
  /\ t \in readers
  /\ readers' = readers \ {t}
  /\ UNCHANGED writers

StartWrite(t) ==
  /\ readers = {}
  /\ writers = {}
  /\ writers' = {t}
  /\ UNCHANGED readers

EndWrite(t) ==
  /\ writers = {t}
  /\ writers' = {}
  /\ UNCHANGED readers

Next == \E t \in Threads : StartRead(t) \/ EndRead(t) \/ StartWrite(t) \/ EndWrite(t)

Spec == Init /\ [][Next]_vars
=============================================================================
