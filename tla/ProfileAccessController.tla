---------------------- MODULE ProfileAccessController -----------------------
(***************************************************************************)
(* The readers-writer lock of server/ProfileAccessController.cpp, through  *)
(* which every server thread reaches the profile map.  It is built from    *)
(* one mutex m, two counters and the condition variables ok_to_read and    *)
(* ok_to_write.                                                            *)
(*                                                                         *)
(* Every access to the counters happens with m held, and a thread gives m  *)
(* up only at pthread_mutex_unlock or inside pthread_cond_wait, so each    *)
(* action below is one stretch of code from obtaining m to giving it up.   *)
(***************************************************************************)
EXTENDS Naturals, FiniteSets

CONSTANTS
  Threads,   (* the server threads                                          *)
  Rejected,  (* those whose createProfileIfNotExists may find MAX_SESSIONS  *)
             (* sessions and call pthread_exit inside the write section     *)
  MaxCalls   (* bound: the calls one thread makes in a behaviour            *)

ASSUME ThreadsAssumption == IsFiniteSet(Threads)
ASSUME RejectedAssumption == Rejected \subseteq Threads
ASSUME MaxCallsAssumption == MaxCalls \in Nat

VARIABLES
  num_readers,
  num_writers,
  pc,        (* where each thread is                                        *)
  calls      (* calls each thread has still to make                         *)

vars == <<num_readers, num_writers, pc, calls>>

(***************************************************************************)
(* "request..." is a thread about to take m and test the counters, for the *)
(* first time or after it was woken; "blocked..." is a thread asleep in    *)
(* pthread_cond_wait; "exited" is a thread that ended between requestWrite *)
(* and releaseWrite.                                                       *)
(***************************************************************************)
Locations == {"idle", "requestRead", "blockedRead", "reading",
              "requestWrite", "blockedWrite", "writing", "exited"}

At(l) == {t \in Threads : pc[t] = l}

Readers == At("reading")
Writers == At("writing") \cup At("exited")

Goto(t, from, to) == pc[t] = from /\ pc' = [pc EXCEPT ![t] = to]

Init ==
  /\ num_readers = 0
  /\ num_writers = 0
  /\ pc = [t \in Threads |-> "idle"]
  /\ calls = [t \in Threads |-> MaxCalls]

(* getProfileById or hasProfile is called. *)
CallRead(t) ==
  /\ calls[t] > 0
  /\ Goto(t, "idle", "requestRead")
  /\ calls' = [calls EXCEPT ![t] = @ - 1]
  /\ UNCHANGED <<num_readers, num_writers>>

(* insertProfile, addFollowerTo, sendToFollowersOf, createProfileIfNotExists
   or sendCloseConnToAll is called. *)
CallWrite(t) ==
  /\ calls[t] > 0
  /\ Goto(t, "idle", "requestWrite")
  /\ calls' = [calls EXCEPT ![t] = @ - 1]
  /\ UNCHANGED <<num_readers, num_writers>>

(* Fault: requestRead does not wait. *)
NeverWait == FALSE

MustWaitToRead == num_writers > 0
MustWaitToWrite == num_readers > 0 \/ num_writers > 0

RequestReadWait(t) ==
  /\ MustWaitToRead
  /\ Goto(t, "requestRead", "blockedRead")
  /\ UNCHANGED <<num_readers, num_writers, calls>>

(* Fault: requestRead does not count the reader. *)
RequestReadEnterUncounted(t) ==
  /\ ~MustWaitToRead
  /\ Goto(t, "requestRead", "reading")
  /\ UNCHANGED <<num_readers, num_writers, calls>>

RequestReadEnter(t) ==
  /\ ~MustWaitToRead
  /\ Goto(t, "requestRead", "reading")
  /\ num_readers' = num_readers + 1
  /\ UNCHANGED <<num_writers, calls>>

RequestWriteWait(t) ==
  /\ MustWaitToWrite
  /\ Goto(t, "requestWrite", "blockedWrite")
  /\ UNCHANGED <<num_readers, num_writers, calls>>

RequestWriteEnter(t) ==
  /\ ~MustWaitToWrite
  /\ Goto(t, "requestWrite", "writing")
  /\ num_writers' = num_writers + 1
  /\ UNCHANGED <<num_readers, calls>>

(* Fault: the lock is released without a signal. *)
NoSignal == {{}}

(* pthread_cond_signal(&ok_to_write): one sleeping writer, if there is one. *)
SignalledWriters == IF At("blockedWrite") = {} THEN {{}}
                    ELSE {{w} : w \in At("blockedWrite")}

(* Fault: releaseWrite does not broadcast to the readers. *)
AfterReleaseNoBroadcast(t, wr, rd) ==
  [u \in Threads |-> IF u = t THEN "idle"
                     ELSE IF u \in wr THEN "requestWrite"
                     ELSE pc[u]]

(* Where the threads are after t has returned and wr, rd were woken. *)
AfterRelease(t, wr, rd) ==
  [u \in Threads |-> IF u = t THEN "idle"
                     ELSE IF u \in wr THEN "requestWrite"
                     ELSE IF u \in rd THEN "requestRead"
                     ELSE pc[u]]

ReleaseRead(t) ==
  /\ pc[t] = "reading"
  /\ num_readers' = num_readers - 1
  /\ \E wr \in (IF num_readers' = 0 THEN SignalledWriters ELSE {{}}) :
       pc' = AfterRelease(t, wr, {})
  /\ UNCHANGED <<num_writers, calls>>

ReleaseWrite(t) ==
  /\ pc[t] = "writing"
  /\ num_writers' = num_writers - 1
  /\ \E wr \in SignalledWriters : pc' = AfterRelease(t, wr, At("blockedRead"))
  /\ UNCHANGED <<num_readers, calls>>

(* The thread ends in ProfilesManager::createProfileIfNotExists: the
   controller's releaseWrite, which follows the call, never runs. *)
ExitInWrite(t) ==
  /\ t \in Rejected
  /\ Goto(t, "writing", "exited")
  /\ UNCHANGED <<num_readers, num_writers, calls>>

(* POSIX lets pthread_cond_wait return without a signal. *)
SpuriousWakeup(t) ==
  /\ \/ Goto(t, "blockedRead", "requestRead")
     \/ Goto(t, "blockedWrite", "requestWrite")
  /\ UNCHANGED <<num_readers, num_writers, calls>>

Request(t) ==
  RequestReadWait(t) \/ RequestReadEnter(t) \/ RequestWriteWait(t) \/ RequestWriteEnter(t)

Release(t) == ReleaseRead(t) \/ ReleaseWrite(t)

Next == \E t \in Threads :
  \/ CallRead(t)
  \/ CallWrite(t)
  \/ Request(t)
  \/ Release(t)
  \/ ExitInWrite(t)
  \/ SpuriousWakeup(t)

Spec == Init /\ [][Next]_vars

(***************************************************************************)
(* A thread inside the controller keeps running: it takes m when m is free *)
(* and it comes back from the map.  Nothing obliges a thread to call, and  *)
(* nothing wakes a sleeping thread except another thread's signal.         *)
(***************************************************************************)
Fairness == \A t \in Threads : WF_vars(Request(t)) /\ WF_vars(Release(t))

FairSpec == Spec /\ Fairness
-----------------------------------------------------------------------------
TypeOK ==
  /\ num_readers \in Nat
  /\ num_writers \in Nat
  /\ pc \in [Threads -> Locations]
  /\ calls \in [Threads -> 0..MaxCalls]

(* The counters say exactly who is inside: no path through requestRead,
   releaseRead, requestWrite and releaseWrite counts a thread twice or
   forgets one, whatever wake-ups it went through. *)
CountersExact ==
  /\ num_readers = Cardinality(Readers)
  /\ num_writers = Cardinality(Writers)

(* While a thread is in a write operation on the profile map no other
   thread reads or writes it, and a thread that ended there still counts. *)
MutualExclusion ==
  \A t \in Writers : Readers = {} /\ Writers = {t}

(* Nobody sleeps beside a free lock unless a wake-up is under way:
   releaseRead signals only at zero readers and only one writer, and a
   woken writer may find the lock taken again, yet no writer is forgotten
   on ok_to_write; and no reader sleeps on ok_to_read without a writer. *)
NoForgottenSleeper ==
  /\ At("blockedRead") # {} => num_writers > 0
  /\ At("blockedWrite") # {} =>
       num_writers > 0 \/ num_readers > 0 \/ At("requestWrite") # {}

(* ProfileAccessController implements the readers-writer discipline. *)
RW == INSTANCE ReadersWriters WITH readers <- Readers, writers <- Writers
Discipline == RW!Spec

(* With finitely many calls and no thread ending inside a write, every
   request is granted: the hand-over by signal and broadcast leaves nobody
   asleep for ever. *)
EveryRequestGranted ==
  \A t \in Threads :
    /\ pc[t] \in {"requestRead", "blockedRead"} ~> pc[t] = "reading"
    /\ pc[t] \in {"requestWrite", "blockedWrite"} ~> pc[t] = "writing"
=============================================================================
