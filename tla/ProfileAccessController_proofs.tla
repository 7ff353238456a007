------------------- MODULE ProfileAccessController_proofs -------------------
(***************************************************************************)
(* Safety of the readers-writer lock for any finite set of threads, any    *)
(* set of threads that may end inside a write and any number of calls, and *)
(* its refinement of ReadersWriters.                                       *)
(***************************************************************************)
EXTENDS ProfileAccessController, FiniteSetTheorems, TLAPS

USE ThreadsAssumption, RejectedAssumption, MaxCallsAssumption

(* The safety invariants are inductive only together: that a writer enters
   alone needs the counters to be exact, and that a counter of zero means an
   empty section is what wakes the right sleeper. *)
IInv == TypeOK /\ CountersExact /\ MutualExclusion /\ NoForgottenSleeper

-----------------------------------------------------------------------------
(* Init types every variable and every action keeps the types. *)
LEMMA InitTypeOK == Init => TypeOK
  BY DEF Init, TypeOK, Locations

(* A released lock leaves every thread at a known location. *)
LEMMA AfterReleaseType ==
  ASSUME TypeOK, NEW t, NEW wr, NEW rd
  PROVE  AfterRelease(t, wr, rd) \in [Threads -> Locations]
  BY DEF AfterRelease, TypeOK, Locations

(* Readers and Writers are finite, so their cardinalities are numbers that
   vanish only for the empty set. *)
LEMMA SectionsFinite ==
  /\ IsFiniteSet(Readers) /\ Cardinality(Readers) \in Nat
  /\ IsFiniteSet(Writers) /\ Cardinality(Writers) \in Nat
  /\ Cardinality(Readers) = 0 <=> Readers = {}
  /\ Cardinality(Writers) = 0 <=> Writers = {}
  <1>1. Readers \subseteq Threads /\ Writers \subseteq Threads
    BY DEF Readers, Writers, At
  <1>2. IsFiniteSet(Readers) /\ IsFiniteSet(Writers)
    BY <1>1, FS_Subset
  <1> QED
    BY <1>2, FS_CardinalityType, FS_EmptySet

(* With exact counters, the tests of requestRead and requestWrite ask the
   right question, and a release finds a positive counter. *)
LEMMA CountersTell ==
  ASSUME TypeOK, CountersExact
  PROVE  /\ num_readers = 0 <=> Readers = {}
         /\ num_writers = 0 <=> Writers = {}
  BY SectionsFinite DEF CountersExact


-----------------------------------------------------------------------------
(* Type correctness, one step per action. *)
LEMMA NextTypeOK == TypeOK /\ CountersExact /\ [Next]_vars => TypeOK'
  <1> SUFFICES ASSUME TypeOK, CountersExact, [Next]_vars
               PROVE  TypeOK'
    OBVIOUS
  <1> USE DEF TypeOK, Locations, Goto
  <1>1. ASSUME NEW t \in Threads, CallRead(t) \/ CallWrite(t)
        PROVE  TypeOK'
    BY <1>1 DEF CallRead, CallWrite
  <1>2. ASSUME NEW t \in Threads, Request(t)
        PROVE  TypeOK'
    BY <1>2 DEF Request, RequestReadWait, RequestReadEnter, RequestWriteWait,
                RequestWriteEnter
  <1>3. ASSUME NEW t \in Threads, ReleaseRead(t)
        PROVE  TypeOK'
    <2>1. num_readers # 0
      BY <1>3, CountersTell DEF ReleaseRead, Readers, At
    <2>2. pc' \in [Threads -> Locations]
      BY <1>3, AfterReleaseType DEF ReleaseRead
    <2> QED BY <1>3, <2>1, <2>2 DEF ReleaseRead
  <1>4. ASSUME NEW t \in Threads, ReleaseWrite(t)
        PROVE  TypeOK'
    <2>1. num_writers # 0
      BY <1>4, CountersTell DEF ReleaseWrite, Writers, At
    <2>2. pc' \in [Threads -> Locations]
      BY <1>4, AfterReleaseType DEF ReleaseWrite
    <2> QED BY <1>4, <2>1, <2>2 DEF ReleaseWrite
  <1>5. ASSUME NEW t \in Threads, ExitInWrite(t) \/ SpuriousWakeup(t)
        PROVE  TypeOK'
    BY <1>5 DEF ExitInWrite, SpuriousWakeup
  <1>6. CASE UNCHANGED vars
    BY <1>6 DEF vars
  <1> QED
    BY <1>1, <1>2, <1>3, <1>4, <1>5, <1>6 DEF Next, Release

-----------------------------------------------------------------------------
(* How each action changes who is inside.  These are the steps of the
   abstract lock, before its guards are established. *)
LEMMA OutsideSteps ==
  ASSUME TypeOK, NEW t \in Threads,
         CallRead(t) \/ CallWrite(t) \/ RequestReadWait(t) \/ RequestWriteWait(t)
           \/ ExitInWrite(t) \/ SpuriousWakeup(t)
  PROVE  /\ Readers' = Readers /\ Writers' = Writers
         /\ UNCHANGED <<num_readers, num_writers>>
  BY DEF CallRead, CallWrite, RequestReadWait, RequestWriteWait, ExitInWrite,
         SpuriousWakeup, Goto, Readers, Writers, At, TypeOK

LEMMA EnterReadStep ==
  ASSUME TypeOK, NEW t \in Threads, RequestReadEnter(t)
  PROVE  t \notin Readers /\ Readers' = Readers \cup {t} /\ Writers' = Writers
  BY DEF RequestReadEnter, Goto, Readers, Writers, At, TypeOK

LEMMA EnterWriteStep ==
  ASSUME TypeOK, NEW t \in Threads, RequestWriteEnter(t)
  PROVE  t \notin Writers /\ Writers' = Writers \cup {t} /\ Readers' = Readers
  BY DEF RequestWriteEnter, Goto, Readers, Writers, At, TypeOK

(* Those a release wakes were asleep, so it moves nobody else in or out. *)
LEMMA ReleaseStep ==
  ASSUME TypeOK, NEW t \in Threads,
         NEW wr \in SUBSET At("blockedWrite"), NEW rd \in SUBSET At("blockedRead"),
         pc' = AfterRelease(t, wr, rd)
  PROVE  Readers' = Readers \ {t} /\ Writers' = Writers \ {t}
  BY DEF AfterRelease, Readers, Writers, At, TypeOK

LEMMA LeaveReadStep ==
  ASSUME TypeOK, NEW t \in Threads, ReleaseRead(t)
  PROVE  t \in Readers /\ Readers' = Readers \ {t} /\ Writers' = Writers
  <1>1. PICK wr \in SUBSET At("blockedWrite") : pc' = AfterRelease(t, wr, {})
    BY DEF ReleaseRead, SignalledWriters
  <1>2. t \in Readers /\ t \notin Writers
    BY DEF ReleaseRead, Readers, Writers, At
  <1> QED
    BY <1>1, <1>2, ReleaseStep

LEMMA LeaveWriteStep ==
  ASSUME TypeOK, NEW t \in Threads, ReleaseWrite(t)
  PROVE  t \in Writers /\ Writers' = Writers \ {t} /\ Readers' = Readers
  <1>1. PICK wr \in SUBSET At("blockedWrite") :
          pc' = AfterRelease(t, wr, At("blockedRead"))
    BY DEF ReleaseWrite, SignalledWriters
  <1>2. t \in Writers /\ t \notin Readers
    BY DEF ReleaseWrite, Readers, Writers, At
  <1> QED
    BY <1>1, <1>2, ReleaseStep

-----------------------------------------------------------------------------
(* The counters stay exact: a section grows or shrinks by the one thread
   that its counter counts. *)
LEMMA NextCountersExact == TypeOK /\ CountersExact /\ [Next]_vars => CountersExact'
  <1> SUFFICES ASSUME TypeOK, CountersExact, [Next]_vars
               PROVE  CountersExact'
    OBVIOUS
  <1> USE DEF CountersExact
  <1>1. ASSUME NEW t \in Threads,
               CallRead(t) \/ CallWrite(t) \/ RequestReadWait(t) \/ RequestWriteWait(t)
                 \/ ExitInWrite(t) \/ SpuriousWakeup(t)
        PROVE  CountersExact'
    <2>1. Readers' = Readers /\ Writers' = Writers
          /\ num_readers' = num_readers /\ num_writers' = num_writers
      BY <1>1, OutsideSteps
    <2> QED BY <2>1
  <1>2. ASSUME NEW t \in Threads, RequestReadEnter(t)
        PROVE  CountersExact'
    BY <1>2, EnterReadStep, SectionsFinite, FS_AddElement DEF RequestReadEnter
  <1>3. ASSUME NEW t \in Threads, RequestWriteEnter(t)
        PROVE  CountersExact'
    BY <1>3, EnterWriteStep, SectionsFinite, FS_AddElement DEF RequestWriteEnter
  <1>4. ASSUME NEW t \in Threads, ReleaseRead(t)
        PROVE  CountersExact'
    BY <1>4, LeaveReadStep, SectionsFinite, FS_RemoveElement DEF ReleaseRead
  <1>5. ASSUME NEW t \in Threads, ReleaseWrite(t)
        PROVE  CountersExact'
    BY <1>5, LeaveWriteStep, SectionsFinite, FS_RemoveElement DEF ReleaseWrite
  <1>6. CASE UNCHANGED vars
    BY <1>6 DEF vars, Readers, Writers, At
  <1> QED
    BY <1>1, <1>2, <1>3, <1>4, <1>5, <1>6 DEF Next, Request, Release

(* Mutual exclusion: only the two enter steps add a thread to a section. *)
LEMMA NextMutualExclusion ==
  TypeOK /\ CountersExact /\ MutualExclusion /\ [Next]_vars => MutualExclusion'
  <1> SUFFICES ASSUME TypeOK, CountersExact, MutualExclusion, [Next]_vars
               PROVE  MutualExclusion'
    OBVIOUS
  <1> USE DEF MutualExclusion
  <1>1. ASSUME NEW t \in Threads,
               CallRead(t) \/ CallWrite(t) \/ RequestReadWait(t) \/ RequestWriteWait(t)
                 \/ ExitInWrite(t) \/ SpuriousWakeup(t)
        PROVE  MutualExclusion'
    <2>1. Readers' = Readers /\ Writers' = Writers
      BY <1>1, OutsideSteps
    <2> QED BY <2>1
  <1>2. ASSUME NEW t \in Threads, RequestReadEnter(t)
        PROVE  MutualExclusion'
    <2>1. Writers = {}
      BY <1>2, CountersTell DEF RequestReadEnter, MustWaitToRead, TypeOK
    <2> QED BY <1>2, <2>1, EnterReadStep
  <1>3. ASSUME NEW t \in Threads, RequestWriteEnter(t)
        PROVE  MutualExclusion'
    <2>1. Writers = {} /\ Readers = {}
      BY <1>3, CountersTell DEF RequestWriteEnter, MustWaitToWrite, TypeOK
    <2> QED BY <1>3, <2>1, EnterWriteStep
  <1>4. ASSUME NEW t \in Threads, ReleaseRead(t)
        PROVE  MutualExclusion'
    BY <1>4, LeaveReadStep
  <1>5. ASSUME NEW t \in Threads, ReleaseWrite(t)
        PROVE  MutualExclusion'
    BY <1>5, LeaveWriteStep
  <1>6. CASE UNCHANGED vars
    BY <1>6 DEF vars, Readers, Writers, At
  <1> QED
    BY <1>1, <1>2, <1>3, <1>4, <1>5, <1>6 DEF Next, Request, Release

-----------------------------------------------------------------------------
(* Nobody is forgotten: to fall asleep a thread must see the lock taken, and
   the step that frees the lock wakes all readers and one writer. *)
LEMMA NextNoForgottenSleeper == IInv /\ [Next]_vars => NoForgottenSleeper'
  <1> SUFFICES ASSUME TypeOK, CountersExact, MutualExclusion, NoForgottenSleeper, [Next]_vars
               PROVE  NoForgottenSleeper'
    BY DEF IInv
  <1> USE DEF NoForgottenSleeper
  <1>1. ASSUME NEW t \in Threads, CallRead(t) \/ CallWrite(t)
        PROVE  NoForgottenSleeper'
    BY <1>1 DEF CallRead, CallWrite, Goto, At, TypeOK
  <1>2. ASSUME NEW t \in Threads, RequestReadWait(t)
        PROVE  NoForgottenSleeper'
    BY <1>2 DEF RequestReadWait, MustWaitToRead, Goto, At, TypeOK
  <1>3. ASSUME NEW t \in Threads, RequestReadEnter(t)
        PROVE  NoForgottenSleeper'
    BY <1>3 DEF RequestReadEnter, MustWaitToRead, Goto, At, TypeOK
  <1>4. ASSUME NEW t \in Threads, RequestWriteWait(t)
        PROVE  NoForgottenSleeper'
    BY <1>4 DEF RequestWriteWait, MustWaitToWrite, Goto, At, TypeOK
  <1>5. ASSUME NEW t \in Threads, RequestWriteEnter(t)
        PROVE  NoForgottenSleeper'
    BY <1>5 DEF RequestWriteEnter, Goto, At, TypeOK
  <1>6. ASSUME NEW t \in Threads, ReleaseRead(t)
        PROVE  NoForgottenSleeper'
    <2>1. PICK wr \in (IF num_readers' = 0 THEN SignalledWriters ELSE {{}}) :
            pc' = AfterRelease(t, wr, {})
      BY <1>6 DEF ReleaseRead
    <2>2. wr \subseteq At("blockedWrite") /\ At("blockedWrite") \subseteq Threads
      BY <2>1 DEF SignalledWriters, At
    <2>3. At("blockedRead") = {}
      \* a reader asleep means a writer inside, but t is inside as a reader
      BY <1>6, CountersTell, LeaveReadStep DEF MutualExclusion, TypeOK
    <2>4. At("blockedRead")' = {}
      BY <2>1, <2>2, <2>3 DEF AfterRelease, At, TypeOK
    <2>5. CASE num_readers' = 0 /\ At("blockedWrite") # {}
      <3>1. PICK w \in At("blockedWrite") : wr = {w}
        BY <2>1, <2>5 DEF SignalledWriters
      <3>2. w \in Threads /\ w # t
        BY <2>2, <1>6 DEF ReleaseRead, At
      <3>3. pc'[w] = "requestWrite"
        BY <2>1, <3>1, <3>2 DEF AfterRelease
      <3> QED BY <2>4, <3>2, <3>3 DEF At
    <2>6. CASE num_readers' = 0 /\ At("blockedWrite") = {}
      <3>1. At("blockedWrite")' = {}
        BY <2>1, <2>6 DEF AfterRelease, SignalledWriters, At, TypeOK
      <3> QED BY <2>4, <3>1
    <2>7. CASE num_readers' # 0
      <3>1. num_readers' > 0
        BY <2>7, NextTypeOK DEF TypeOK
      <3> QED BY <2>4, <3>1
    <2> QED BY <2>5, <2>6, <2>7
  <1>7. ASSUME NEW t \in Threads, ReleaseWrite(t)
        PROVE  NoForgottenSleeper'
    <2>1. PICK wr \in SignalledWriters : pc' = AfterRelease(t, wr, At("blockedRead"))
      BY <1>7 DEF ReleaseWrite
    <2>2. wr \subseteq At("blockedWrite") /\ At("blockedWrite") \subseteq Threads
      BY <2>1 DEF SignalledWriters, At
    <2>3. At("blockedRead")' = {}
      BY <2>1, <2>2 DEF AfterRelease, At, TypeOK
    <2>4. CASE At("blockedWrite") # {}
      <3>1. PICK w \in At("blockedWrite") : wr = {w}
        BY <2>1, <2>4 DEF SignalledWriters
      <3>2. w \in Threads /\ w # t
        BY <2>2, <1>7 DEF ReleaseWrite, At
      <3>3. pc'[w] = "requestWrite"
        BY <2>1, <3>1, <3>2 DEF AfterRelease
      <3> QED BY <2>3, <3>2, <3>3 DEF At
    <2>5. CASE At("blockedWrite") = {}
      <3>1. At("blockedWrite")' = {}
        BY <2>1, <2>5 DEF AfterRelease, SignalledWriters, At, TypeOK
      <3> QED BY <2>3, <3>1
    <2> QED BY <2>4, <2>5
  <1>8. ASSUME NEW t \in Threads, ExitInWrite(t)
        PROVE  NoForgottenSleeper'
    BY <1>8 DEF ExitInWrite, Goto, At, TypeOK
  <1>9. ASSUME NEW t \in Threads, SpuriousWakeup(t)
        PROVE  NoForgottenSleeper'
    BY <1>9 DEF SpuriousWakeup, Goto, At, TypeOK
  <1>10. CASE UNCHANGED vars
    BY <1>10 DEF vars, At
  <1> QED
    BY <1>1, <1>2, <1>3, <1>4, <1>5, <1>6, <1>7, <1>8, <1>9, <1>10
       DEF Next, Request, Release

-----------------------------------------------------------------------------
(* Initially nobody is inside and nobody sleeps. *)
LEMMA InitIInv == Init => IInv
  <1> SUFFICES ASSUME Init PROVE IInv
    OBVIOUS
  <1>1. Readers = {} /\ Writers = {} /\ \A l : l # "idle" => At(l) = {}
    BY DEF Init, Readers, Writers, At
  <1> QED
    BY <1>1, InitTypeOK, FS_EmptySet
       DEF Init, IInv, CountersExact, MutualExclusion, NoForgottenSleeper

(* Every step of the lock preserves the inductive invariant. *)
LEMMA NextIInv == IInv /\ [Next]_vars => IInv'
  BY NextTypeOK, NextCountersExact, NextMutualExclusion, NextNoForgottenSleeper DEF IInv

(* The inductive invariant holds in every reachable state. *)
THEOREM Safety == Spec => []IInv
  BY InitIInv, NextIInv, PTL DEF Spec

(* The counters and locations of the lock always have their types; that
   num_readers and num_writers never go negative needs CountersExact. *)
THEOREM TypeCorrect == Spec => []TypeOK
  <1>1. IInv => TypeOK
    BY DEF IInv
  <1> QED BY <1>1, Safety, PTL

(* num_readers and num_writers always equal the number of threads inside. *)
THEOREM CountersAlwaysExact == Spec => []CountersExact
  <1>1. IInv => CountersExact
    BY DEF IInv
  <1> QED BY <1>1, Safety, PTL

(* No two threads are ever in conflicting operations on the profile map. *)
THEOREM Exclusion == Spec => []MutualExclusion
  <1>1. IInv => MutualExclusion
    BY DEF IInv
  <1> QED BY <1>1, Safety, PTL

(* No wake-up is ever lost: a sleeping thread always has a thread inside, or
   a woken writer on its way, that will pass by the condition variables. *)
THEOREM NoLostWakeup == Spec => []NoForgottenSleeper
  <1>1. IInv => NoForgottenSleeper
    BY DEF IInv
  <1> QED BY <1>1, Safety, PTL

-----------------------------------------------------------------------------
(* Every step of the lock is a step of ReadersWriters or leaves its state
   alone. *)
LEMMA StepRefines == IInv /\ [Next]_vars => [RW!Next]_(RW!vars)
  <1> SUFFICES ASSUME TypeOK, CountersExact, MutualExclusion, [Next]_vars
               PROVE  [RW!Next]_(RW!vars)
    BY DEF IInv
  <1> USE DEF RW!vars
  <1>1. ASSUME NEW t \in Threads,
               CallRead(t) \/ CallWrite(t) \/ RequestReadWait(t) \/ RequestWriteWait(t)
                 \/ ExitInWrite(t) \/ SpuriousWakeup(t)
        PROVE  UNCHANGED RW!vars
    BY <1>1, OutsideSteps
  <1>2. ASSUME NEW t \in Threads, RequestReadEnter(t)
        PROVE  RW!StartRead(t)
    BY <1>2, EnterReadStep, CountersTell DEF RequestReadEnter, MustWaitToRead, TypeOK,
       RW!StartRead
  <1>3. ASSUME NEW t \in Threads, RequestWriteEnter(t)
        PROVE  RW!StartWrite(t)
    BY <1>3, EnterWriteStep, CountersTell DEF RequestWriteEnter, MustWaitToWrite, TypeOK,
       RW!StartWrite
  <1>4. ASSUME NEW t \in Threads, ReleaseRead(t)
        PROVE  RW!EndRead(t)
    BY <1>4, LeaveReadStep DEF RW!EndRead
  <1>5. ASSUME NEW t \in Threads, ReleaseWrite(t)
        PROVE  RW!EndWrite(t)
    BY <1>5, LeaveWriteStep DEF MutualExclusion, RW!EndWrite
  <1>6. CASE UNCHANGED vars
    BY <1>6 DEF vars, Readers, Writers, At
  <1> QED
    BY <1>1, <1>2, <1>3, <1>4, <1>5, <1>6 DEF Next, Request, Release, RW!Next

(* ProfileAccessController implements ReadersWriters. *)
THEOREM Refinement == Spec => Discipline
  <1>1. Init => RW!Init
    BY DEF Init, RW!Init, Readers, Writers, At
  <1> QED
    BY <1>1, StepRefines, Safety, PTL DEF Spec, Discipline, RW!Spec
=============================================================================
