# TLA+ models of the Twitter-like client-server system

This directory holds TLA+ specifications of the program in `../src`, TLC
configurations that check them on small instances, and proofs checked by TLAPS.
`PROJECT.json` lists the components, the runs, the mapping from definitions to
source lines, the hazards of the code and the theorems.

## 1. The system

Three programs talk over TCP in frames of 4096 bytes (`commons/Packet.cpp`).

| Part | Source | State | Operations |
|---|---|---|---|
| Server threads | `server/main.cpp` | one `fromClient` thread per connection; `listBackups`, `electionServerList` | accept, `receiveProfileCmd`, `processPacket` (PROFILE, FOLLOW, SEND, CLOSE_CONN, BACKUP_PROPAGATION), `sendToBackups` |
| `ProfileAccessController` | `server/ProfileAccessController.cpp` | mutex, `num_readers`, `num_writers`, `ok_to_read`, `ok_to_write` | `requestRead`, `releaseRead`, `requestWrite`, `releaseWrite` around every operation of the profile map |
| `ProfilesManager` | `server/ProfilesManager.cpp` | map from name to `Profile`, `state.json` | `createProfileIfNotExists`, `addFollowerTo`, `sendToFollowersOf`, `getProfileById`, `toJsonFile` |
| `Profile`, `Inbox` | `server/Profile.cpp`, `server/Inbox.cpp` | `sessions_on`, `sessions`, `followers`, inbox queue, a mutex | `incSessionsOn`, `decSessionsOn`, `updateSessionsOn`, `sendOrInsertInbox`, `fetchInboxContent` |
| Connections | `commons/ClientConnection.cpp`, `commons/Connection.cpp` | socket, `closed` | send and receive one frame; results of `send` (both) and `recv` (server side) are ignored |
| Backup | `server/main.cpp` `receiveAlive` | the connection to the primary | apply the primary's packets; when the connection ends, SET_PRIMARY to the router and start serving |
| Router | `router/main.cpp` | `primaryServer`, `hasPrimary`, a mutex | SET_PRIMARY_IF_NOT_EXISTS, SET_PRIMARY, GET_PRIMARY, CLOSE_CONN |
| Client | `client/main.cpp` | `con`, `routerConn`, `primary`, `updateMutex` | threads `toServer` and `fromServer`, `updateConn` |
| Ring election | `server/main.cpp:83-156` | `electionStarted` | dead code: every call is commented out |

How they interact. A server asks the router for its role; a backup connects to
the primary and announces itself with SET_BACKUP. A client asks the router for
the primary, connects and presents a profile. The thread of that connection
enters the profile map under the controller's write lock and from then on
executes the client's commands; it forwards every command it has executed to
every backup. When the primary's process ends, each backup makes itself primary
at the router and clients ask the router again.

What is hard here:

* **Concurrency.** The map's lock is a hand-made readers-writer lock on
  condition variables. Closing a session and fetching an inbox take only the
  profile's mutex, so they interleave with the phases of a write section.
  `listBackups`, `electionServerList` and the router's string are shared
  without a lock.
* **Partial failure.** A refused login ends its thread with `pthread_exit`
  inside the write section. A client that vanishes makes `recv` return nothing,
  which is taken for a packet, and a later `send` may raise SIGPIPE.
* **Ordering.** Executing a command and forwarding it are separate steps; a
  tweet may go directly to a follower while older ones wait in its inbox.
* **Crash and failover.** Roles are decided from an answer that may be out of
  date; the state a backup inherits has null sessions.

What makes each part correct:

* lock: exact counters, exclusion, no lost wake-up, every request granted;
* sessions: `sessions_on`, the vector and the threads agree, at most
  `MAX_SESSIONS`;
* delivery: each follower reached by each tweet once (`Delivery`), no tweet lost,
  none sent twice to a connection, none left in the
  inbox of a profile that is online, order kept except for the one overtaking
  that the code allows;
* `state.json`: equal to the map whenever nobody writes;
* router and failover: one primary among servers that start together, a backup
  that takes over, clients that find a serving server;
* replication: a backup that has caught up differs from the primary only where
  two commands raced; it lives on orderly traffic; after taking over it counts
  the sessions of the clients that come back;
* client: commands in order and at most once, lost only around a failover or a
  refused login; once a primary stays, the program comes to rest on a connection
  to it or ends, except where the code leaves it spinning;
* packets: what is decoded is what was sent as long as frames arrive whole;
  nothing is invented as long as they are cut in their padding, and nothing is
  lost unless a `recv` goes on from the padding into the next frame.

## 2. Modules

| Module | Models | Uses |
|---|---|---|
| `ReadersWriters` | what the lock promises: any number of readers, or one writer | |
| `ProfileAccessController` | the lock as written | refines `ReadersWriters` |
| `ProfileAccessController_proofs` | theorems about the lock | |
| `Profile` | a `Profile` with its `Inbox` as a value, one operator per method | |
| `Delivery` | what the server promises to followers: each tweet reaches each of them once | |
| `TwitterServer` | the primary server without backups: connection threads, map, sockets, `state.json` | `Profile`; the lock through its discipline; refines `Delivery` |
| `TwitterServer_proofs` | theorems about sessions, inboxes and `state.json`, what is delivered in which order, and the refinement of `Delivery` | `SequenceLemmas` |
| `Router` | the router's threads, mutex and unguarded string | |
| `Failover` | `main` of every server, promotion, crash and restart | `Router` |
| `Failover_proofs` | theorems about the roles of the servers | |
| `Replication` | a primary, its backups and clients that move to one: forwarding, applying, takeover | `Profile` |
| `Replication_proofs` | theorems about the types, the address lists and the session counts | `SequenceLemmas` |
| `ReplicationCopies_proofs` | theorems about the copies that backups have of the map | `Replication_proofs` |
| `Client` | the client program with its threads and descriptors, among servers that become primary one after the other | |
| `Client_proofs` | theorems about the client | |
| `PacketCodec` | byte layout of packets, frames over a stream that `recv` cuts | |
| `PacketCodec_proofs` | theorems about the codec and the stream | `SequenceLemmas` |
| `SequenceLemmas` | what `Append`, `\o`, `Tail` and `RemoveFirst` do to a sequence and to the set of its elements | |
| `MCProfileAccessController`, `MCTwitterServer`, `MCFailover`, `MCReplication`, `MCPacketCodec` | instances for TLC | |

Definitions marked `Fault:` are deliberate faults: variants of the definition
that follows them which some property must reject. No specification uses them;
`PROJECT.json` ("mutants") says which property each one must break.

### ProfileAccessController

One action is one stretch of code from obtaining the mutex `m` to giving it up
(`pthread_mutex_unlock` or `pthread_cond_wait`), because counters change only
there. `RequestReadWait` and `RequestReadEnter` are the two outcomes of one
evaluation of the `while` condition in `requestRead`; a thread that was woken
returns to `requestRead` and evaluates it again. A signal moves one chosen
sleeper, a broadcast all of them, and a spurious wake-up may move any
(POSIX allows it). `ExitInWrite` is `pthread_exit` in `createProfileIfNotExists`
(`ProfilesManager.cpp:148`): the thread is gone and the counter stays.

### Profile and TwitterServer

A thread is named after its connection. A step ends where the thread takes or
releases the controller's lock or a profile's mutex, or waits for its client.
`createProfileIfNotExists` is therefore the test (`CreateNew`, `CreateFound`,
`CreateRefused`) and the increment (`IncSessions`), both inside one write
section, with `decSessionsOn` of other threads possible in between;
`sendToFollowersOf` is one step for each follower. The lock appears as `writer`:
a step of the map needs `LockFree`. That is the discipline of `ReadersWriters`,
which the lock is proved to implement; the only read section the server uses,
`getProfileById`, is a single step.

`peer` is the far end of a socket. To a client that is `gone` the first packet
is lost and answered by a reset; to a `reset` one, `send` may raise SIGPIPE,
which kills the server (`alive`). The thread of a vanished client reads zeroed
packets that no case of `processPacket` matches: it takes no step and its
session stays. A client that vanishes before PROFILE makes `receiveProfileCmd`
call a method of `nullptr` (`FirstPacketEmpty`).

`Delivery` forgets the threads, the locks and the order of followers: a tweet is
on its way from an author, each of the author's followers who has not been
reached is either told, on all the sessions it has at that moment, or, if it has
none, has the tweet kept in a mailbox, which all the sessions of a later moment
are sent. The tweet has arrived only when every follower has been reached, and
nobody begins to follow meanwhile. `D` maps the server to it: the connections
between `incSessionsOn` and `decSessionsOn` are online, the author is the profile
of the thread inside `sendToFollowersOf`, the mailbox holds the numbers of the
inbox. The comparison leaves out the order of tweets, which `OnlyInboxOvertaken`
is about, and what a client reads from its socket.

`lastTweet` numbers tweets by the order of their fan-outs and `parked` records
what went through an inbox; both serve the delivery properties.

### Router and Failover

The assignment to `primaryServer` is no atomic step: `setPrimary` is entered
(`BeginAssign`) and left (`EndAssign`), and SET_PRIMARY and GET_PRIMARY do not
take the mutex. This is a data race, so a copy made during an assignment may be
the old string, one of the strings being assigned or `torn`, bytes of several;
overlapping assignments leave one of their strings or `torn`.

`Failover` runs `main` on every server. A server that finds nobody listening at
the address it was given ends, since nothing catches the exception of
`Connection`. A killed process loses its connections, so its backups leave
`receiveAlive` through the exception; what it had asked the router is still
carried out. Killing covers every way the process ends. A host that disappears
without closing its connections is not modelled: the backups would never
notice, since ALIVE is never sent.

A backup takes whatever the router answers to its SET_PRIMARY for consent
(`AnyAnswer`): `main.cpp:306` reads the answer and does not look at it.

### Replication

`TwitterServer` has the steps inside a command. Here a command is one step, and
so is handing a packet to one backup, because what matters is the order in which
the commands of several threads reach each copy of the map. That the command is
one step is justified by the write lock: between two writers of the map there is
nothing that a third thread could see, except closings and fetches, whose
interleavings inside a write section `TwitterServer` explores.

| Code | Model |
|---|---|
| `processPacket` on the primary, then `sendToBackups` without a lock | `Login`, `Follow`, `Tweet`, `Close` carry the command out and leave the packet in `packet[t]`; `Forward` hands it to `listBackups[i]`; `EndForward` is the failed loop test |
| `listBackups->push_back` beside a walk of the vector | a backup's thread is in `joining` while it is inside `push_back`; a walk meanwhile may kill the server (`ForwardDies`), two `push_back`s may lose one address or kill it (`Join`, `JoinDies`): the outcomes of the data race |
| `receiveAlive` | `Apply` runs the same `processPacket` with `nullptr` as connection; `ApplyDies` where the code dereferences a null profile or connection |
| the exception in `receiveAlive`, and `main` after it | `Promote`, once everything the primary sent has been read |
| OK, or a command that overtakes it, as first packet | `Reconnect`, `ReconnectDies`; `Fetch`, `FetchDies` |

`early`, `counted` and `raced` are history variables: the backups that joined an
empty map, the clients whose login each server counted, and what was touched by
a command carried out while another one on the same profile (or on the address
list) was still being forwarded. Clients that vanish are left to
`TwitterServer`, and so are those whose PROFILE was lost with the primary: they
would come back with an OK that no server can attribute, which kills it as in
`ReconnectDies`. A server may be killed at any time.

### Client

A `Connection` object is a record of its descriptor and its flag `closed`; `con`
is an index into the objects ever made, since old ones are never destroyed and
`toServer` may still hold one. `file` says what each descriptor is: free, a
socket that is not connected, or a connection to a server. `socket()` takes the
lowest free number, which is how a descriptor that `fromServer` closed comes to
name something else under a send of `toServer`; a refused `connect` throws and
leaves its descriptor open.

`Check` reads `con`, tests it and keeps it, in one step: a thread that reads
`con` again later behaves like one that makes its test later. `Ask` is the
router's answer, the comparison and `con->close()`. The `catch` around
`sendPacket` in `toServer` is dead code, because `sendPacket` never throws. The
loop test of `fromServer` never fails while the process lives: the other places
that close `con` (end of input, Ctrl-C) end the process at once, and they are
one step each. A rejected line has no step of its own: `continue` without
`getline` examines it for ever, until `con` is seen closed.

Servers 1, 2, ... are runs of the server program in the order in which they
become primary, each under one of `Addresses`: a backup under an address of its
own, or the dead primary started again under the old one. A run is named to the
router, which is no atomic step if the address changes (`Name`, `Named`), and
then listens; it may be killed at any time. `Answers` is what GET_PRIMARY may
copy meanwhile: the old address, the new one, or bytes of both, which either have
no port (`NoPort`, as the empty string before the first primary) or are an
address where nobody listens (`Nowhere`). The comparison in `Ask` is of addresses
and not of runs, as at `client/main.cpp:52`. One primary follows the other here;
several at a time are the subject of `Failover`.

Of a server's work only what the client can notice is here. `Process` takes the
first packet for a presentation and hands later ones to `processPacket`
(`carried`; what becomes of them is in `TwitterServer`). A PROFILE, first packet
or later one, may be refused (`Refuse`): the server sends CLOSE_CONN, closes its
end and ends the thread. `Leave` is the end of the loop after CLOSE_CONN. Closing
the server's end, by either or by the death of the process, loses what is on its
way (`CloseServerEnd`); the next packet the client sends is answered by a reset,
as is what had arrived unread, and after a reset `send` raises SIGPIPE. The
client reads the CLOSE_CONN of a refusal and exits.

### PacketCodec

`toBytes` and `fromBytes` byte by byte, with words of two bytes instead of eight
and a frame of 12 bytes instead of 4096; strings end at their first NUL.
`ReceivePacket` lets `recv` return any number of bytes that have arrived, up to
a frame, into a cleared buffer. Where the lengths in the buffer lead past its
end the behaviour is undefined and the model stops (`overrun`). Three history
variables say how `recv` has cut the stream so far: into whole frames (`whole`),
only at frame ends or in padding (`clean`), and across the border of two frames
(`straddled`).

## 3. Runs

| Run | Instance | Shows |
|---|---|---|
| `controller_safety` | 4 threads (3 symmetric, 1 may end inside its write), 2 calls each | types, exact counters, exclusion, no forgotten sleeper, refinement of `ReadersWriters` |
| `controller_liveness` | 3 threads, 2 calls each, none ends inside | every request is granted |
| `server_safety` | 3 connections, 2 profiles, 2 sessions per profile, 2 commands per client, every client may vanish | sessions, limit, delivery, order, `state.json`, refinement of `Delivery` |
| `server_liveness` | 3 connections, 2 profiles, 3 sessions per profile, 1 command, 1 client may vanish | commands are carried out, inboxes of profiles that come online are emptied |
| `server_refused` (violated) | 3 connections to one profile, 2 sessions | after a refused login no command is carried out |
| `failover` | 3 servers, 3 starts, 1 killed, 1 client of the router | start-up race, takeover, clients find a server |
| `failover_restart` (violated) | 2 servers, 3 starts, 1 killed | the restarted primary and its backup both act as primary |
| `replication` | 3 clients (an author, two programs of a reader), 1 backup, 1 session per profile, 2, 3 and 1 packets | a backup that has caught up, what kills a backup, sessions after a takeover |
| `replication_two_backups` | 1 client, 2 backups, 1 packet, fairness | overlapping registrations, catching up, takeover |
| `replication_reconnect` (violated) | as `replication` | after OK the new primary may dereference a null session |
| `client` | 3 runs of servers under 2 addresses, each of which may die or refuse the login, 3 descriptors, 2 lines | order and loss of commands, end of `toServer`, where the program comes to rest |
| `packet_codec` | 3 packets out of 4 kinds (no string, one, both, a full frame), 5 calls of `recv` | round trip, what cuts in padding do, reads past the buffer |

Bounds. Four threads are enough to have a reader inside, a writer asleep and
both a reader and a writer arriving, with a fourth thread that never returns;
the theorems cover any number. Three connections allow a follower that logged
out, an author, and a second login of the follower, and also three logins to
one profile, one more than `MAX_SESSIONS`. Two commands per client let an
author tweet twice, which the order properties need, and let a client follow
before it tweets. The liveness run lifts `MAX_SESSIONS` to the number of
connections because a refusal stops the server; that case has its own run.
Three servers allow two backups of one primary; three starts allow instead two
servers and a restart. One kill is the failure assumed by `RouterFindsService`:
after a second one the server that the router names may be dead while another
one serves.

In `replication` the packets are what it takes for a reader to log in, follow and
leave, for an author to log in and tweet, and for the reader's second program to
log in and take the mail; one session per profile makes a login meet the limit
with two programs. `types` says which commands each user types: the author only
sends, one program of the reader follows and leaves, the other only logs in;
this keeps the run within two minutes. With more (all users type everything, five
packets in all; three packets of the author, so two tweets) the same properties
held. Two backups multiply the interleavings
of the registrations, so that run has one client and one packet. `client` needs
three runs for a server that is named to the router and dies before it listens,
two addresses for a restart under the old one and a takeover under another, two
lines for one before or during a failover and one after it, and descriptors that
can run out. In `packet_codec` two frames and a cut already
show every relative position of a read and a frame; the third packet shows what
follows.

`CHECK_DEADLOCK FALSE` is set in every run: clients leave, calls are used up,
servers wait for requests, and the system rightly stops.

Fairness. A thread of the lock that can take `m`, or that is inside and can
leave, does so; nobody has to call. A thread of the server that can take its
next step takes it, clients owe nothing. A running server process and the
router's threads go on; nobody has to start, kill or ask. In `Replication` the
threads of a serving process and the backups go on; in `Client` both threads
go on and a listening server reads what it was sent; nobody has to type, to die,
to take over or to start again. `Settles` instead assumes what it is about, that
from some point on a primary is there to stay (`<>[]Serving`). Weak fairness is
enough everywhere because calls, commands and starts are bounded: the lock
itself hands out no turns, and with unbounded overlapping readers a writer
could starve.

### What the violated runs show

* `server_refused`: `ProfilesManager.cpp:148` calls `pthread_exit` between
  `requestWrite` and `releaseWrite`. After the third login to one profile
  `num_writers` is 1 for ever, and every PROFILE, FOLLOW and SEND of every
  client waits.
* `failover_restart`: the router's answer is taken for the role
  (`server/main.cpp:357-366`). The primary s1 is killed and restarted, the
  router still names s1, its backup s2 promotes itself, and s1, told its own
  address, becomes primary too.
* `replication_reconnect`: a reader's login reaches the backup, which keeps a
  null session for it. The primary is killed; the reader comes back with OK,
  which appends its connection beside the null (`Profile.cpp:60`), and leaves;
  a tweet is kept in its inbox; its next login makes `fetchInboxContent` send on
  the null session (`Profile.cpp:92`), and the new primary is gone.

### What the passing properties leave out, and why

Several properties name exceptions, each of which is something the code does:

* `OnlyRacesDiffer` excepts profiles touched by commands that raced between
  their execution and their forwarding (`server/main.cpp:172`), and allows a
  backup to keep mail that the primary has delivered.
* `EarlyBackupSurvives` excepts CLOSE_CONN without a sender, which the client
  sends at the end of its input (`client/main.cpp:137`): it kills every backup.
  It also excepts a login that overtook the closing that made room for it, and
  speaks only of backups that joined an empty map, since a backup is sent no
  state when it joins.
* `ListsAgree` excepts registrations that overlap: nothing orders the lists, and
  the vectors are shared without a lock.
* `OnlineIsCounted` excepts servers that have not counted every connected client
  of a profile; there `sessions_on` can become negative.
* `SettledIsCarriedOut` excepts the commands of a client whose PROFILE is refused:
  the server closes the connection (`ProfilesManager.cpp:144-145`), and what was
  sent behind the PROFILE is lost, without a failover.
* `Settles` excepts two ways in which the client spins for ever beside a living
  primary. An answer of the router without a port, before there was a primary
  or torn, makes `stoi` throw in a retry loop that never asks again
  (`client/main.cpp:66`). And a primary that was started again under its old
  address is taken for the one that `con` leads to (`client/main.cpp:52`):
  `fromServer` reads the end of the old connection again and again (`Stranded`).
  It counts as rest that the program ends: after a refused login, by SIGPIPE, or
  because refused attempts, also at an address where nobody listens, have used up
  its descriptors.
* `CleanCutsInventNothing` claims nothing of lost packets and of reads past the
  buffer once a `recv` has gone on from the padding of one frame into the next
  (`straddled`): the next packet is not seen, and its middle may be read as
  lengths that lead out of the buffer (`Packet.cpp:91-93`). The run reaches this
  with a `recv` of 11 bytes followed by one of 12.
* `SenderEndsInGap` says when `toServer` gives up for good; the program then
  still prints what arrives and takes no more input.

## 4. Proofs

`ProfileAccessController_proofs` proves, for every finite set of threads, every
set of threads that may end inside a write and every number of calls:

* `TypeCorrect`, `CountersAlwaysExact`, `Exclusion`, `NoLostWakeup`: the four
  invariants of `controller_safety`;
* `Refinement`: `Spec => ReadersWriters!Spec` under the mapping from the
  locations of the threads to the sets of readers and writers.

The inductive invariant `IInv` is the conjunction of the four invariants. None
is inductive alone: that a release leaves a counter a natural number needs exact
counters; that a thread enters alone needs them too, since the code tests
counters and not threads; and that no reader sleeps while the last reader
leaves needs exclusion. The proof describes first how each action changes the
two sections (`OutsideSteps`, `EnterReadStep`, ..., `LeaveWriteStep`); the
refinement uses the same lemmas.

The assumptions are those of the module: the set of threads is finite, the
threads that may end inside a write are among them, the bound is a number.

`Client_proofs` proves, for any number of servers that follow each other as
primary, any addresses, any number of descriptors and any number of lines:

* `ClientTypes`: the types; `con`, `taken` and the descriptors they lead to exist
  wherever a thread uses them;
* `GivesUpInGap`: `SenderEndsInGap`;
* `CarriedOutInOrder`: `CommandsInOrder`;
* `SettledAlwaysCarriedOut`: `SettledIsCarriedOut`.

The first two follow from `LocalInv`: the types are not inductive alone, since
`con` leads to whoever listened at an address (`ConOK` says that it is a server),
`Put` uses the connection it took, and `settled` records the server behind `con`;
`ClosedInGap` says that `con` is closed only while `fromServer` is about to
replace it. One lemma per action shows that it is kept. That `socket()` finds
the lowest free descriptor rests on the well-foundedness of the naturals.

The order of the commands is about packets on their way to several servers, so
`OrderInv` first says that there is only one such server: every run is the
primary once (`OnePrimary`), a connection leads to a server that listens or is
dead (`FileOK`), and packets wait only at one that listens (`WireOK`). Then the
commands on their way are in order (`WireInOrder`), later than what has been
carried out and not later than the last line that was put on the wire
(`WireAfterCarried`, `CarriedOK`). Every step either sends (`DeliverOrder`),
leaves the wire alone (`QuietOrder`) or is a server's.

What is sent outside a failover reaches the server of `con` although `toServer`
may still use an older `Connection`, for a reason that is nowhere in the code:
the descriptor that `updateConn` closes is the lowest free number, because the
ones that refused attempts leak are never closed, so the next `socket()` is given
it again. `DescriptorsOK` says so: the descriptor of an older connection either
is that of `con` or is a socket on which `send` raises SIGPIPE. `Presented` says
that the server of `con` has had a first packet or is about to, hence that the
command is not it, and `SettledOK` follows each settled command through the
queue: while the server's end is open the command waits there or was carried out.
The server closes its end for three reasons. Death and a refusal are the
exceptions that the property names; CLOSE_CONN is not, and there the command
cannot be behind it, since CLOSE_CONN is the last thing the program sends
(`NothingBehindClose`). `OrderInv` and these were checked with TLC on the instance of the
run `client` before they were proved. The assumptions are that there is a server
and a descriptor.

`TwitterServer_proofs` proves the eight
invariants of `server_safety` and its refinement for any finite set of connections, any set of
profiles, any limit on sessions and any number of commands and lost clients:

* `TypeCorrect`, `SessionsAlwaysAgree`, `MaxSessionsHolds`,
  `StateFileStaysCurrent`, `MailIsFetched` from `IInv`;
* `SentAtMostOnce`, `NothingParkedIsLost`, `OnlyInboxIsOvertaken` from
  `IInv /\ DInv`;
* `ServerDelivers`, that the server implements `Delivery`, from
  `IInv /\ DInv /\ FanReached`.

`IInv` needs, beside the properties themselves, which thread is inside the write
section and where (`WriterInside`), that a thread past its first packet belongs
to a profile of the map (`Identified`), that followers are distinct and in the
map (`FollowersOK`), that a session vector holds each of its threads once
(`SessionsExact`; `RemoveFirst` would otherwise remove one of two), and
`RoomLeft`: the room that `createProfileIfNotExists` found is still there when
`incSessionsOn` takes it, although other threads close sessions in between,
because only a writer adds one. `DInv` relates three places a tweet can be in:
`Apart` says that no session has been sent what still waits in its inbox,
`FanFresh` that the tweet being fanned out has reached only followers before
`i`, `ParkedOlder` and `Overtaken` that what passed through an inbox was parked
before anything younger was sent directly. Every step is one of a few kinds for
delivery (nothing is sent, one packet is sent, the inbox is fetched, a tweet is
parked), and each kind has one lemma.

The refinement has one lemma for each step that `Delivery` sees (`PresentStep`,
`EnterStep`, `LeaveStep`, `FollowStep`, `PostStep`, `TellStep`, `KeepStep`,
`ArriveStep`, `CollectStep`) and one for those it does not (`HiddenSteps`). That
a follower is told or has the tweet kept at most once is `FanFresh`. That nobody
is left out when the loop ends is `FanReached`: the followers before `i` have
been reached, and whom a tweet has reached stays reached, since an inbox that is
emptied goes to the sessions of its owner (`ReachedStays`). That the direct way
is taken exactly when there is a session rests on the agreement of `sessions_on`
with the threads, and `Enter`'s limit on `RoomLeft`.

The assumptions are that `nullptr` is neither a name nor a profile object
(`nullptrAssumption`), that connections are finite, and that the limit is
positive.

`Failover_proofs` proves, for any finite set of servers, any clients of the
router and any number of starts and kills, the three invariants of the run
`failover`: `TypeCorrect`, `OnePrimary` and `BackupsAgree`. The invariant is
`Types /\ (crashes = 0 => Calm)`. `Calm` follows one question from the server to
its role: until a server is killed nobody promotes itself (`NoPromotion`), every
start has a connection of its own (`Numbered`), a question that is set belongs
to a server that waits for its answer (`Asking`), it is handled under the mutex
(`UnderMutex`), hence the string is assigned once, although its assignment is no
atomic step (`AssignedOnce`), and answers and roles name that address
(`AnswersNamePrimary`, `Roles`). The kill is a step from `Calm` to a state where
nothing but the types is claimed; `failover_restart` shows why. `NoneAssumption`
says that "no message" is not a message.

`PacketCodec_proofs` proves, for any base, any length of the buffer and any set
of packets that fit into it:

* `RoundTrip`: `fromBytes(toBytes(p)) = p`, and `fromBytes` stays in its buffer;
* `TypeCorrect`, `WholeFramesAreExact` and `CleanCutsNeverInvent` (which states
  `CleanCutsInventNothing`), the three invariants of `packet_codec`;
* `OverrunsOnlyInsideFrames`: its action property.

`FrameLayout` says which byte of a frame holds what; `StreamOK` says of every
byte under way which frame and which place in it it comes from, by the quotient
and the remainder of its number; `FrameByFrame` counts the frames while every
`recv` returns one. `CutFits` is why a frame cut short is harmless: a length of
which a byte is missing only gets smaller, since the buffer was cleared. The
`CleanInv` is the inductive invariant of `CleanCutsInventNothing`: as long as every
`recv` that started a frame has covered its content, the reader stands where a
frame ends or in its padding (`AtPadding`), and every command received has an
origin, a frame already begun, the origins in the order of the commands
(`Comes`). A `recv` that starts a frame and covers its content decodes it exactly
(`RoundTrip`); one that starts in padding yields command 0. What was received is
therefore a selection of what was sent, and the property says so with a set of
positions and an increasing function, not with a recursive selection. As long as
no `recv` has gone on into the next frame, each frame that was begun was begun at
its start, so nothing is missing and nothing leaves the buffer. The
scaled sizes of the run are one instance of the theorem; 4096 bytes and two-byte
words of base 256 another. Words of eight bytes would change the layout's
offsets and not the argument. The assumption is that packets fit
(`PacketsAssumption`), with the exception named in section 5.

`Replication_proofs` proves, for any finite sets of clients and backups, any
profiles, any limit on sessions and any number of packets:

* `TypeCorrect`: the types;
* `ListsAlwaysAgree`: `ListsAgree`, the agreement of the lists of addresses;
* `OnlineAlwaysCounted`: `OnlineIsCounted`, that `sessions_on` covers the clients
  that are online, on a promoted backup too.

`Types` adds to `TypeOK` what makes every step well-typed. A command is carried
out on the profile its client names, so whoever is logged in has a profile in the
map of the server it is connected to (`LoggedIn`), and so has every follower
(`FollowersKnown`: a fan-out inserts into the profiles of followers). What a
backup applies was sent by a client or is a list (`PacketsOK`), a thread has a
packet exactly while it is inside `sendToBackups`, and clients are connected to
the primary as long as it serves (`Places`). `Process` shows once, for every
packet, that `processPacket` keeps a map whose followers are in it; the primary's
commands and `Apply` both rest on it. `ListsOK` says where the newest list is as
long as no two registrations have overlapped: at most one thread forwards a list,
it is the primary's list, and every living backup in `listBackups` either has an
index that the thread has still to reach, or will have that list when it has read
its queue (`LastList`: the last list in the queue, or its own if there is none).
`Registered` says that a listed backup has a thread on the primary; it is what
keeps a server that is just starting out of the argument. A registration that
overlaps another puts `nullptr` into `raced`, which ends the claim: the run
`replication_two_backups` reaches such states. `nullptrAssumption` says that no
object and no packet is `nullptr`.

`CountInv` is the inductive invariant of `OnlineAlwaysCounted`. The claim about a
server that serves is not inductive: when a backup is promoted its counts must
already be right, and what it still has to read may take sessions away.
`CountsOK` therefore speaks of backups as well, and of clients that have left the
primary while their CLOSE_CONN is still on its way to the backup: those are
counted there until it is read (`Active`). That a CLOSE_CONN takes away only a
session that was counted rests on the order of the packets: a client's
CLOSE_CONN is sent to a backup once (`ClosesOnce`), and a backup that joined
before the first login is sent each login, ahead of the CLOSE_CONN of the same
client (`LoginsFirst`). Both need that a backup is in the primary's vector once
and was sent nothing before it was (`Vectors`). `CountedKnown` says that a
counted client has a profile in the map. Sizes of sets of clients are compared
by lemmas (`Fewer`, `OneMore`, `OneLess`) that rest on the library's facts about
finite sets.

`ReplicationCopies_proofs` proves, under the same assumptions:

* `DifferencesAreRaces`: `OnlyRacesDiffer`, that a backup which has caught up
  differs from the primary only in profiles that two commands raced for;
* `EarlyBackupsLive`: `EarlyBackupSurvives`, that a backup which joined before
  the first login dereferences a `nullptr` only for a CLOSE_CONN that names
  nobody, or for a login that raced with the close which made room for it.

What a backup will have when it has read its queue would be a fold over the
queue, and its properties an induction over data. The invariant `CopyInv` names
the same map without one: it says that there is a sequence of maps that begins
with the backup's own, in which each follows from the one before by the next
packet of the queue and no packet but the two exceptions dereferences a
`nullptr` (`Replays`). Reading a packet drops the first map of the sequence,
sending one appends the map it leads to. The last map, the copy, knows the
clients whose PROFILE this backup has been sent, with as many sessions
(`NamesArrived`, `SessionsArrived`); and a profile of it that was not raced for
is the primary's, or becomes it by the packet of the one thread that touches the
profile and has not come to this backup yet (`ProfileArrived`). There is at most
one such thread, since of two packets under way that touch one profile every
profile they touch is in `raced` (`RacedOK`). `PrimaryOK` counts the sessions on
the primary, and `FollowsOK` says that a FOLLOW that is being forwarded has been
carried out.

Every safety invariant and every action property that the passing runs check is
thereby stated by a theorem. Only model-checked: liveness under fairness
(`server_liveness`, `controller_liveness`, `RouterFindsService`, `Settles` and
the like), which the prover cannot express. The invariants named `IInv`, `DInv`,
`OrderInv`, `CountInv` and `CleanInv` were checked with TLC on the instance of
the run before they were proved. `CopyInv` quantifies over sequences of maps,
which TLC cannot enumerate; what it implies is checked.

## 5. Not modelled

* **Ring election:** dead code.
* **`fromJsonFile`, `sendCloseConnToAll`, `insertProfile` and `hasProfile` of
  the controller:** no caller. A restarted server starts from an empty map.
* **Listening socket, `sendAlive`, Makefiles:** no state of their own.
* **Flow control:** `send` always returns. A client that does not read can
  block the fan-out, and with it the map, once its socket buffer is full.
* **Packets longer than their buffer:** `toBytes` does not test the length
  (FOLLOW takes a line of any length); what happens then is undefined, and
  `PacketCodec` assumes that packets fit.
* **A last line without a newline:** `getline` reads it and sets `eof`, so the
  loop ends without sending it; for the model the input has ended before it.
* **Two failures at once in `Replication`:** a promoted server has no backups of
  its own there, since servers that start later register with it as they did
  with the first one.
* **`json.hpp`:** a vendored library of 26640 lines, 94% of the lines under
  `src/`. It is used to write `state.json` (`Snapshot` in `TwitterServer`) and is
  not modelled, which is why the share of source lines the models cover is low.

## 6. Plan

Done: all modules of the plan, and proofs of every safety invariant and action
property that the passing runs check. Left:

1. An abstract specification of a backup, a map that lags behind the primary's,
   and the histories without races under which `Replication` implements it.
   `CopyInv` holds what its refinement mapping would need.
2. Liveness stays with TLC: its instances could grow to two posters on two
   profiles at once, at the price of longer runs.
