# A formal model of RSPLIB

RSPLIB is an implementation of Reliable Server Pooling (RSerPool). Servers
register as *pool elements* (PEs) at a *registrar* (PR), clients are *pool users*
(PUs) that ask a registrar for PEs of a pool. The registrars of an operation scope
replicate the *handlespace*, the set of all pools and their PEs. PEs and PUs talk
ASAP with a registrar, the registrars talk ENRP with each other.

This directory holds TLA+ modules of the registrar, of the library that PEs and PUs
are linked with and of the server framework on top of it, TLC models of them, and
proofs of their invariants that TLAPS checks. All definitions are translated from
the C and C++ sources in `src/src`; `PROJECT.json` maps each of them to its lines.

## The system and its parts

| Part | State | Operations | Hard behaviour |
|---|---|---|---|
| Registrar, ENRP (`rspregistrar-enrp.c`) | peer list with timers and synchronization status, startup phase, mentor | announce timer, peer timers, Presence, peer list and handle table requests and responses, handle updates | messages that cross, synchronization in chunks during changes, lost associations, lost multicasts |
| Registrar, takeover (`rspregistrar-takeover.c`, `takeoverprocess.c`) | takeover process in a peer list entry, agreed taker | initiate, negotiate, acknowledge, finish, expire | concurrent takeovers, signs of life during a takeover, failures during a takeover |
| Registrar, ASAP (`rspregistrar-asap.c`) | PE entries with timers, connection, reports | registration, deregistration, keep-alive, unreachability reports, lost connections, handle resolution | late answers, a PE at two registrars, several PEs on a connection |
| Registrar core (`rspregistrar-core.c`, `-global.c`) | sockets, dispatcher | dispatching, start, stop | restart before the others notice |
| Peer list (`peerlist*`) | static and dynamic entries, indexes | registration, update, removal, timers | entries without an identifier, static entries |
| Handlespace (`poolhandlespace*`, `poolelementnode*`) | PEs, storages, counters, checksums | registration, update, ownership, connection, mark and purge, extraction | incremental checksums, consistency of the storages |
| Pools and policies (`poolnode*`, `poolpolicy*`) | sequence numbers, counters, values | selection, update | wrap of sequence numbers, fairness of selections |
| Pool users (`pooluserlist*`, `timestamphashtable.c`, `rspregistrar-security.c`) | time stamps of requests | rate check | full table |
| Storages (`redblacktree_impl.h`) | tree, ring list, sums of values | insertion, removal, search, draw | repair with a shared null node |
| Messages (`rserpoolmessage*.c`) | | construction and scan of all messages | padding, unknown parameters, tables that do not fit |
| Registrar table (`registrartable.c`) | known registrars, connects under way | registrar hunt | timeouts against late connects |
| ASAP instance (`asapinstance.c`) | request queue, registrar connection, cache | request, response, timeout, retry, reconnect | several threads, responses without request identifiers |
| Sessions (`rspenhancedmode.c`, `session*.c`, `notificationqueue.c`, `identifierbitmap.c`) | sessions, cookies, notifications | connect, send, receive, poll, failover, close | failures during a failover, notifications out of turn |
| Pool element of a socket (`rserpoolsocket.c`) | timer, registration | register, deregister, register again | the timer's callback against the application's call |
| Dispatcher (`dispatcher.c`, `timer.c`, `fdcallback.c`) | timers, callbacks | event loop | changes during the iteration |
| Server framework (`tcplikeserver.cc`, `thread.cc`) | session threads and their list, loads | accept, load changes, removal, stop | threads that end or report during a removal |

What has to hold of each part, and where the parts meet:

* ENRP: synchronizations end and lose no PE, handlespaces and peer lists converge, a
  new registrar gets all of its mentor's table, every peer is supervised. It works on
  the peer list and the handlespace and triggers takeovers.
* Takeover: at most one registrar takes over a failed one, the others get to know,
  and the process and its timer stay in step.
* ASAP: every PE is supervised, its home by keep-alives, and the reports of pool
  users remove it in time. Each change is sent to the peers by ENRP.
* Peer list and handlespace: a PE is in each storage exactly once and under its
  present key, a peer is known once, and the counters and checksums that are updated
  step by step equal those over all elements. The audit of ENRP relies on them.
* Policies: a selection returns as many distinct PEs as there are to return, round
  robin passes over no PE, weights are kept, and a wrap does not change the order.
* Storages and messages: a tree finds, counts and draws right whatever was inserted and
  removed, and what is sent is what the receiver reads.
* Registrar table and ASAP instance: each request gets exactly one answer or error,
  a late response is not taken for that of another request, and a registrar that can
  be reached is found.
* Sessions: a failover resumes from the last cookie, and the notifications tell the
  application which sessions there are.
* Dispatcher and reregistration: no event goes to a callback it was not meant for, an
  expired timer is handled, a registered PE is registered again.
* Server framework: the announced load is the load up to 1%, finished sessions are
  removed, and the server can be stopped.

The registrar is the core: everything else relies on its handlespace, and it is
the only part in which several processes must agree. It is a single thread that
takes one event at a time from its dispatcher, so a handler of the C code is one
atomic action, and all interleavings are those of messages, timers and failures. The
library and the server framework have several threads: there an action is what a
thread does under one lock, or between two waits.

## Modules

| Module | Models | Content |
|---|---|---|
| `RegistrarState` | `peerlist*`, `poolhandlespace*`, `rserpoolmessage*` | constants, variables, messages, entries and their operations, sending |
| `RegistrarTakeover` | `rspregistrar-takeover.c`, `takeoverprocess.c` | the takeover handlers |
| `RegistrarENRP` | `rspregistrar-enrp.c`, the handle table part of `rserpoolmessagecreator.c` | the ENRP timers and the other ENRP handlers |
| `RegistrarASAP` | `rspregistrar-asap.c` | registration and supervision of PEs |
| `Registrar` | `rspregistrar-core.c`, `rspregistrar-global.c`, the network | initial states, failures, composition, fairness |
| `Ownership` | | abstract specification of the home of PEs |
| `RegistrarProps` | | properties |
| `AsapInstance` | `asapinstance.c`, `interthreadmessageport.c`, `asapinterthreadmessage.c` | threads of the application, queue of requests, main loop |
| `RegistrarTable` | `registrartable.c` | list of registrars, registrar hunt |
| `Dispatcher` | `dispatcher.c`, `timer.c`, `fdcallback.c` | event loop |
| `Reregistration` | `rserpoolsocket.c`, registration in `rspenhancedmode.c` | pool element of a socket and its timer, on top of `Dispatcher` |
| `SessionSocket` | `sessioncontrol.c`, `sessionstorage.c`, `notificationqueue.c`, `identifierbitmap.c`, `messagebuffer.c` | functions on an RSerPool socket |
| `Session` | `rspenhancedmode.c` | the calls of the application, the network |
| `PoolPolicy` | `poolpolicy-template_impl.h`, `poolpolicysettings.c`, `poolnode-template_impl.h` | a pool and its selections |
| `Handlespace` | `poolhandlespace*`, `poolelementnode*`, `peerlist*` | storages, counters and checksums, peer list entries |
| `RedBlackTree` | `redblacktree_impl.h`, `doublelinkedringlist.c` | the tree of all storages |
| `MessageCreator`, `MessageParser` | `rserpoolmessagecreator.c`, `rserpoolmessageparser.c` | construction and scan of a packet |
| `Messages` | `rserpoolmessage.c` | a message on its way |
| `PoolServer` | `tcplikeserver.cc`, `thread.cc` | main thread and session threads of a server |
| `PoolUserRate` | `pooluserlist*`, `poolusernode*`, `timestamphashtable.c`, `rspregistrar-security.c` | permission of requests |
| `MCRegistrar`, `MCLibrary` | | instances for TLC |
| `Lists` | `doublelinkedringlist.c` | removal from a list, for the three modules whose lists lose entries in the middle |
| `RegistrarProofs`, `SyncProofs`, `TakeoverProofs` | | proofs about the registrars |
| `LibraryProofs`, `SessionSocketProofs`, `SessionProofs`, `TableProofs` | | proofs about the library and the tables of requests |
| `AccountingProofs` | | proofs about sums that are kept up to date: handlespace, server framework |

Two modules may describe the same code at two levels: `RegistrarState` has of a
handlespace and a peer list what the registrar's handlers see of them, `Handlespace`
has their storages, and `RedBlackTree` the inside of a storage.

### State

Registrars:

* `peers[r][p]` is the entry registrar r has for p (`struct PeerListNode`), with
  its timer (`TimerCode`), the flags `PLNS_*` (`Status`), the registrar whose
  takeover was acknowledged (`TakeoverRegistrarID`), the takeover process and the
  set of outstanding acknowledgements, and the position of the handle table
  extraction for p, which the code keeps in `UserData`.
* `pes[r][e]` is the entry r has for PE e (`struct PoolElementNode`): home, timer,
  mark, association, number of unreachability reports.
* `startup[r]`, `mentor[r]` are `InStartupPhase` and `MentorServerID`.
* `net[r][d]` is the sequence of ENRP messages under way from r to d. SCTP is
  reliable and ordered while an association lives. Messages to a registrar that is
  down are lost, and an association may fail with all messages on it.
* `mcast` holds the multicast Presences under way; they may be lost. Their
  content is not needed, since a multicast Presence does not start an audit.
* `keepAlive` holds pairs of a registrar and a PE that may still answer a keep-alive.

Library, tables and servers (the comments at the variables of each module give
the names in the code):

* `AsapInstance`: `aitmPort` is the queue of requests, `lastAITM` the last one sent,
  `cursor` the one that the main loop is at, `toRegistrar` and `fromRegistrar` what is
  on the connection. `mainLoop` and `appThread` say where the threads are.
* `RegistrarTable`: `registrarList`, `assocIDList` and `outstanding` are the fields of
  the table, `hunt`, `huntCursor` and `trials` the local variables of a hunt, `assoc`
  the state of each association and `huntSocket` its unread notifications.
* `Dispatcher`: `fdCallback`, `armed` and `due` are the storages, `ufds`, `ready` and
  `now` what the loop has looked up. An FD callback is a descriptor and the number of
  its structure, since descriptors are reused.
* `Reregistration`: `element` is the pool element, `peMutex` the holder of its mutex,
  `app` and `callback` where the two threads are, `fault` a failed `CHECK` or a use of
  freed memory.
* `Session`: `rs` is the `struct RSerPoolSocket`, `incoming` what can be read, `pool` and
  `alive` the PEs that a handle resolution may return and those that work.
* `PoolPolicy`: `poolNode` is the pool with its nodes and the selection storage as a
  sequence. `picks` counts turns for the properties.
* `Handlespace`: `store` is a record of all storages; an entry is the key under
  which the node was linked, so a field that is changed under a linked node shows.
* `RedBlackTree`: `tree` maps nodes to their fields, the null node included; `ring` is the
  ring list.
* `PoolServer`: `threadList`, `threads` and `loadSum` are the list, `session` the threads,
  `server` the place of the main thread, `notified` the pipe.

### Abstractions

Registrars:

* All PEs are in one pool. The code keeps no state of a pool that a handler
  modelled here depends on, except the policy check at registration.
* The ownership checksum in a Presence is the set of PEs it is computed over.
  A collision of checksums is thereby excluded.
* Timers have no durations: an armed timer may expire at any time. False
  suspicions are therefore included, within the bounds of a run.
* The size of a message may cut a handle table response at any PE after the
  first one (`SendHandleTable`).
* Peer list entries are dynamic. What PEs and PUs send is an input.
* `TakeoverServer` is sent with association 0 and without addresses. Only an SCTP
  API with `MSG_SEND_TO_ALL` delivers it; the constant of that name selects this.
* The peers that `peerListManagementGetUsefulPeerForPE` prefers are a constant
  operator. The instances use the exclusive or of the identifiers, as the code does.

Library, tables and servers:

* A critical section is one action, and so is what a thread does between two waits.
  Where a lock is held over several actions, its holder is in the state (the port in
  `AsapInstance`, `peMutex`, the list of `PoolServer`).
* The registrar on the other side of `AsapInstance` answers in order or not at all, and
  the connection may fail at any time. What a hunt comes to is a choice there;
  `RegistrarTable` has the hunt itself.
* The cache of handle resolutions is whether the PE looked for is in it; out of date
  entries may go at any call.
* Time stamps in `Dispatcher` are their order. A timeout may pass at any time.
* A socket has one thread of the application. Cookies are numbers, the payload of a
  message is left out. The network loses associations, not messages.
* Sequence and round counters have `SeqModulus` values, a checksum has `ChecksumRange`
  values and its accumulator the square of it, lengths wrap at `LengthModulus`. Loads
  saturate at `MaxLoad`. The values in the instances are small, so that
  every wrap and limit is met.
* A packet is a sequence of parameters with type, size and what is inside. A scan
  whose position is between two parameters reads something undefined (`skew`).
* A session of `PoolServer` may set any load and end with any result. A load is announced
  if it differs by 1% of the full load or more from the one announced last (`Near`). The
  hook that changes a load before it is announced is the identity.

### Bounds

For the registrars, `Bound` is a set of mixes. A behaviour has one of them, which limits
how often each kind of event of the environment happens (failures, starts, losses,
registrations, timer expiries of peers that are alive, ...). The kinds in `Recurring` are not counted; to keep the queues
finite, the announce timer always waits while a queue of its registrar holds
`MaxQueue` messages. Expiries for a peer that has failed, for a PE without home, and
of a takeover are never limited. The proofs hold for all values of these bounds.

In the other modules, the constants that are marked as bounds (`CallLimit`, `FaultLimit`,
`MaxInterrupts`, `MaxCallback`, `MaxForeign`, `MaxRegister`, `MaxNetwork`, `MaxCookie`,
`MaxIncoming`, `MaxChanges`, `MaxElements`, `MaxLoadChanges`, `MaxTime`, `MaxRequests`)
limit what the application and the network do. `MaxOutstanding` is no limit of events:
the code never uses a number of outstanding connects other than by comparing it with 0.

## Properties and runs

The first six runs use `MCRegistrar`. N is the number of registrars, M of PEs.

| Run | Instance | Shows |
|---|---|---|
| `crash` | N=4, M=1, two failures | `OneOwner`: of concurrent takeovers at most one succeeds; `ImplementsOwnership`: a PE changes its home only after that one has failed |
| `bookkeeping` | N=3, M=2, suggestions on; seven mixes: any three of a failure, a false suspicion, a probe and a lost association; a registration with a keep-alive, a timeout and a report; two registrations and a lost connection; two reports and a timeout | `PeersSupervised`, `PEsSupervised`: the entries of peers and PEs, the takeover processes and the timers stay in step; `TypeOK` |
| `send_to_all` | N=3, M=2, one failure, one lost association, `MSG_SEND_TO_ALL` | `TakeoverKnown`: the new home is known once all messages are handled, if none was lost; `DeadForgotten` with and without the loss |
| `sync` | N=2, M=2, two registrations, a deregistration, a timeout, recurring announcements | `SyncUnderWay`, `SyncComplete`, `SyncTerminates`, `HandlespacesConverge` |
| `restart` | N=2, M=3, a registrar fails and starts again, multicast, chunks of two PEs, recurring announcements | `MentorComplete`, `PeerListsConverge`, also when the other one has not noticed the failure |
| `recover` | N=3, M=1, one failure, recurring announcements | `NoOrphans` |
| `library` | all other modules, see below | see below |

The run `library` uses `MCLibrary`, which has small instances of all other modules side by
side. The initial state chooses a part, and only that part takes steps. The states of
the parts add up and do not multiply, so one run checks all of them.

| Part | Instance | Shows |
|---|---|---|
| `asap` | two threads, two calls, one fault | `OwnResponse`, `ResponseSupervised`; `CallsReturn`: no call waits for ever |
| `table` | two registrars, one of them configured and reachable; blocks of two | `AssociationsKept`: none is forgotten; `ReachableRegistrarFound` |
| `dispatcher` | a descriptor, two timers, two callback structures, two changes by other threads | `EventOfPolledCallback`; `DueTimerHandled`: the callbacks of one timer may put off the other one, but not for ever |
| `reregistration` | three calls | `ReregistrationKept` |
| `session` | client with two PEs, server with three associations and two identifiers, accepted socket | `SessionIdentifiers`, `NotificationsTellAll`, `FailureMarked`, `CookieFirst`; `SessionResumes` |
| `policy` | five policies, two PEs, weights 0 and 2, eight sequence numbers, increments by default and by two | `SelectionSorted`, `TurnsTaken`, `ResolutionComplete` |
| `handlespace` | two PEs, two peers, one address, checksums of two bits | `HandlespaceVerify`, `PeerListVerify` |
| `tree` | five keys, two values | `RedBlackTreeVerify`, `SearchesExact`, in every tree of these keys |
| `messages` | every type of message with each optional parameter, an unknown parameter at any place or none, tables up to three responses | `MessagesArrive` |
| `server` | two session threads, a load change of less or more than 1% | `LoadAccounted`, `LoadChangesTold`; `FinishedSessionRemoved`, `ServerStops` |
| `rate` | one pool user, two buckets of two entries | `RateEnforced` |

The instances are as large as the interesting cases need. Two takeovers of one
target compete as soon as there are two survivors; with N=4 there is a third one
whose acknowledgement both want, and the second failure can hit a taker. A table in
several chunks needs two PEs, and one with several owners needs two registrars
besides the one that starts. The code compares identifiers, so no symmetry is used.

In the library, responses can be confused as soon as two requests are queued, and a batch
with a failing send needs two. A hunt meets a late connect with one registrar and
an entry that never answers with two. With blocks of two, the list fills a block while
the announced entry is there, so that its end is not noticed, and is shorter than a
block otherwise, so that the next trial begins. A descriptor is reused with two callback
structures and two changes by other threads while `poll()` waits; several descriptors are
left to the theorem `EventOfPolledCallbackAlways`. One timer is put off by another with two
of them. Five keys give trees in which every case of the repair after an insertion and
a removal occurs, on both sides, but no second round of either repair loop. Two
PEs, eight sequence numbers and weights up to two pass every wrap, with selections
unlimited; weighted round robin takes a weight of 0 for 1, and a weighted random choice
never draws it. Two bits per checksum make the accumulator wrap in one or two additions.
The buffers of `messages` are so small that tables are cut at each possible place. With
one load change in all, a change below 1% stays unannounced and a larger one does not;
changes that add up to 1%, and the refusal of sessions beyond the full load, are left to
the theorems `LoadChangesToldAlways` and `LoadAccountedAlways`.

A run in which all events are bounded ends in states without a next step, which is
no deadlock of the registrars; `CHECK_DEADLOCK FALSE` says so there. In the runs
with recurring announcements deadlock is checked.

### Where the code differs from what is said about it

Five runs show behaviours in which a statement of the repository does not hold.

* `two_registrars`: the README says that each other PR is able to seamlessly
  replace one that fails. A takeover ends by the last acknowledgement. If there is
  no third registrar, there is none, and the takeover expires.
* `lost_association`: `PLNS_HTSYNC` says that a synchronization is in progress. If
  its request or response is lost, the flag stays, and the audit is off for this
  peer until the entry is removed.
* `endless_sync`: if the last own PE ends a chunk exactly at
  `MaxElementsPerHTRequest`, the extraction goes on with PEs of other owners, from
  which it starts again for each request. This needs chunks limited by this
  number and not by the size of a message.
* `resumed_extraction`: the position of an extraction is not reset when the
  requester starts over. The next table then lacks its first part, whose PEs are
  purged.

* `reregistration`: `deletePoolElement` deletes the timer first, "this ensures that the
  doRegistration() function will not be called while the PE is going to be deleted".
  The dispatcher takes an expired timer out of its storage and unlocks before it calls
  the callback, so there is nothing left to delete: the callback registers the PE
  again. From there the model reaches three ends: the callback starts the timer, which
  has no dispatcher any more or was started twice, and a `CHECK` ends the program; the
  application holds `PoolElement.Mutex` and waits for the main loop, which waits for
  the mutex; or the callback uses the freed pool element.

In addition, `OneOwner` depends on one assumption of the run `crash`: no Presence
of the failed registrar is handled after a takeover of it has been acknowledged.
Such a late Presence resets `TakeoverRegistrarID`, and a second takeover by the
registrar that has acknowledged the first one may succeed as well, for instance
with N=3 and one probe or announcement. Nothing in the repository says that this
cannot happen, so it is stated here and listed as a hazard, not as a run.

### What the other modules show besides

These are behaviours of the code about which the repository says nothing. The models have
them, and the properties are stated so that they hold with them; where a
property has an exception for one, its comment names it.

* ASAP instance: if a send of a batch fails after an earlier one has started the response
  timer, the timer goes on with `LastAITM` NULL, and its expiry ends the program with
  `CHECK` (`mainLoop` is `"abort"`).
* Event loop: every change of timers or descriptors ends the pass over the expired timers.
  FD callbacks come first; if they make a change in every pass, no timer is ever called. A
  timer that another thread starts does not wake up `poll()`.
* Registrar hunt: `tryNextBlock` does not notice the end of the list if the number of
  entries is a multiple of `MAX_SIMULTANEOUS_REQUESTS`. Data on the hunt socket is
  peeked at only; if its association is broken, the data stays, and the hunt finds it
  again in every round (`Blocked`) and reads nothing behind it.
* Sessions: `rsp_recvmsg` looks at `errno` after a partial read, which does not set it,
  and may take a working association for failed (`pieces`). A failover does not reset
  the buffer of a message partly read. If the cookie cannot be sent after the connect,
  the PE is reported as failed, but the socket stays open and the session is not marked:
  the next `rsp_sendmsg()` sends data to a PE that has no state of the session.
* Policies: the sequence numbers start 16 below their end. The registration of a PE may
  move a round counter of weighted round robin over its wrap; that PE is then
  selected before all others until its counter has caught up (`disturbed`). A PE whose
  value in the tree is 0 is never drawn: a weight of 0, which registrations may have, or
  one that the distance penalty has used up (`Eligible`).
* Messages: the settings of `PriorityLeastUsedDPF` and `PriorityLeastUsedDegradationDPF` can
  neither be written nor read. A cookie whose size is no multiple of four is
  followed by an error, since its padding is not skipped, and neither is
  the padding of an unknown parameter. A business card never arrives, since its pool
  handle is written once and scanned twice; no program sends one. An unknown parameter at
  the end of a message is an error although its type says that it may be skipped,
  unless the scan looks for another parameter there; one in a handle table response always
  is. The data of an error's cause is read four octets too early; nobody looks at it.
* Request rates: the nodes of pool users are kept until the registrar ends.
* Server: `poolElement` looks at the load first and reads the pipe then. A change whose
  notification is written between the two is announced with the next event only
  (`missed`).

### Fairness

Registrars. The dispatcher polls all sockets and timers in every round, so a message that has
arrived is handled (`WF` of `HandleMessage`), the announce timer, which its own
handler restarts, expires again and again, and the timers of a peer that has failed
expire, since only messages of that peer restart them. The timer of a PE expires if
no registrar is its home, since nobody updates it any more. Registrations, false
suspicions, failures and losses are not fair. A multicast that is sent again and
again is received now and then (`SF` of `HandleMulticastPresence`); without
this a new registrar may never be found.

For PEs this is less than the code guarantees. A survivor that still believes in a
failed home of a PE somebody else has taken over will see its own entry expire, but
here this expiry is neither fair nor unlimited. `NoOrphans` in `recover` therefore
shows that the audit alone corrects such an entry. If the association fails with the
request of that audit, it does not: `PLNS_HTSYNC` stays set (see `lost_association`),
and TLC finds `NoOrphans` violated when a lost association is added to
`recover`. Then only the expiry, or the next registration of the PE, helps.

Library and servers. The operating system runs every thread that can run: each thread of
the application that has made a call, the main loop, a hunt, the event loop, the threads
of a server, whose waits have timeouts (`WF`). Nothing is assumed of a registrar or of the
application, with these exceptions:

* `HandleRegistrarTimeout` is strongly fair: the main loop handles an expired timer
  whenever its poll has returned, but a poll may wait again in between.
* A hunt and, between hunts, the main loop read the hunt socket (`SF` of
  `ReadHuntSocket`, as a round of the hunt begins in between). A connect succeeds or
  fails in the end, and to a registrar of `ReachablePeer` it succeeds (`WF` of
  `Association`). The random choice among the associations does not avoid that registrar
  for ever (`SF` of `FindsReachable`).
* For `SessionResumes`, the application goes on receiving, calls `rsp_forcefailover()` when
  it has been told to (`SF`, as other calls may come in between), and a PE registers
  when the pool has none.

Two properties have a condition. `DueTimerHandled` asks that `poll()` returns again and
again, and that from some time on no FD callback makes a change; changes by the callbacks
of timers and by other threads are not limited by it. `ReachableRegistrarFound` asks that
registrars are hunted for again and again, and that the hunt does not stay `Blocked`.

## Proofs

Eight modules hold proofs. They hold for all values of the constants that the named
assumptions of the modules allow, so also for any bounds.

| Module | Theorem | Property |
|---|---|---|
| `RegistrarProofs` | `TypeCorrect` | `TypeOK` |
| | `PeersSupervisedCorrect` | `PeersSupervised` |
| | `PEsSupervisedCorrect` | `PEsSupervised` |
| `SyncProofs` | `SyncAlwaysUnderWay` | `SyncUnderWay`, if `Steady` |
| `TakeoverProofs` | `OneOwnerOrderly` | `OneOwner`, if all steps are `Orderly` |
| | `OneOwnerFailures` | `OneOwner`, if `OnlyFailures` |
| | `TakeoverImplementsOwnership` | `ImplementsOwnership`, if `OnlyFailures` |
| `LibraryProofs` | `OwnResponseAlways` | `OwnResponse` |
| | `ResponsesInOrderAlways` | `ResponsesInOrder` |
| | `ResponseSupervisedAlways` | `ResponseSupervised` |
| | `EventOfPolledCallbackAlways` | `EventOfPolledCallback` |
| | `ReregistrationKeptAlways` | `ReregistrationKept` |
| `SessionProofs` | `SessionIdentifiersAlways` | `SessionIdentifiers` |
| | `NotificationsTellAllAlways` | `NotificationsTellAll` |
| | `FailureMarkedAlways` | `FailureMarked` |
| | `CookieFirstAlways` | `CookieFirst` |
| `TableProofs` | `AssociationsAlwaysKept` | `AssociationsKept` |
| | `RateAlwaysEnforced` | `RateEnforced` |
| `AccountingProofs` | `LoadAccountedAlways` | `LoadAccounted` |
| | `LoadChangesToldAlways` | `LoadChangesTold` |
| | `HandlespaceVerifyAlways` | `HandlespaceVerify` |
| | `PeerListVerifyAlways` | `PeerListVerify` |

`SessionSocketProofs` has lemmas only. The largest inductive invariants are theorems of
their own: `Invariance`, `TakeoverInvariance`, `FailuresInvariance`, `ASAPInvariant`,
`SessionInvariant`, `ServerInvariant` and `HandlespaceInvariant`.

### Registrars

The assumptions are those of `RegistrarState`: identifiers are not 0, any set of
PEs has a number of elements, limits are at least 1, and the peer suggested for a PE is
a peer.

The invariants are proved together. A handler copies what a message says into an entry
and then starts a timer, so the types of the messages are needed: an update or a table
that named no registrar as home would leave a timer without a PE. A handler also
changes several fields of an entry at once, and the next one relies on the relation
between them. The inductive invariant `IInv` therefore states
all of them for each single entry: `PeerOK` for an entry of a peer list, `PEOK` for
an entry of a handlespace, and the types of the rest. The proof has three layers:

1. lemmas about entries: what each operation on an entry does to `PeerOK` and
   `PEOK`;
2. lemmas about the network: what a handler sends are messages, so what is received
   is one;
3. one step per handler, and `NextInv`, which combines them.

A step of a handler that is needed only for `NextInv` is a step of its proof, named after
the handler, and not a lemma of the module: the provers see every lemma that precedes an
obligation, and their work grows with it. The other modules do likewise.

### Synchronizations

`SyncUnderWay` is true only as long as no association between registrars that are up is
lost: the run `lost_association` shows that a lost one leaves a note behind. `Steady` excludes
this event and two others, after which registrars that are up do not know each other: a start,
and the suspicion of a peer that is up. Failures, registrations, timeouts, probes,
announcements and everything else happen as the bounds say.

`SyncInv` counts, for each ordered pair of registrars that are up, the HandleTableRequests of
the first one and the HandleTableResponses of the other that are under way (`Talk`). They are
one if the note `HTSYNC` is set and none otherwise (`PairOK`). `SyncUnderWay` asks only for one
half of this, the invariant needs both: a Presence with a wrong checksum sends a request only if
there is no note, and the response that ends a synchronization must have been the last
message of it. The lemmas count messages of a sequence to which one is appended or whose
head is taken; then each handler either leaves the counts and notes alone (`TalkKept`,
`PeersKept`) or moves one message.

### Takeovers

`OneOwner` is not true in general. A registrar that is given up while it runs, or that
starts again with its old identifier, may consider itself the home of a PE that another one has
taken over; that is what the protocol accepts. The proof names what it excludes:

* `Orderly` is a condition on steps. No registrar starts; a peer is given up only if
  it has failed; the last Presence of a failed registrar is handled before its takeover is
  agreed to; a PE registers at its home, or anywhere if nobody knows it. Synchronizations,
  updates, losses of associations, deregistrations, timeouts of PEs and probes of
  them happen at any time.
* `OnlyFailures` is a condition on the constants: failures and losses are the only
  events, in any number. The run `crash` is an instance of it. It implies that all
  steps are `Orderly` (`FailureOrderly` in the proof of `FailuresInvariance`).

Two registrars may contradict each other for a while: one has taken over a PE while the table of
another one still names the failed home, and a table or an update with the old home may
be under way. `OneOwner` is about what each registrar says about itself, but who is going to
take over is decided from what it believes of others. The inductive invariant
`TakeoverInv` has four parts.

* `GroupInv`: the registrars that run know each other, and a failed one has left
  nothing behind.
* `MessageInv` and `ProcessInv`: a takeover is of a failed registrar, and who has
  acknowledged one does not try one itself (`Settled`). So the last acknowledgement
  leaves exactly one that goes on. The end of a tie is here: of two that
  begin at the same time, the one with the higher identifier acknowledges and gives up.
* `HistoryInv`: there is a relation `R`, the history of the takeovers, in which `R[t]` are all
  that have taken over the PEs of `t`, directly or from one another. It is transitive and
  linear on each `R[t]`, any two homes that are believed of one PE are related by
  it (`Explained`), and only failed registrars whose takeover is agreed to have
  successors. The history is not a variable of the model. The invariant says that there
  is one, and a takeover extends it (`WithTakeover`).

Two registrars that run have no successors, so they are not related, hence no PE has both of
them as home: `OneOwner`.

For the refinement, `FailureStep` lists the handlers that are left with `OnlyFailures`. Each is
a stutter of `Ownership`, except for a failure, the end of a takeover, and the timeout of a PE
that has lost its home.

### ASAP instance

A response is given to the first request of the queue. That it is the right one depends
on everything between two threads and the registrar, so the inductive invariant
`ASAPInv` (theorem `ASAPInvariant`) has eight parts: types; the requests of the queue are
distinct (`Unique`); the threads wait for requests of their own (`Threads`, `Waiting`); what
has been answered was theirs (`Answered`); the responses and requests on
the connection are the beginning of the queue up to `LastAITM`, in its order (`Order`); the
cursor of the main loop is just behind the last request sent (`Cursor`); the timer runs
while a response is outstanding (`Supervised`). `Order` is the core: it says that a
disconnect forgets what was sent exactly when the connection does. Lemmas say
what the removal of a request does to positions in the queue. `ResponsesInOrder`, the order
as the main loop relies on it, is proved only; no run checks it separately.

### Dispatcher and reregistration

`EventOfPolledCallback` needs to know at each moment between poll and callback that an FD
callback which is not marked as fresh is the one that was in the array given to poll
(`Polled`). `ReregistrationKept` follows from `Running`: the timer of a registered pool
element is in one of the two timer storages, or the main loop is in its callback and
has not got to its end; the proof goes through the steps of both threads.

### Sessions

The assumptions are those of `SessionSocket` and `Session`: there are at least two
identifiers, of which 0 is never used, a word of the bitmap has at least one bit, and 0
is neither a PE nor an association.

The inductive invariant `SessionInv` (theorem `SessionInvariant`) has a common part and one
for each kind of socket.

* `SocketOK`, common: the bitmap marks the identifiers of the sessions and counts the
  others (`Bits`), the queues hold notifications. `SessionSocketProofs` shows for each
  function of `sessioncontrol.c` and `identifierbitmap.c` what it changes. The bitmap is
  an array of words, so this needs that a number has one quotient and one remainder, that the
  last word may be used in part only, and that the search through the words finds
  a free identifier if the count says that there is one.
* `ServerInv`, for a server: the notifications that wait lead from the sessions the application
  knows to those there are, and no two sessions have the same association. The latter
  does not follow from the sessions alone. `handleCommUp()` adds a session without looking
  for one of the same association; there is none, since SCTP reports the loss of an
  association before its identifier comes up again, and `handleCommLost()` has removed the
  session by then. `Fits` says this about the sessions, the messages in the
  socket and the associations that are up: between two "up" of one association is
  a "lost", before an "up" of an association that has a session is a "lost", and what is
  not up any more has a "lost" still to be read. When a partial message has been
  read its bytes stay in the buffer, the next notification is taken for data, and a "lost" may go
  unnoticed, hence the exception in `SessionIdentifiers`.
* `ClientInv`, for a connected socket: the association is up only with a socket, and
  a session that is marked as failed has none, or has read a partial message; the
  application has been told or the notification waits behind the read.

Each call of the Enhanced Mode is one lemma, on top of what a read from a socket
does to a server (`ReadSocketServer`) and to a connected session (`ReadSocketConnected`).

`CookieFirst` is about data that is sent in spite of a cookie. `CookieSent` says in
addition that a failover which succeeds has sent the cookie first, if there is one,
and that one which does not succeed leaves no notification for the client. The
step `FailoverSends` shows the former for all outcomes of a failover, also for a cookie
that could not be sent over an association that is up; the lemma `FailoverQuiet` shows
the latter. A failover clears the queue first, so no notification of an earlier one
is left.

### Server framework

The assumptions are those of `PoolServer`: the sessions are finite, loads are natural numbers,
and the full load is not 0.
Session threads change their loads at any time while the main thread removes finished ones.
The inductive invariant `ServerInv` (theorem `ServerInvariant`) therefore also says that the
list has each running thread exactly once and what the main thread has yet to look at is in
the list (`ListKept`), that an object out of use has no load (`SessionsKept`), that the sum the
code updates with each change is the sum over all sessions and within the limit (`SumKept`),
and that a load which is 1% or more off the announced one has its notification in the pipe,
has a thread that is about to write it, or is the known exception `missed` (`ChangeTold`). In
front of the read of the pipe the notification is no reason, since the read takes it
(`ToldBeforeRead`): there the look at the load just before has to be. The lemmas of
the first section of `AccountingProofs` say how a sum changes with the value of one member.

### Handlespace

The assumptions are those of `Handlespace`: finitely many identities, and a checksum with at
least two values. `HandlespaceInv` (theorem `HandlespaceInvariant`) says for the record of all
storages: the checksum kept in a node is that of its element (`NodesKept`); each storage
has exactly the entries that the nodes call for, under their present keys (`StoragesKept`);
and the counters and the checksums equal those of the elements, for the whole
handlespace, for the registrar itself and for each peer, with no peer known twice (`Counted`).
The keys matter: the code unlinks a node from a storage before it changes the key
and links it again, and an operation that looks up a storage in between sees the old state.
`Counted` is stated for any assignment of homes to elements, because an update of the
ownership subtracts a checksum under the old home and adds it under the new one. Both wrap
at the range of the accumulator, so there are lemmas about sums modulo a number.
`PeerListVerify` also says that the checksum that is sent is in its range; for this, adding
the carries is shown to end (`CarryDecreases`).
A purge goes from element to element; the invariant holds after each of them, shown with
the smallest number of elements after which it would not.

### Registrar hunt

The invariant `TableInv` relates the list of associations, the states of the associations, the
connection in use and the events that the hunt socket has not delivered yet (`Sound`). An event
may be read in a hunt that has nothing to do with it, and a connection that is peeled
off takes its events along. So the invariant also says in which order events of one
association wait (`InOrder`), and that none waits of the connection in use. Taking away
the events of one association keeps the order of the others.

### Rate of requests

`RateEnforced` compares the rate computed from a bucket with the times of the requests that
were made. `RateInv` says that as long as the clock runs forward the bucket has the last
`MaxEntries` of the times of all requests counted together with the one at hand. The code
keeps a bucket sorted by insertion; with the clock running forward this appends, and drops the
oldest when the bucket is full. Then the rate is a quotient of integers, with bounds from
distances between neighbours, which add up along the bucket (smallest
counterexample again).

### Induction

The library's induction theorems cannot be used with the installed provers. Where a proof
needs induction over numbers (sums, purges of lists, the carries of a checksum, the words of a
bitmap, the events of a hunt), it assumes a smallest counterexample. The lemma
`SmallestNumber` about sets of numbers gives it; it stands in each of the three modules that
need it, as one module with it for all of them would bring all of their
definitions together.

For the same reason `Lists` has the one operator on lists that the proofs need, instead of
the module of the community with its many definitions, and `TimesOf` and `EventsWithout` are
recursive functions, whose recursion can be unfolded.

### Only model-checked

* Liveness properties are beyond the prover.
* `OneOwner`, `SyncUnderWay` and the refinement of `Ownership` are proved under the conditions
  above. Without them they are not true, as the runs that find violations show for
  `SyncUnderWay`.
* `TakeoverKnown` is checked for one failure. With two, the second registrar may fail before
  its TakeoverServer has arrived, so it is not true for every value of the bounds.
* `SyncComplete` and `MentorComplete` are about the whole of an exchange of tables in
  chunks. An extraction that is given up and resumed breaks the first one (run
  `resumed_extraction`), so it is a statement about the mix of events of its run.
* `RedBlackTree` and the modules of messages use recursive operators, with which the
  prover cannot work.
* The properties of policies are about sequences sorted by a comparison and folded. The
  operators for these are defined by recursion over sets, and nothing the provers have
  leads from there to a sorted sequence.

## Not modelled

`PROJECT.json` lists all parts with reasons. In short:

* Socket, address and string utilities, logging, statistics, command line,
  random numbers: wrappers of system calls, and formats without state.
* Single octets and byte order of messages; the model goes down to parameters with types,
  lengths and padding.
* The message-oriented server (`udplikeserver.cc`): a single thread without a list of
  sessions. The basic mode functions: one call of the ASAP instance each.
* The component status protocol: reports for display, to which nothing reacts.
* The demonstration services and clients, and the tests and tools.
* Mapped sockets, socket options and address queries of the enhanced mode; several threads
  that use the same RSerPool socket.
* The ASAP instance, the hunt and the registrars are not composed: each has the other side
  as an environment that may do anything the protocol allows, or nothing.
