--------------------------- MODULE RegistrarTable ---------------------------
(***************************************************************************)
(* The registrar table of an ASAP instance (registrartable.c): the list of *)
(* registrars, configured (static) or learned from announcements, and the  *)
(* hunt for a connection to one of them.  A hunt opens associations over   *)
(* the hunt socket, block by block, and takes the first that comes up; the *)
(* identifiers of those that come up later are kept for the next hunt.     *)
(*                                                                         *)
(* Registrars are numbered in the order of the list's index.  The          *)
(* association with a registrar has the number of the registrar.           *)
(***************************************************************************)
EXTENDS Naturals, Sequences, FiniteSetsExt

CONSTANTS
  Peer,                      \* registrars, 1 .. n
  StaticPeer,                \* the configured ones
  ReachablePeer,             \* the ones whose associations never fail
  MaxSimultaneousRequests,   \* MAX_SIMULTANEOUS_REQUESTS
  RegistrarConnectMaxTrials,
  MaxInterrupts,             \* signals that interrupt a hunt
  MaxOutstanding             \* the outstanding connects that are told apart

ASSUME RegistrarTableAssumption ==
  /\ Peer \subseteq Nat \ {0}
  /\ StaticPeer \subseteq Peer
  /\ ReachablePeer \subseteq Peer
  /\ MaxSimultaneousRequests \in Nat
  /\ RegistrarConnectMaxTrials \in Nat
  /\ MaxInterrupts \in Nat
  /\ MaxOutstanding \in Nat
  /\ \A s \in StaticPeer, p \in Peer \ StaticPeer : s < p

VARIABLES
  registrarList,    \* RegistrarList
  outOfDate,        \* entries whose expiry timer has passed
  assocIDList,      \* RegistrarAssocIDList
  outstanding,      \* OutstandingConnects
  hunt,             \* "idle", or where registrarTableGetRegistrar is
  huntCursor,       \* lastRegistrarIdentifier, as a position in the list
  huntBlock,        \* lastTransportAddressBlock # NULL
  trials,           \* number of trials of this hunt, started ones
  announceHeard,    \* LastAnnounceHeard >= start
  trialTimeout,     \* start + RegistrarConnectTimeout < now
  interrupts,       \* number of signals so far
  blockTimeout,     \* lastTrialTimeStamp + RegistrarConnectTimeout < now
  assoc,            \* state of the association with each registrar
  huntSocket,       \* events that are to be read from the hunt socket
  connection        \* the registrar of the peeled-off association, or 0

huntVars == <<hunt, huntCursor, huntBlock, trials, announceHeard, trialTimeout,
              blockTimeout, interrupts>>
tableVars == <<registrarList, outOfDate, assocIDList, outstanding, huntVars, assoc,
               huntSocket, connection>>

Pending(type, p) ==
  \E i \in DOMAIN huntSocket : huntSocket[i] = [type |-> type, peer |-> p]

NoticeOf(type, p) == Append(huntSocket, [type |-> type, peer |-> p])

\* registrarTableNew, registrarTableAddStaticEntry.
TableInit ==
  /\ registrarList = StaticPeer
  /\ outOfDate = {}
  /\ assocIDList = {}
  /\ outstanding = 0
  /\ hunt = "idle"
  /\ huntCursor = 0
  /\ huntBlock = FALSE
  /\ trials = 0
  /\ announceHeard = FALSE
  /\ trialTimeout = FALSE
  /\ blockTimeout = FALSE
  /\ interrupts = 0
  /\ assoc = [p \in Peer |-> "none"]
  /\ huntSocket = <<>>
  /\ connection = 0

-----------------------------------------------------------------------------
(* The network.  A handshake takes longer than the reading of what happened to *)
(* the association's predecessor.                                             *)

Quiet(p) == \A i \in DOMAIN huntSocket : huntSocket[i].peer # p

AssociationUp(p) ==
  /\ assoc[p] = "connecting"
  /\ Quiet(p)
  /\ assoc' = [assoc EXCEPT ![p] = "up"]
  /\ huntSocket' = NoticeOf("up", p)
  /\ UNCHANGED <<registrarList, outOfDate, assocIDList, outstanding, huntVars,
                 connection>>

CannotStart(p) ==
  /\ assoc[p] = "connecting"
  /\ Quiet(p)
  /\ p \notin ReachablePeer
  /\ assoc' = [assoc EXCEPT ![p] = "none"]
  /\ huntSocket' = NoticeOf("cannot start", p)
  /\ UNCHANGED <<registrarList, outOfDate, assocIDList, outstanding, huntVars,
                 connection>>

AssociationLost(p) ==
  /\ assoc[p] = "up"
  /\ p \notin ReachablePeer
  /\ assoc' = [assoc EXCEPT ![p] = "none"]
  /\ huntSocket' = NoticeOf("lost", p)
  /\ UNCHANGED <<registrarList, outOfDate, assocIDList, outstanding, huntVars,
                 connection>>

\* A registrar sends a keep-alive over an association that is not peeled off.
DataOnHuntSocket(p) ==
  /\ assoc[p] = "up"
  /\ ~Pending("data", p)
  /\ huntSocket' = NoticeOf("data", p)
  /\ UNCHANGED <<registrarList, outOfDate, assocIDList, outstanding, huntVars,
                 assoc, connection>>

\* The connection ends (asapInstanceDisconnectFromRegistrar).
TableDisconnect ==
  /\ connection # 0
  /\ connection \notin ReachablePeer
  /\ assoc' = [assoc EXCEPT ![connection] = "none"]
  /\ connection' = 0
  /\ UNCHANGED <<registrarList, outOfDate, assocIDList, outstanding, huntVars,
                 huntSocket>>

\* The expiry timer of an entry passes: only learned entries have one.
GoesOutOfDate(p) ==
  /\ p \in registrarList \ (StaticPeer \cup outOfDate)
  /\ outOfDate' = outOfDate \cup {p}
  /\ UNCHANGED <<registrarList, assocIDList, outstanding, huntVars, assoc,
                 huntSocket, connection>>

-----------------------------------------------------------------------------
(* Associations of the hunt socket *)

\* Mutation of PeelOff: the association stays in the list.
PeelOffKeepingID(p, list) ==
  /\ assocIDList' = list
  /\ IF assoc[p] = "up"
     THEN /\ connection' = p
          /\ assoc' = [assoc EXCEPT ![p] = "peeled off"]
     ELSE UNCHANGED <<connection, assoc>>

\* registrarTablePeelOffRegistrarAssocID: whether or not it succeeds, the
\* association is removed from the list; events of it move to the new socket.
PeelOff(p, list) ==
  /\ assocIDList' = list \ {p}
  /\ IF assoc[p] = "up"
     THEN /\ connection' = p
          /\ assoc' = [assoc EXCEPT ![p] = "peeled off"]
     ELSE UNCHANGED <<connection, assoc>>

\* selectRegistrarAssocID, selectRegistrar: one of the associations in the list,
\* at random, is peeled off, or removed from the list when it is broken.
SelectRegistrar(list) ==
  IF list = {}
  THEN /\ assocIDList' = list
       /\ UNCHANGED <<connection, assoc>>
  ELSE \E p \in list : PeelOff(p, list)

\* The events that are not of the association with p, in their order.
EventsWithout(events, p) ==
  LET kept[n \in 0 .. Len(events)] ==
        IF n = 0 THEN <<>>
        ELSE IF events[n].peer = p THEN kept[n - 1]
        ELSE Append(kept[n - 1], events[n])
  IN  kept[Len(events)]

\* The events that remain to be read, without those of a peeled-off association.
Unread(events) == EventsWithout(events, connection')

\* handleRegistrarAnnounceCallback: adds the registrar, restarts its timer, and
\* removes the entries that are out of date.
HandleAnnounce(p) ==
  /\ p \notin StaticPeer
  /\ hunt # "round"
  /\ registrarList' = (registrarList \cup {p}) \ (outOfDate \ {p})
  /\ outOfDate' = {}
  /\ announceHeard' = (hunt # "idle")
  /\ hunt' = IF hunt = "wait" THEN "round" ELSE hunt
  /\ UNCHANGED <<assocIDList, outstanding, huntCursor, huntBlock, trials,
                 trialTimeout, blockTimeout, interrupts, assoc, huntSocket,
                 connection>>

\* Mutation of AssocIDsAfter: an association that comes up is not added.
AssocIDsWithoutNew(event) ==
  IF event.type = "lost" THEN assocIDList \ {event.peer} ELSE assocIDList

\* registrarTableHandleNotificationOnRegistrarHuntSocket: the new assocIDList.
AssocIDsAfter(event) ==
  CASE event.type = "up" -> assocIDList \cup {event.peer}
    [] event.type = "lost" -> assocIDList \ {event.peer}
    [] OTHER -> assocIDList

\* asapInstanceHandleRegistrarConnectionEvent, for an event of the hunt socket when
\* there is no hunt.  A keep-alive may be from the new home registrar, whose
\* association then replaces the connection.
HandleHuntSocketEvent ==
  /\ hunt = "idle"
  /\ huntSocket # <<>>
  /\ LET event == Head(huntSocket) IN
       \/ /\ assocIDList' = AssocIDsAfter(event)
          /\ huntSocket' = Tail(huntSocket)
          /\ UNCHANGED <<connection, assoc>>
       \/ /\ event.type = "data"
          /\ assoc[event.peer] = "up"
          /\ assocIDList' = assocIDList \ {event.peer}
          /\ connection' = event.peer
          /\ assoc' = [p \in Peer |-> IF p = event.peer THEN "peeled off"
                                      ELSE IF p = connection THEN "none"
                                      ELSE assoc[p]]
          /\ huntSocket' = Unread(Tail(huntSocket))
  /\ UNCHANGED <<registrarList, outOfDate, outstanding, huntVars>>

-----------------------------------------------------------------------------
(* registrarTableGetRegistrar *)

\* It returns, and its local variables are gone.
LeaveHunt ==
  /\ hunt' = "idle"
  /\ huntCursor' = 0
  /\ trials' = 0
  /\ huntBlock' = FALSE /\ announceHeard' = FALSE
  /\ trialTimeout' = FALSE /\ blockTimeout' = FALSE

\* Its beginning: an association may be there already.  Otherwise, the hunt starts
\* at a random entry of the list.  One is subtracted from the identifier of this
\* entry, which is 0 for a static one: the result is then behind all entries.
GetRegistrar ==
  /\ hunt = "idle"
  /\ connection = 0
  /\ SelectRegistrar(assocIDList)
  /\ huntSocket' = Unread(huntSocket)
  /\ outstanding' = 0
  /\ IF connection' # 0
     THEN LeaveHunt
     ELSE /\ hunt' = "round"
          /\ trialTimeout' = TRUE /\ blockTimeout' = TRUE
          /\ huntBlock' = (registrarList # {})
          /\ IF registrarList = {}
             THEN huntCursor' = 0
             ELSE \E p \in registrarList :
                    huntCursor' = IF p \in StaticPeer THEN Max(Peer) ELSE p - 1
          /\ UNCHANGED <<trials, announceHeard>>
  /\ UNCHANGED <<registrarList, outOfDate, interrupts>>

\* The walk of tryNextBlock: at each step, the next entry behind the cursor; at
\* first also the first entry of the list when there is none.  When there is no
\* next entry, the walk ends and the cursor is reset.
NextEntries(list) ==
  LET behind == {p \in list : p > huntCursor}
      from == IF behind = {} THEN list ELSE behind
  IN {p \in from : Cardinality({q \in from : q < p}) < MaxSimultaneousRequests}

\* tryNextBlock: connects to a block of entries.  A connect that fails at once is
\* not outstanding.
TryNextBlock ==
  LET list == registrarList \ outOfDate
      block == NextEntries(list)
  IN /\ registrarList' = list
     /\ outOfDate' = {}
     /\ IF Cardinality(block) < MaxSimultaneousRequests
        THEN huntCursor' = 0 /\ huntBlock' = FALSE
        ELSE huntCursor' = Max(block) /\ huntBlock' = TRUE
     /\ \E refused \in SUBSET (block \ ReachablePeer) :
          /\ outstanding' = Min({outstanding + Cardinality(block \ refused),
                                 MaxOutstanding})
          /\ assoc' = [p \in Peer |->
               IF p \in block \ refused /\ assoc[p] = "none"
               THEN "connecting" ELSE assoc[p]]

\* A round of the hunt.  At the end of the list, a new trial may start, when it is
\* the first one, when an announcement has come and no connect is outstanding, or
\* when the trial's time is over.  The next block is tried when its time has come.
HuntRound ==
  LET atEnd == huntCursor = 0 /\ ~huntBlock
      newTrial == atEnd /\ \/ trials = 0
                           \/ announceHeard /\ outstanding = 0
                           \/ trialTimeout
      tryBlock == newTrial \/ blockTimeout
  IN /\ hunt = "round"
     /\ IF newTrial /\ trials = RegistrarConnectMaxTrials
        THEN /\ LeaveHunt
             /\ UNCHANGED <<registrarList, outOfDate, outstanding, assoc>>
        ELSE /\ hunt' = "wait"
             /\ trials' = IF newTrial THEN trials + 1 ELSE trials
             /\ announceHeard' = (announceHeard /\ ~newTrial)
             /\ trialTimeout' = (trialTimeout /\ ~newTrial)
             /\ blockTimeout' = (blockTimeout /\ ~tryBlock)
             /\ IF tryBlock
                THEN TryNextBlock
                ELSE UNCHANGED <<registrarList, outOfDate, huntCursor, huntBlock,
                                 outstanding, assoc>>
     /\ UNCHANGED <<assocIDList, interrupts, huntSocket, connection>>

\* A connect is no longer outstanding.  MaxOutstanding stands for more than that.
OutstandingAfter(event) ==
  IF event.type \in {"lost", "cannot start"} /\ outstanding > 0
  THEN {outstanding - 1} \cup ({outstanding} \cap {MaxOutstanding})
  ELSE {outstanding}

\* A notification or data wakes up the hunt.  After a notification, an association
\* in the list is selected.  Data means that its association is there: it is peeked
\* at only, and stays when the association is broken.
HuntEvent ==
  /\ hunt = "wait"
  /\ huntSocket # <<>>
  /\ LET event == Head(huntSocket) IN
       /\ IF event.type = "data"
          THEN PeelOff(event.peer, assocIDList)
          ELSE SelectRegistrar(AssocIDsAfter(event))
       /\ outstanding' \in OutstandingAfter(event)
       /\ huntSocket' = Unread(IF event.type = "data" /\ connection' = 0 THEN huntSocket
                               ELSE Tail(huntSocket))
  /\ IF connection' # 0
     THEN LeaveHunt
     ELSE /\ hunt' = "round"
          /\ UNCHANGED <<huntCursor, huntBlock, trials, announceHeard, trialTimeout,
                         blockTimeout>>
  /\ UNCHANGED <<registrarList, outOfDate, interrupts>>

\* RegistrarConnectTimeout passes ...
HuntTimePasses ==
  /\ hunt # "idle"
  /\ ~(trialTimeout /\ blockTimeout)
  /\ trialTimeout' = TRUE
  /\ blockTimeout' = TRUE
  /\ UNCHANGED <<registrarList, outOfDate, assocIDList, outstanding, hunt,
                 huntCursor, huntBlock, trials, announceHeard, interrupts, assoc,
                 huntSocket, connection>>

\* ... which ends the poll.
HuntTimeout ==
  /\ hunt = "wait"
  /\ trialTimeout /\ blockTimeout
  /\ hunt' = "round"
  /\ UNCHANGED <<registrarList, outOfDate, assocIDList, outstanding, huntCursor,
                 huntBlock, trials, announceHeard, trialTimeout, blockTimeout,
                 interrupts, assoc, huntSocket, connection>>

\* A signal ends the poll and the hunt.
HuntInterrupted ==
  /\ hunt = "wait"
  /\ interrupts < MaxInterrupts
  /\ interrupts' = interrupts + 1
  /\ LeaveHunt
  /\ UNCHANGED <<registrarList, outOfDate, assocIDList, outstanding, assoc,
                 huntSocket, connection>>

-----------------------------------------------------------------------------
Association(p) == AssociationUp(p) \/ CannotStart(p)

HuntStep == HandleHuntSocketEvent \/ HuntRound \/ HuntTimeout

TableNext ==
  \/ \E p \in Peer :
       \/ Association(p)
       \/ AssociationLost(p)
       \/ DataOnHuntSocket(p)
       \/ GoesOutOfDate(p)
       \/ HandleAnnounce(p)
  \/ TableDisconnect
  \/ HuntStep
  \/ GetRegistrar
  \/ HuntEvent
  \/ HuntInterrupted
  \/ HuntTimePasses

ReadHuntSocket == HuntEvent \/ HandleHuntSocketEvent

\* A registrar whose associations never fail is chosen.
FindsReachable == (GetRegistrar \/ HuntEvent) /\ connection' \in ReachablePeer

\* A hunt and, between hunts, the main loop read what is in the hunt socket, and time
\* passes.  A connect succeeds or fails in the end.  The random choice of an
\* association does not avoid the same one for ever.
TableFairness ==
  /\ WF_tableVars(HuntStep)
  /\ WF_tableVars(HuntTimePasses)
  /\ SF_tableVars(ReadHuntSocket)
  /\ SF_tableVars(FindsReachable)
  /\ \A p \in Peer : WF_tableVars(Association(p))

TableSpec == TableInit /\ [][TableNext]_tableVars /\ TableFairness

-----------------------------------------------------------------------------
(* Properties *)

\* No association is forgotten: one that has come up over the hunt socket is in
\* RegistrarAssocIDList or announced by an unread notification, until it is peeled
\* off for use as the connection (selectRegistrar,
\* registrarTablePeelOffRegistrarAssocID).  And none is there without being up,
\* unless the notification of its loss is still unread.
AssociationsKept ==
  \A p \in Peer :
    /\ assoc[p] = "up" => p \in assocIDList \/ Pending("up", p)
    /\ p \in assocIDList => assoc[p] = "up" \/ Pending("lost", p)
    /\ assoc[p] = "peeled off" <=> connection = p

\* Data of an association that is broken is what the hunt peeks at.
Blocked == /\ huntSocket # <<>>
           /\ Head(huntSocket).type = "data"
           /\ assoc[Head(huntSocket).peer] # "up"

\* A registrar that is configured and reachable is found by those who look for one
\* again and again, whatever the other entries of the list do: through trials that
\* end with the list, blocks that are not full and announcements in between, and
\* although the hunt does not notice the end of a list that fills its blocks
\* (registrarTableGetRegistrar, tryNextBlock).  It is not, when the hunt peeks at data
\* of a broken association for ever, which it does not take out of the socket.
ReachableRegistrarFound ==
  StaticPeer \cap ReachablePeer # {} =>
    ([]<>(hunt # "idle") /\ []<>~Blocked => []<>(connection # 0))
=============================================================================
