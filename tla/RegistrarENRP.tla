---------------------------- MODULE RegistrarENRP ----------------------------
(***************************************************************************)
(* The ENRP side of a registrar (rspregistrar-enrp.c): the announcements,  *)
(* the supervision of the peers, and the replication of the handlespace    *)
(* and of the peer list.                                                   *)
(***************************************************************************)
EXTENDS RegistrarTakeover

\* The network has room for what a timer of r sends (bound of the instance).
QueuesHaveRoom(r) == \A d \in Peers(r) : Len(net[r][d]) < MaxQueue

-----------------------------------------------------------------------------
(* registrarHandleENRPAnnounceTimer *)

HandleENRPAnnounceTimer(r) ==
  /\ r \in running
  /\ QueuesHaveRoom(r)
  /\ Spend("announce")
  /\ startup' = [startup EXCEPT ![r] = FALSE]
  /\ MulticastPresence(r)
  /\ Send(r, PresenceToAllPeers(r))
  /\ UNCHANGED <<running, mentor, peers, pes, keepAlive>>

-----------------------------------------------------------------------------
(* registrarHandlePeerEvent: a timer of the entry r has for p expires.  An  *)
(* expiry for a peer that is up is an event of the given kind.              *)

PeerTimerExpires(r, p, code, kind) ==
  /\ r \in running
  /\ peers[r][p].TimerCode = code
  /\ IF p \in running THEN Spend(kind) ELSE UNCHANGED spent

\* PLNT_MAX_TIME_LAST_HEARD: ask the peer for a sign of life.
LastHeardTimeout(r, p) ==
  /\ PeerTimerExpires(r, p, "LAST_HEARD", "probe")
  /\ peers' = [peers EXCEPT ![r][p].TimerCode = "NO_RESPONSE"]
  /\ Send(r, ToPeer(p, <<PresenceMessage(r, TRUE)>>))
  /\ UNCHANGED <<running, startup, mentor, pes, mcast, keepAlive>>

\* PLNT_MAX_TIME_NO_RESPONSE, nobody has started a takeover, and the peer has
\* PEs: try to take them over.
NoResponseTakeover(r, p) ==
  /\ PeerTimerExpires(r, p, "NO_RESPONSE", "suspect")
  /\ peers[r][p].TakeoverRegistrarID = UNDEFINED
  /\ OwnedBy(r, p) # {}
  /\ StartTakeover(r, p)
  /\ UNCHANGED <<running, startup, mentor, pes, mcast, keepAlive>>

\* PLNT_MAX_TIME_NO_RESPONSE, nothing to take over, or another one does it.
NoResponseForget(r, p) ==
  /\ PeerTimerExpires(r, p, "NO_RESPONSE", "suspect")
  /\ \/ peers[r][p].TakeoverRegistrarID # UNDEFINED
     \/ OwnedBy(r, p) = {}
  /\ peers' = [peers EXCEPT ![r][p] = NoPeer]
  /\ UNCHANGED <<running, startup, mentor, pes, net, mcast, keepAlive>>

\* PLNT_TAKEOVER_EXPIRY: the peers have not agreed in time.
TakeoverExpiry(r, p) ==
  /\ r \in running
  /\ peers[r][p].TimerCode = "TAKEOVER_EXPIRY"
  /\ peers' = [peers EXCEPT ![r][p] = NoPeer]
  /\ UNCHANGED <<running, startup, mentor, pes, net, mcast, keepAlive, spent>>

HandlePeerEvent(r, p) ==
  \/ LastHeardTimeout(r, p)
  \/ NoResponseTakeover(r, p)
  \/ NoResponseForget(r, p)
  \/ TakeoverExpiry(r, p)

-----------------------------------------------------------------------------
(* registrarHandleENRPHandleUpdate *)

\* PNUP_ADD_PE.  A PE that s believes to be ours is refused.  If s suggests it, r
\* offers itself to the PE as new home.
AddPE(r, s) ==
  LET m == Head(net[s][r])
  IN /\ Received(r, s, "HandleUpdate")
     /\ m.action = "ADD_PE"
     /\ pes' = IF m.home = r
                 THEN pes
                 ELSE [pes EXCEPT ![r][m.pe] =
                        [RegisterPE(@, m.home, 0) EXCEPT !.TimerCode = "EXPIRY"]]
     /\ keepAlive' = IF /\ m.home # r
                        /\ m.suggested
                        /\ ENRPSupportTakeoverSuggestion
                       THEN keepAlive \cup {<<r, m.pe>>}
                       ELSE keepAlive
     /\ ReceiveAndSend(r, s, Silence)
     /\ UNCHANGED <<running, startup, mentor, peers, mcast, spent>>

\* PNUP_DEL_PE, whoever owns the PE.
DelPE(r, s) ==
  LET m == Head(net[s][r])
  IN /\ Received(r, s, "HandleUpdate")
     /\ m.action = "DEL_PE"
     /\ pes' = [pes EXCEPT ![r][m.pe] = NoPE]
     /\ ReceiveAndSend(r, s, Silence)
     /\ UNCHANGED <<running, startup, mentor, peers, mcast, keepAlive, spent>>

HandleENRPHandleUpdate(r, s) == AddPE(r, s) \/ DelPE(r, s)

-----------------------------------------------------------------------------
(* registrarHandleENRPListRequest, registrarHandleENRPListResponse *)

HandleENRPListRequest(r, s) ==
  /\ Received(r, s, "ListRequest")
  /\ ReceiveAndSend(r, s,
       ToPeer(s, <<[type |-> "ListResponse", list |-> Peers(r)]>>))
  /\ UNCHANGED <<running, startup, mentor, peers, pes, mcast, keepAlive, spent>>

\* The entries that are new to r: the registration of the own identifier fails,
\* and a known peer's timer is running.
NewEntries(r, list) ==
  {p \in list \ {r} : peers[r][p].TimerCode = "none"}

HandleENRPListResponse(r, s) ==
  LET new == NewEntries(r, Head(net[s][r]).list)
  IN /\ Received(r, s, "ListResponse")
     /\ peers' = [peers EXCEPT ![r] = [p \in Registrar |->
          IF p \in new
            THEN [RegisterPeer(@[p]) EXCEPT !.TimerCode = "LAST_HEARD"]
            ELSE @[p]]]
     /\ ReceiveAndSend(r, s, [p \in Registrar |->
          IF p \in new THEN <<PresenceMessage(r, FALSE)>> ELSE <<>>])
     /\ UNCHANGED <<running, startup, mentor, pes, mcast, keepAlive, spent>>

-----------------------------------------------------------------------------
(* registrarHandleENRPHandleTableRequest *)

TableRequest(ownChildrenOnly) ==
  [type |-> "HandleTableRequest", ownChildrenOnly |-> ownChildrenOnly]

\* The response with the given PEs.
TableResponse(r, chunk, more) ==
  [type |-> "HandleTableResponse", reject |-> FALSE, more |-> more,
   table |-> [e \in PoolElement |->
                IF e \in chunk THEN pes[r][e].home ELSE UNDEFINED]]

\* The PEs that come next in the extraction r does for s.
Candidates(r, s, ownChildrenOnly) ==
  IF ownChildrenOnly
    THEN OwnershipCandidates(r, peers[r][s].UserData)
    ELSE GlobalCandidates(r, peers[r][s].UserData)

\* Mutation of MoreToSend: the limit on the number of PEs is forgotten.
MoreToSendBySize(candidates, n) ==
  n < Cardinality(FirstElements(candidates, MaxElementsPerHTRequest))

\* Mutation of MoreToSend: after any PE there may be more.
MoreToSendAfterAny(candidates, n) == candidates # {}

\* createHandleTableResponseMessage: is there more to send, if the message had
\* room for n PEs?
MoreToSend(candidates, n) ==
  LET extract == FirstElements(candidates, MaxElementsPerHTRequest)
  IN \/ Cardinality(extract) = MaxElementsPerHTRequest
     \/ n < Cardinality(extract)

\* s is a peer: it gets the next chunk.  The size of the message may cut the
\* chunk after n PEs.  The entry of s remembers where to go on.
SendHandleTable(r, s) ==
  \E n \in 1 .. MaxElementsPerHTRequest :
    LET candidates == Candidates(r, s, Head(net[s][r]).ownChildrenOnly)
        chunk      == FirstElements(candidates, n)
        more       == MoreToSend(candidates, n)
    IN /\ Received(r, s, "HandleTableRequest")
       /\ peers[r][s].known
       /\ n = MaxElementsPerHTRequest \/ n < Cardinality(candidates)
       /\ \E last \in PoolElement \cup {0} :
            /\ IF more
                 THEN last \in chunk /\ \A e \in chunk : e <= last
                 ELSE last = 0
            /\ peers' = [peers EXCEPT ![r][s].UserData = last]
       /\ ReceiveAndSend(r, s, ToPeer(s, <<TableResponse(r, chunk, more)>>))
       /\ UNCHANGED <<running, startup, mentor, pes, mcast, keepAlive, spent>>

\* s is unknown: the request is rejected.
RejectHandleTable(r, s) ==
  /\ Received(r, s, "HandleTableRequest")
  /\ ~peers[r][s].known
  /\ ReceiveAndSend(r, s,
       ToPeer(s, <<[TableResponse(r, {}, FALSE) EXCEPT !.reject = TRUE]>>))
  /\ UNCHANGED <<running, startup, mentor, peers, pes, mcast, keepAlive, spent>>

HandleENRPHandleTableRequest(r, s) ==
  SendHandleTable(r, s) \/ RejectHandleTable(r, s)

-----------------------------------------------------------------------------
(* registrarHandleENRPHandleTableResponse *)

\* Mutation of PropagateTable: PEs that are known are not updated.
PropagateNewOnly(r, table) ==
  [e \in PoolElement |->
     IF table[e] \in {UNDEFINED, r} \/ pes[r][e].home # UNDEFINED
       THEN pes[r][e]
       ELSE [RegisterPE(pes[r][e], table[e], 0) EXCEPT !.TimerCode = "EXPIRY"]]

\* The response is registered; the timer of a new PE is started.
PropagateTable(r, table) ==
  [e \in PoolElement |->
     IF table[e] \in {UNDEFINED, r}
       THEN pes[r][e]
       ELSE [RegisterPE(pes[r][e], table[e], 0) EXCEPT
               !.TimerCode = IF @ = "none" THEN "EXPIRY" ELSE @]]

\* A chunk that is not the last one: request the next one.
RequestNextChunk(r, s) ==
  LET m == Head(net[s][r])
  IN /\ Received(r, s, "HandleTableResponse")
     /\ peers[r][s].known
     /\ ~m.reject /\ m.more
     /\ pes' = [pes EXCEPT ![r] = PropagateTable(r, m.table)]
     /\ ReceiveAndSend(r, s,
          ToPeer(s, <<TableRequest("MENTOR" \notin peers[r][s].Status)>>))
     /\ UNCHANGED <<running, startup, mentor, peers, mcast, keepAlive, spent>>

\* The last chunk: what is still marked is purged.  If the table is the
\* mentor's, the startup phase is over.
CompleteSynchronization(r, s) ==
  LET m == Head(net[s][r])
  IN /\ Received(r, s, "HandleTableResponse")
     /\ peers[r][s].known
     /\ ~m.reject /\ ~m.more
     /\ pes' = [pes EXCEPT
                  ![r] = PurgeMarkedPEs(PropagateTable(r, m.table), s)]
     /\ peers' = [peers EXCEPT ![r][s].Status = @ \ {"MENTOR", "HTSYNC"}]
     /\ startup' = [startup EXCEPT ![r] = @ /\ mentor[r] # s]
     /\ ReceiveAndSend(r, s, Silence)
     /\ UNCHANGED <<running, mentor, mcast, keepAlive, spent>>

\* s has rejected the request.
SynchronizationRejected(r, s) ==
  LET m == Head(net[s][r])
  IN /\ Received(r, s, "HandleTableResponse")
     /\ peers[r][s].known
     /\ m.reject
     /\ peers' = [peers EXCEPT ![r][s].Status = @ \ {"MENTOR", "HTSYNC"}]
     /\ ReceiveAndSend(r, s, Silence)
     /\ UNCHANGED <<running, startup, mentor, pes, mcast, keepAlive, spent>>

\* s is not in the peer list.
IgnoreTable(r, s) ==
  /\ Received(r, s, "HandleTableResponse")
  /\ ~peers[r][s].known
  /\ ReceiveAndSend(r, s, Silence)
  /\ UNCHANGED <<running, startup, mentor, peers, pes, mcast, keepAlive, spent>>

HandleENRPHandleTableResponse(r, s) ==
  \/ RequestNextChunk(r, s)
  \/ CompleteSynchronization(r, s)
  \/ SynchronizationRejected(r, s)
  \/ IgnoreTable(r, s)

-----------------------------------------------------------------------------
(* registrarHandleENRPPresence *)

\* The first peer a registrar hears of during its startup becomes its mentor.
BecomesMentor(r) == startup[r] /\ mentor[r] = UNDEFINED

\* The synchronization state of the entry for s, after the mentor query.
StatusAfterMentorQuery(r, s) ==
  RegisterPeer(peers[r][s]).Status \cup (IF BecomesMentor(r) THEN PeerStatus ELSE {})

\* Mutation of HandleTableOutdated: a synchronization in progress is ignored.
HandleTableOutdatedAgain(r, s, checksum) == OwnedBy(r, s) # checksum

\* Mutation of HandleTableOutdated: a peer without PEs is not audited.
HandleTableOutdatedUnlessEmpty(r, s, checksum) ==
  /\ "HTSYNC" \notin StatusAfterMentorQuery(r, s)
  /\ checksum # {}
  /\ OwnedBy(r, s) # checksum

\* The handlespace audit: the PEs r has for s are not the ones s owns.
HandleTableOutdated(r, s, checksum) ==
  "HTSYNC" \notin StatusAfterMentorQuery(r, s) /\ OwnedBy(r, s) # checksum

PeerListOutdated(r, s) == "LISTSYNC" \notin StatusAfterMentorQuery(r, s)

\* Mutation of HeardPeer: the takeover process is kept.
HeardPeerKeepingTakeover(r, s, status) ==
  [RegisterPeer(peers[r][s]) EXCEPT
     !.Status = status, !.TimerCode = "LAST_HEARD",
     !.TakeoverRegistrarID = UNDEFINED]

\* The entry for s after a sign of life: a takeover of s is off.
HeardPeer(r, s, status) ==
  [RegisterPeer(peers[r][s]) EXCEPT
     !.Status = status, !.TimerCode = "LAST_HEARD",
     !.TakeoverRegistrarID = UNDEFINED,
     !.TakeoverProcess = FALSE, !.OutstandingAcks = {}]

If(condition, messages) == IF condition THEN messages ELSE <<>>

\* A Presence that was multicast does not start a synchronization, except the
\* one with the mentor.
GreetPeer(r, s) ==
  If(~peers[r][s].known, <<PresenceMessage(r, TRUE)>>)
  \o If(BecomesMentor(r), <<[type |-> "ListRequest"], TableRequest(FALSE)>>)

HandleMulticastPresence(r, s) ==
  /\ r \in running
  /\ <<s, r>> \in mcast
  /\ mcast' = mcast \ {<<s, r>>}
  /\ peers' = [peers EXCEPT
                 ![r][s] = HeardPeer(r, s, StatusAfterMentorQuery(r, s))]
  /\ mentor' = [mentor EXCEPT ![r] = IF BecomesMentor(r) THEN s ELSE @]
  /\ Send(r, ToPeer(s, GreetPeer(r, s)))
  /\ UNCHANGED <<running, startup, pes, keepAlive, spent>>

\* A Presence on an association.
HandleENRPPresence(r, s) ==
  LET m    == Head(net[s][r])
      sync == HandleTableOutdated(r, s, m.checksum)
      list == PeerListOutdated(r, s)
  IN /\ Received(r, s, "Presence")
     /\ peers' = [peers EXCEPT ![r][s] = HeardPeer(r, s,
                    StatusAfterMentorQuery(r, s)
                    \cup {x \in {"HTSYNC"} : sync}
                    \cup {x \in {"LISTSYNC"} : list})]
     /\ mentor' = [mentor EXCEPT ![r] = IF BecomesMentor(r) THEN s ELSE @]
     /\ pes' = [pes EXCEPT ![r] = IF sync THEN MarkPEs(@, s) ELSE @]
     /\ ReceiveAndSend(r, s, ToPeer(s,
          GreetPeer(r, s)
          \o If(sync, <<TableRequest(TRUE)>>)
          \o If(list, <<[type |-> "ListRequest"]>>)
          \o If(m.reply, <<PresenceMessage(r, FALSE)>>)))
     /\ UNCHANGED <<running, startup, mcast, keepAlive, spent>>
=============================================================================
