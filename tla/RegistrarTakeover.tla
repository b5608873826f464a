-------------------------- MODULE RegistrarTakeover --------------------------
(***************************************************************************)
(* The takeover procedure: a registrar that no longer hears a peer asks    *)
(* the others for their permission to become the home of the peer's PEs    *)
(* (rspregistrar-takeover.c, takeoverprocess.c).                           *)
(***************************************************************************)
EXTENDS RegistrarState

TakeoverMessage(type, target) == [type |-> type, target |-> target]

\* takeoverProcessNew: a snapshot of the peers that have to agree.
OutstandingAcksFor(r, target) == Peers(r) \ {target, r}

\* registrarHandlePeerEvent, takeover part: the process is created, all peers
\* are asked, including the target, which may still be alive.
StartTakeover(r, target) ==
  /\ peers' = [peers EXCEPT
                 ![r][target].TakeoverProcess = TRUE,
                 ![r][target].OutstandingAcks = OutstandingAcksFor(r, target),
                 ![r][target].TimerCode = "TAKEOVER_EXPIRY"]
  /\ Send(r, ToAll(r, TakeoverMessage("InitTakeover", target)))

-----------------------------------------------------------------------------
(* registrarHandleENRPInitTakeover *)

\* Does our own takeover of the same target give way to the one of s?
GivesWay(r, s) == s < r

\* r is the target: it announces that it is alive.
InitTakeoverOfMe(r, s) ==
  /\ Received(r, s, "InitTakeover")
  /\ Head(net[s][r]).target = r
  /\ ReceiveAndSend(r, s, PresenceToAllPeers(r))
  /\ MulticastPresence(r)
  /\ UNCHANGED <<running, startup, mentor, peers, pes, keepAlive, spent>>

\* Mutation of AgreedPeer: who takes over is not noted.
AgreedPeerForgotten(node, s) ==
  IF node.TakeoverProcess
    THEN [node EXCEPT !.TakeoverProcess = FALSE, !.OutstandingAcks = {},
                      !.TimerCode = "NO_RESPONSE"]
    ELSE node

\* Mutation of AgreedPeer: the timer of the cancelled takeover is stopped, but no
\* other one is started.
AgreedPeerUntimed(node, s) ==
  IF ~node.known
    THEN node
    ELSE IF node.TakeoverProcess
           THEN [node EXCEPT !.TakeoverRegistrarID = s,
                             !.TakeoverProcess = FALSE,
                             !.OutstandingAcks = {},
                             !.TimerCode = "none"]
           ELSE [node EXCEPT !.TakeoverRegistrarID = s]

\* The entry of the target, after its takeover by s has been acknowledged.
AgreedPeer(node, s) ==
  IF ~node.known
    THEN node
    ELSE IF node.TakeoverProcess
           THEN [node EXCEPT !.TakeoverRegistrarID = s,
                             !.TakeoverProcess = FALSE,
                             !.OutstandingAcks = {},
                             !.TimerCode = "NO_RESPONSE"]
           ELSE [node EXCEPT !.TakeoverRegistrarID = s]

\* Another registrar is the target, and r agrees to the takeover by s.
AgreeToTakeover(r, s) ==
  LET target == Head(net[s][r]).target
  IN /\ Received(r, s, "InitTakeover")
     /\ target # r
     /\ peers[r][target].TakeoverProcess => GivesWay(r, s)
     /\ peers' = [peers EXCEPT ![r][target] = AgreedPeer(@, s)]
     /\ ReceiveAndSend(r, s,
          ToPeer(s, <<TakeoverMessage("InitTakeoverAck", target)>>))
     /\ UNCHANGED <<running, startup, mentor, pes, mcast, keepAlive, spent>>

\* r continues its own takeover of the target.
ContinueOwnTakeover(r, s) ==
  LET target == Head(net[s][r]).target
  IN /\ Received(r, s, "InitTakeover")
     /\ target # r
     /\ peers[r][target].TakeoverProcess
     /\ ~GivesWay(r, s)
     /\ ReceiveAndSend(r, s, Silence)
     /\ UNCHANGED <<running, startup, mentor, peers, pes, mcast, keepAlive,
                    spent>>

HandleENRPInitTakeover(r, s) ==
  \/ InitTakeoverOfMe(r, s)
  \/ AgreeToTakeover(r, s)
  \/ ContinueOwnTakeover(r, s)

-----------------------------------------------------------------------------
(* registrarHandleENRPInitTakeoverAck *)

\* Mutation of TakeoverServerToAllPeers: only the target is told.
TakeoverServerToTarget(r, target) ==
  IF MSG_SEND_TO_ALL
    THEN ToPeer(target, <<TakeoverMessage("TakeoverServer", target)>>)
    ELSE Silence

\* registrarSendENRPTakeoverServerToAllPeers: the messages are sent without an
\* association and without an address.  Only an SCTP API that knows
\* MSG_SEND_TO_ALL can deliver them.
TakeoverServerToAllPeers(r, target) ==
  IF MSG_SEND_TO_ALL
    THEN ToAll(r, TakeoverMessage("TakeoverServer", target))
    ELSE Silence

\* Mutation of TakenOverPEs: the expiry timer is kept.
TakenOverPEsExpiring(r, target) == UpdateOwnership(pes[r], target, r)

\* registrarFinishTakeover: r becomes the home of the target's PEs, tells them
\* so, and waits for their answers.
TakenOverPEs(r, target) ==
  [e \in PoolElement |->
     IF pes[r][e].home = target
       THEN [pes[r][e] EXCEPT !.home = r, !.TimerCode = "KEEPALIVE_TIMEOUT"]
       ELSE pes[r][e]]

\* Mutation of AcksToGo: the first acknowledgement is enough.
AcksToGoAfterFirst(r, target, s) == {}

\* takeoverProcessAcknowledge
AcksToGo(r, target, s) == peers[r][target].OutstandingAcks \ {s}

\* Some peers have not answered yet.
AwaitMoreAcks(r, s) ==
  LET target == Head(net[s][r]).target
  IN /\ Received(r, s, "InitTakeoverAck")
     /\ peers[r][target].TakeoverProcess
     /\ AcksToGo(r, target, s) # {}
     /\ peers' = [peers EXCEPT
                    ![r][target].OutstandingAcks = AcksToGo(r, target, s)]
     /\ ReceiveAndSend(r, s, Silence)
     /\ UNCHANGED <<running, startup, mentor, pes, mcast, keepAlive, spent>>

\* All peers have agreed: the takeover is finished, the target is forgotten.
FinishTakeover(r, s) ==
  LET target == Head(net[s][r]).target
  IN /\ Received(r, s, "InitTakeoverAck")
     /\ peers[r][target].TakeoverProcess
     /\ AcksToGo(r, target, s) = {}
     /\ pes' = [pes EXCEPT ![r] = TakenOverPEs(r, target)]
     /\ keepAlive' = keepAlive \cup ({r} \X OwnedBy(r, target))
     /\ peers' = [peers EXCEPT ![r][target] = NoPeer]
     /\ ReceiveAndSend(r, s, TakeoverServerToAllPeers(r, target))
     /\ UNCHANGED <<running, startup, mentor, mcast, spent>>

\* There is no such takeover (any more).
IgnoreAck(r, s) ==
  /\ Received(r, s, "InitTakeoverAck")
  /\ ~peers[r][Head(net[s][r]).target].TakeoverProcess
  /\ ReceiveAndSend(r, s, Silence)
  /\ UNCHANGED <<running, startup, mentor, peers, pes, mcast, keepAlive, spent>>

HandleENRPInitTakeoverAck(r, s) ==
  \/ AwaitMoreAcks(r, s)
  \/ FinishTakeover(r, s)
  \/ IgnoreAck(r, s)

-----------------------------------------------------------------------------
(* registrarHandleENRPTakeoverServer: s is the new home of the target's PEs *)

HandleENRPTakeoverServer(r, s) ==
  /\ Received(r, s, "TakeoverServer")
  /\ pes' = [pes EXCEPT
               ![r] = UpdateOwnership(@, Head(net[s][r]).target, s)]
  /\ ReceiveAndSend(r, s, Silence)
  /\ UNCHANGED <<running, startup, mentor, peers, mcast, keepAlive, spent>>
=============================================================================
