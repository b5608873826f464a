------------------------------ MODULE Registrar ------------------------------
(***************************************************************************)
(* The registrars of an operation scope: their message handlers and timers *)
(* (rspregistrar-core.c dispatches to them), crashes, starts and the       *)
(* failures of the network between them.                                   *)
(***************************************************************************)
EXTENDS RegistrarENRP, RegistrarASAP

-----------------------------------------------------------------------------
(* Initial states: the registrars in Established form a connected group     *)
(* that agrees on the PEs registered; the others are down.                  *)

ConnectedPeer ==
  [NewPeer EXCEPT !.TimerCode = "LAST_HEARD", !.Status = {"LISTSYNC"}]

InitialPE(r, e) ==
  IF r \notin Established \/ InitialHome[e] = UNDEFINED
    THEN NoPE
    ELSE [NoPE EXCEPT !.home = InitialHome[e],
                      !.TimerCode = IF InitialHome[e] = r
                                      THEN "KEEPALIVE_TRANSMISSION"
                                      ELSE "EXPIRY"]

Init ==
  /\ running = Established
  /\ startup = [r \in Registrar |-> r \notin Established]
  /\ mentor = [r \in Registrar |-> UNDEFINED]
  /\ peers = [r \in Registrar |-> [p \in Registrar |->
                IF r # p /\ {r, p} \subseteq Established
                  THEN ConnectedPeer
                  ELSE NoPeer]]
  /\ pes = [r \in Registrar |-> [e \in PoolElement |-> InitialPE(r, e)]]
  /\ net = [r \in Registrar |-> Silence]
  /\ mcast = {}
  /\ keepAlive = {}
  /\ spent = [k \in EventKind |-> 0]

-----------------------------------------------------------------------------
(* Failures and starts *)

\* r fails, with all its state and the messages on their way to it.
Crash(r) ==
  /\ r \in running
  /\ Spend("crash")
  /\ running' = running \ {r}
  /\ startup' = [startup EXCEPT ![r] = TRUE]
  /\ mentor' = [mentor EXCEPT ![r] = UNDEFINED]
  /\ peers' = [peers EXCEPT ![r] = [p \in Registrar |-> NoPeer]]
  /\ pes' = [pes EXCEPT ![r] = [e \in PoolElement |-> NoPE]]
  /\ net' = [s \in Registrar |-> [net[s] EXCEPT ![r] = <<>>]]
  /\ mcast' = mcast \ (Registrar \X {r})
  /\ keepAlive' = keepAlive \ ({r} \X PoolElement)

\* registrarNew: r starts with an empty handlespace and without peers.
Start(r) ==
  /\ r \notin running
  /\ Spend("start")
  /\ running' = running \cup {r}
  /\ UNCHANGED <<startup, mentor, peers, pes, net, mcast, keepAlive>>

\* The association from s to r fails; what is on its way to r is lost.
LoseAssociation(r, s) ==
  /\ net[s][r] # <<>>
  /\ Spend("loss")
  /\ net' = [net EXCEPT ![s][r] = <<>>]
  /\ UNCHANGED <<running, startup, mentor, peers, pes, mcast, keepAlive>>

\* A multicast Presence is lost.
LoseMulticast(r, s) ==
  /\ <<s, r>> \in mcast
  /\ mcast' = mcast \ {<<s, r>>}
  /\ UNCHANGED <<running, startup, mentor, peers, pes, net, keepAlive, spent>>

-----------------------------------------------------------------------------
\* registrarHandleMessage: the handler of the first message r has from s.
HandleMessage(r, s) ==
  \/ HandleMulticastPresence(r, s)
  \/ HandleENRPPresence(r, s)
  \/ HandleENRPHandleUpdate(r, s)
  \/ HandleENRPListRequest(r, s)
  \/ HandleENRPListResponse(r, s)
  \/ HandleENRPHandleTableRequest(r, s)
  \/ HandleENRPHandleTableResponse(r, s)
  \/ HandleENRPInitTakeover(r, s)
  \/ HandleENRPInitTakeoverAck(r, s)
  \/ HandleENRPTakeoverServer(r, s)

Next ==
  \/ \E r \in Registrar :
       \/ Crash(r)
       \/ Start(r)
       \/ HandleENRPAnnounceTimer(r)
  \/ \E r, s \in Registrar :
       \/ HandleMessage(r, s)
       \/ HandlePeerEvent(r, s)
       \/ LoseAssociation(r, s)
       \/ LoseMulticast(r, s)
  \/ \E r \in Registrar, e \in PoolElement :
       \/ \E a \in Association : HandleASAPRegistration(r, e, a)
       \/ HandleASAPDeregistration(r, e)
       \/ HandlePoolElementEvent(r, e)
       \/ HandleASAPEndpointKeepAliveAck(r, e)
       \/ HandleASAPEndpointUnreachable(r, e)
  \/ \E r \in Registrar, a \in Association : AssociationLost(r, a)

Spec == Init /\ [][Next]_vars

-----------------------------------------------------------------------------
(* Fairness.  The dispatcher polls all sockets and timers, so that a message *)
(* that has arrived is handled and a timer that stays armed expires: the     *)
(* announce timer is restarted by its own handler, the timer of a peer only  *)
(* by a message of that peer, and the timer of a PE without home by nobody.  *)
(* A peer that multicasts again and again is heard.  Nothing else has to     *)
(* happen.                                                                   *)

Fairness ==
  \A r \in Registrar :
    /\ \A s \in Registrar \ {r} :
         /\ WF_vars(HandleMessage(r, s))
         /\ WF_vars(s \notin running /\ HandlePeerEvent(r, s))
         /\ ENRPAnnounceViaMulticast => SF_vars(HandleMulticastPresence(r, s))
    /\ WF_vars(HandleENRPAnnounceTimer(r))
    /\ \A e \in PoolElement :
         WF_vars(Orphaned(e) /\ PoolElementTimeout(r, e))

FairSpec == Spec /\ Fairness
=============================================================================
