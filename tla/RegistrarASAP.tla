---------------------------- MODULE RegistrarASAP ----------------------------
(***************************************************************************)
(* The ASAP side of a registrar (rspregistrar-asap.c): registration,       *)
(* deregistration and supervision of the PEs.  What PEs and pool users     *)
(* send is an input that may arrive at any time.  Requests that name a PE  *)
(* the registrar does not have are answered and change nothing.            *)
(***************************************************************************)
EXTENDS RegistrarState

\* r removes the PEs in S from its handlespace.
RemovePEs(r, S) ==
  pes' = [pes EXCEPT ![r] = [e \in PoolElement |->
            IF e \in S THEN NoPE ELSE @[e]]]

\* The removal of a PE is announced by its owner.
RemovalUpdate(r, e) ==
  IF pes[r][e].home = r THEN HandleUpdate(r, e, r, "DEL_PE") ELSE Silence

-----------------------------------------------------------------------------
(* registrarHandleASAPRegistration: a PE registers, or registers again.     *)

HandleASAPRegistration(r, e, association) ==
  /\ r \in running
  /\ Spend("register")
  /\ pes' = [pes EXCEPT ![r][e] =
               [RegisterPE(@, r, association) EXCEPT
                  !.TimerCode = "KEEPALIVE_TRANSMISSION"]]
  /\ Send(r, HandleUpdate(r, e, r, "ADD_PE"))
  /\ UNCHANGED <<running, startup, mentor, peers, mcast, keepAlive>>

(* registrarHandleASAPDeregistration: the removal is announced as one of an *)
(* own PE, whatever the home of the PE is.                                  *)

HandleASAPDeregistration(r, e) ==
  /\ r \in running
  /\ e \in Registered(r)
  /\ Spend("deregister")
  /\ RemovePEs(r, {e})
  /\ Send(r, HandleUpdate(r, e, r, "DEL_PE"))
  /\ UNCHANGED <<running, startup, mentor, peers, mcast, keepAlive>>

-----------------------------------------------------------------------------
(* registrarHandlePoolElementEvent: the timer of a PE expires. *)

\* PENT_KEEPALIVE_TRANSMISSION
KeepAliveTransmission(r, e) ==
  /\ r \in running
  /\ pes[r][e].TimerCode = "KEEPALIVE_TRANSMISSION"
  /\ Spend("keepalive")
  /\ pes' = [pes EXCEPT ![r][e].TimerCode = "KEEPALIVE_TIMEOUT"]
  /\ keepAlive' = keepAlive \cup {<<r, e>>}
  /\ UNCHANGED <<running, startup, mentor, peers, net, mcast>>

\* No registrar is the home of e any more: nobody updates the entries for e.
Orphaned(e) == \A h \in running : pes[h][e].home # h

\* PENT_KEEPALIVE_TIMEOUT and PENT_EXPIRY.  The association of a PE that does
\* not answer is aborted, see AssociationLost.  Unless the PE has no home
\* any more, this is an event that is counted.
PoolElementTimeout(r, e) ==
  /\ r \in running
  /\ pes[r][e].TimerCode \in {"KEEPALIVE_TIMEOUT", "EXPIRY"}
  /\ IF Orphaned(e) THEN UNCHANGED spent ELSE Spend("petimeout")
  /\ Send(r, RemovalUpdate(r, e))
  /\ RemovePEs(r, {e})
  /\ UNCHANGED <<running, startup, mentor, peers, mcast, keepAlive>>

HandlePoolElementEvent(r, e) ==
  KeepAliveTransmission(r, e) \/ PoolElementTimeout(r, e)

(* registrarHandleASAPEndpointKeepAliveAck *)

HandleASAPEndpointKeepAliveAck(r, e) ==
  /\ r \in running
  /\ <<r, e>> \in keepAlive
  /\ keepAlive' = keepAlive \ {<<r, e>>}
  /\ pes' = [pes EXCEPT ![r][e].TimerCode =
               IF e \in Registered(r) THEN "KEEPALIVE_TRANSMISSION" ELSE @]
  /\ UNCHANGED <<running, startup, mentor, peers, net, mcast, spent>>

-----------------------------------------------------------------------------
(* registrarRemovePoolElementsOfConnection, called by                       *)
(* registrarHandleSocketEvent when an association is lost or shut down.     *)

\* The PEs of an association, in the order of the connection index.
PEsOfConnection(r, association) ==
  {e \in PoolElement : pes[r][e].connection = association}

InOrder(q) == \A i, j \in DOMAIN q : i < j => q[i] < q[j]

\* The removals of the PEs r owns are announced one by one.
AssociationLost(r, association) ==
  LET S   == PEsOfConnection(r, association)
      own == S \cap OwnedBy(r, r)
  IN /\ r \in running
     /\ S # {}
     /\ Spend("commlost")
     /\ \E q \in [1 .. Cardinality(own) -> own] :
          /\ InOrder(q)
          /\ Send(r, [d \in Registrar |->
               IF d \in Peers(r)
                 THEN [i \in 1 .. Cardinality(own) |->
                         HandleUpdateMessage(q[i], r, "DEL_PE")]
                 ELSE <<>>])
     /\ RemovePEs(r, S)
     /\ UNCHANGED <<running, startup, mentor, peers, mcast, keepAlive>>

-----------------------------------------------------------------------------
(* registrarHandleASAPEndpointUnreachable: a pool user could not reach e.   *)

\* Mutation of BadReports: one report more is tolerated.
BadReportsLate(reports) == reports > MaxBadPEReports

\* Are these so many reports that the PE is removed?
BadReports(reports) == reports >= MaxBadPEReports

HandleASAPEndpointUnreachable(r, e) ==
  LET reports == pes[r][e].reports + 1
  IN /\ r \in running
     /\ e \in Registered(r)
     /\ Spend("unreachable")
     /\ IF BadReports(reports)
          THEN /\ Send(r, RemovalUpdate(r, e))
               /\ RemovePEs(r, {e})
          ELSE /\ pes' = [pes EXCEPT ![r][e].reports = reports]
               /\ UNCHANGED net
     /\ UNCHANGED <<running, startup, mentor, peers, mcast, keepAlive>>
=============================================================================
