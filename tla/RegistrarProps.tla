--------------------------- MODULE RegistrarProps ---------------------------
(***************************************************************************)
(* What the registrars promise.                                            *)
(***************************************************************************)
EXTENDS Registrar

-----------------------------------------------------------------------------
(* Each registrar by itself *)

\* Every variable has its type.  In particular, a PE that is still registered
\* has had fewer than MaxBadPEReports reports, see
\* registrarHandleASAPEndpointUnreachable.
TypeOK ==
  /\ running \subseteq Registrar
  /\ startup \in [Registrar -> BOOLEAN]
  /\ mentor \in [Registrar -> Registrar \cup {UNDEFINED}]
  /\ peers \in [Registrar -> [Registrar -> PeerListNode]]
  /\ pes \in [Registrar -> [PoolElement -> PoolElementNode]]
  /\ net \in [Registrar -> [Registrar -> Seq(Message)]]
  /\ mcast \subseteq Registrar \X Registrar
  /\ keepAlive \subseteq Registrar \X PoolElement
  /\ spent \in [EventKind -> Nat]

\* No failed peer stays in a peer list for ever, whatever sequence of suspicion,
\* takeover, negotiation, cancellation and sign of life its entry goes through:
\* each handler that stops the entry's timer starts the next one or removes the
\* entry; a takeover is under way exactly while its expiry timer runs (otherwise
\* the CHECK in registrarHandlePeerEvent ends the program); and a takeover waits
\* neither for its target nor for its initiator, which would never agree
\* (takeoverProcessNew, rspregistrar-enrp.c, rspregistrar-takeover.c).
PeersSupervised ==
  \A r, p \in Registrar :
    /\ peers[r][p].known <=> peers[r][p].TimerCode # "none"
    /\ peers[r][p].TakeoverProcess <=> peers[r][p].TimerCode = "TAKEOVER_EXPIRY"
    /\ peers[r][p].OutstandingAcks \cap {r, p} = {}

\* No failed PE stays in a handlespace for ever, however it came in, by
\* registration, update, handle table or takeover: it has a timer, and the
\* registrar that is its home monitors it by keep-alives.  No update or handle
\* table of a peer leaves a registrar with an own PE that only has an expiry
\* timer (rspregistrar-asap.c, registrarFinishTakeover).
PEsSupervised ==
  \A r \in Registrar, e \in PoolElement :
    /\ pes[r][e].home # UNDEFINED <=> pes[r][e].TimerCode # "none"
    /\ pes[r][e].home = r =>
         pes[r][e].TimerCode \in {"KEEPALIVE_TRANSMISSION", "KEEPALIVE_TIMEOUT"}

-----------------------------------------------------------------------------
(* Takeover *)

\* Two registrars never both consider themselves the home of a PE: of several
\* registrars that want to take over the same peer, at most one gets the
\* acknowledgements of all others (registrarHandleENRPInitTakeover).
OneOwner ==
  \A r, q \in running, e \in PoolElement :
    pes[r][e].home = r /\ pes[q][e].home = q => r = q

\* The home of a PE is the registrar that considers itself to be it.
Owner(e) ==
  IF \E r \in running : pes[r][e].home = r
    THEN CHOOSE r \in running : pes[r][e].home = r
    ELSE UNDEFINED

Abstract == INSTANCE Ownership WITH
  NoOwner <- UNDEFINED, up <- running, owner <- [e \in PoolElement |-> Owner(e)]

\* The takeover procedure implements Ownership: PEs change their home only after
\* it has failed, and only to a registrar that is up (registrarFinishTakeover).
ImplementsOwnership == Abstract!Spec

\* The network is quiet: no message between registrars is under way.
Quiet == \A r, s \in Registrar : net[r][s] = <<>>

\* Once the TakeoverServer messages have been handled, no registrar believes in
\* another home of a PE than the one that has taken it over, unless an
\* association has failed with messages on it
\* (registrarHandleENRPTakeoverServer).
TakeoverKnown ==
  Quiet /\ spent["loss"] = 0 =>
    \A r, q \in running, e \in PoolElement :
      pes[r][e].home = r => pes[q][e].home \in {r, UNDEFINED}

\* A registrar that takes over a failed one and has nobody left to ask becomes the
\* home of its PEs: no takeover ends without success while no acknowledgement is
\* outstanding (registrarHandlePeerEvent).
SurvivorTakesOver ==
  [][\A r, p \in Registrar :
       /\ peers[r][p].TakeoverProcess /\ peers[r][p].OutstandingAcks = {}
       /\ r \in running' /\ p \notin running
       /\ ~peers'[r][p].known
       => \A e \in OwnedBy(r, p) : pes'[r][e].home = r]_vars

-----------------------------------------------------------------------------
(* Handlespace synchronization *)

\* The number of messages of a type that are under way from r to s.
Pending(r, s, type) ==
  Cardinality({i \in DOMAIN net[r][s] : net[r][s][i].type = type})

\* A registrar that has noted a synchronization with a peer as being in progress
\* (PLNS_HTSYNC, which suppresses the audit in registrarHandleENRPPresence) is
\* going to get the peer's next HandleTableResponse: exactly one request or
\* response is under way between the two.
SyncUnderWay ==
  \A r, s \in running :
    "HTSYNC" \in peers[r][s].Status =>
      Pending(r, s, "HandleTableRequest")
        + Pending(s, r, "HandleTableResponse") = 1

\* A HandleUpdate about e is on its way to r.
UpdateUnderWay(e, r) ==
  \E s \in Registrar : \E i \in DOMAIN net[s][r] :
    net[s][r][i].type = "HandleUpdate" /\ net[s][r][i].pe = e

\* r completes a synchronization with s in this step.
Synchronized(r, s) ==
  /\ Received(r, s, "HandleTableResponse")
  /\ ~Head(net[s][r]).reject
  /\ "HTSYNC" \in peers[r][s].Status
  /\ net'[s][r] = Tail(net[s][r])
  /\ peers'[r][s].known
  /\ "HTSYNC" \notin peers'[r][s].Status

\* When a registrar completes a synchronization with a peer, it has all PEs the
\* peer is the home of, except those about which an update is still on its way to
\* one of the two.  So the mark of registrarHandleENRPPresence and the purge of
\* registrarHandleENRPHandleTableResponse remove no PE that is still there,
\* although the table comes in several chunks, between which PEs come, go and
\* change their home.
SyncComplete ==
  [][\A r, s \in running : Synchronized(r, s) =>
       \A e \in OwnedBy(s, s) : \/ pes'[r][e].home # UNDEFINED
                                \/ UpdateUnderWay(e, r)'
                                \/ UpdateUnderWay(e, s)']_vars

\* A synchronization that is in progress ends: the chunks of a handle table are
\* finitely many (registrarHandleENRPHandleTableRequest).
SyncTerminates ==
  \A r, s \in Registrar :
    "HTSYNC" \in peers[r][s].Status ~> "HTSYNC" \notin peers[r][s].Status

\* Eventually, every registrar knows the PEs of every other one: what the
\* updates do not achieve, the audit by the checksum in the Presence does.
HandlespacesConverge ==
  <>[](\A r, q \in running : OwnedBy(r, q) = OwnedBy(q, q))

-----------------------------------------------------------------------------
(* Startup and failure *)

\* A registrar that begins its normal operation with the handlespace of its mentor
\* has got all of it: every PE the mentor knows, whoever is the home of it, except
\* those about which an update is still on its way to one of the two, and those
\* the mentor still believes to be its own, from before a restart
\* (registrarBeginNormalOperation in registrarHandleENRPHandleTableResponse).
MentorComplete ==
  [][\A r \in running :
       LET s == mentor[r]
       IN /\ startup[r] /\ ~startup'[r]
          /\ s \in running
          /\ net'[s][r] # net[s][r]
          => \A e \in Registered(s) \ OwnedBy(s, r) :
               \/ pes'[r][e].home # UNDEFINED
               \/ UpdateUnderWay(e, r)'
               \/ UpdateUnderWay(e, s)']_vars

\* Eventually, the registrars that are up know each other: the multicast
\* Presences, the mentor's peer list and the peer list synchronization see to it.
PeerListsConverge ==
  <>[](\A r, q \in running : r # q => peers[r][q].known)

\* Eventually, a registrar that has failed is no longer in any peer list, also
\* if its takeover does not succeed (registrarHandlePeerEvent).
DeadForgotten ==
  <>[](\A r \in running, p \in Registrar \ running : ~peers[r][p].known)

\* Eventually, no PE has a home that has failed: another registrar has taken it
\* over, or its registration has expired.
NoOrphans ==
  <>[](\A r \in running, p \in Registrar \ running : OwnedBy(r, p) = {})
=============================================================================
