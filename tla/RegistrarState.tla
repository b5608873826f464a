---------------------------- MODULE RegistrarState ----------------------------
(***************************************************************************)
(* The state of a set of RSerPool registrars (PRs) of one operation scope  *)
(* and the operations on their two data structures: the peer list          *)
(* (peerlist*.h) and the handlespace (poolhandlespace*.h).  The message    *)
(* handlers that use them are in RegistrarTakeover, RegistrarENRP and      *)
(* RegistrarASAP, one module per C file; Registrar composes them.          *)
(*                                                                         *)
(* Registrar and pool element (PE) identifiers are positive integers: the  *)
(* code compares both kinds, and 0 is UNDEFINED_REGISTRAR_IDENTIFIER.  All *)
(* PEs are members of one pool.  Peer list entries are dynamic ones.       *)
(***************************************************************************)
EXTENDS Naturals, Sequences, FiniteSets

CONSTANTS
  Registrar,               \* registrar identifiers
  PoolElement,             \* PE identifiers
  Association,             \* ids of the SCTP associations between PEs and a PR
  MaxElementsPerHTRequest, \* PEs per HandleTableResponse
  MaxBadPEReports,         \* EndpointUnreachable reports that remove a PE
  MSG_SEND_TO_ALL,         \* the SCTP API of the build can send to all peers
  ENRPAnnounceViaMulticast,\* Presence is multicast, too
  ENRPSupportTakeoverSuggestion,
  UsefulPeer(_, _, _),     \* the peer XOR-closest to a PE, or 0 if it is us
  Established,             \* registrars that are already running and connected
  InitialHome,             \* home of the PEs already registered, or 0
  Bound,                   \* the mixes of environment events of an instance
  Recurring,               \* the kinds of events that are not counted
  MaxQueue                 \* messages queued on an association

UNDEFINED == 0

\* The events whose number a finite instance has to limit.
EventKind == {"announce", "probe", "suspect", "crash", "start", "loss",
              "register", "deregister", "keepalive", "petimeout", "commlost",
              "unreachable"}

ASSUME RegistrarAssumption == Registrar \subseteq Nat \ {0}
\* There are finitely many PEs: any set of them has a number of elements.
ASSUME PoolElementAssumption ==
  /\ PoolElement \subseteq Nat \ {0}
  /\ \A S \in SUBSET PoolElement : Cardinality(S) \in Nat
ASSUME AssociationAssumption == Association \subseteq Nat \ {0}
ASSUME LimitAssumption ==
  /\ MaxElementsPerHTRequest \in Nat \ {0}
  /\ MaxBadPEReports \in Nat \ {0}
  /\ MaxQueue \in Nat
ASSUME OptionAssumption ==
  /\ MSG_SEND_TO_ALL \in BOOLEAN
  /\ ENRPAnnounceViaMulticast \in BOOLEAN
  /\ ENRPSupportTakeoverSuggestion \in BOOLEAN
ASSUME UsefulPeerAssumption ==
  \A r \in Registrar, e \in PoolElement, S \in SUBSET Registrar :
    UsefulPeer(r, S, e) \in S \cup {UNDEFINED}
ASSUME InitialAssumption ==
  /\ Established \subseteq Registrar
  /\ InitialHome \in [PoolElement -> Established \cup {UNDEFINED}]
ASSUME BoundAssumption ==
  /\ Bound \subseteq [EventKind -> Nat]
  /\ Recurring \subseteq EventKind

VARIABLES
  running,    \* the registrars that are up
  startup,    \* InStartupPhase of each registrar
  mentor,     \* MentorServerID of each registrar
  peers,      \* the peer list: peers[r][p] is the entry r has for p
  pes,        \* the handlespace: pes[r][e] is the entry r has for e
  net,        \* net[r][d]: ENRP messages from r to d on their association
  mcast,      \* multicast Presences under way, as pairs <<sender, receiver>>
  keepAlive,  \* <<r, e>>: r has sent EndpointKeepAlives e may still answer
  spent       \* events of each kind that have happened

vars == <<running, startup, mentor, peers, pes, net, mcast, keepAlive, spent>>

-----------------------------------------------------------------------------
(* Data types *)

PeerTimer == {"none", "LAST_HEARD", "NO_RESPONSE", "TAKEOVER_EXPIRY"}
PeerStatus == {"LISTSYNC", "HTSYNC", "MENTOR"}

\* struct PeerListNode.  TakeoverProcess says whether the pointer is set,
\* OutstandingAcks are the peers it waits for.  UserData is the PE at which the
\* last HandleTableResponse to this peer ended, 0 if no extraction is pending.
PeerListNode ==
  [known : BOOLEAN, TimerCode : PeerTimer, Status : SUBSET PeerStatus,
   TakeoverRegistrarID : Registrar \cup {UNDEFINED},
   TakeoverProcess : BOOLEAN, OutstandingAcks : SUBSET Registrar,
   UserData : PoolElement \cup {0}]

PETimer == {"none", "KEEPALIVE_TRANSMISSION", "KEEPALIVE_TIMEOUT", "EXPIRY"}

\* struct PoolElementNode.  A PE that is not registered has home UNDEFINED.
PoolElementNode ==
  [home : Registrar \cup {UNDEFINED}, TimerCode : PETimer, marked : BOOLEAN,
   connection : Association \cup {0}, reports : 0 .. (MaxBadPEReports - 1)]

\* The ENRP messages.  The sender is the association they arrive on.  The
\* ownership checksum of a Presence is represented by the set of the PEs it is
\* computed over.
Message ==
  [type : {"Presence"}, reply : BOOLEAN, checksum : SUBSET PoolElement]
  \cup [type : {"ListRequest"}]
  \cup [type : {"ListResponse"}, list : SUBSET Registrar]
  \cup [type : {"HandleTableRequest"}, ownChildrenOnly : BOOLEAN]
  \cup [type : {"HandleTableResponse"}, reject : BOOLEAN, more : BOOLEAN,
        table : [PoolElement -> Registrar \cup {UNDEFINED}]]
  \cup [type : {"HandleUpdate"}, action : {"ADD_PE", "DEL_PE"},
        pe : PoolElement, home : Registrar, suggested : BOOLEAN]
  \cup [type : {"InitTakeover", "InitTakeoverAck", "TakeoverServer"},
        target : Registrar]

-----------------------------------------------------------------------------
(* Environment events *)

\* One more event of kind k happens: all events so far stay within one of the
\* mixes in Bound, which limit how often each kind happens.
Spend(k) ==
  IF k \in Recurring
    THEN UNCHANGED spent
    ELSE /\ spent' = [spent EXCEPT ![k] = @ + 1]
         /\ \E limit \in Bound : \A j \in EventKind : spent'[j] <= limit[j]

-----------------------------------------------------------------------------
(* The peer list *)

\* No entry.
NoPeer ==
  [known |-> FALSE, TimerCode |-> "none", Status |-> {},
   TakeoverRegistrarID |-> UNDEFINED, TakeoverProcess |-> FALSE,
   OutstandingAcks |-> {}, UserData |-> 0]

\* The entry peerListNodeNew creates.
NewPeer == [NoPeer EXCEPT !.known = TRUE]

\* The entry after a registration: an existing entry keeps its state.
RegisterPeer(node) == IF node.known THEN node ELSE NewPeer

Peers(r) == {p \in Registrar : peers[r][p].known}

-----------------------------------------------------------------------------
(* The handlespace *)

NoPE ==
  [home |-> UNDEFINED, TimerCode |-> "none", marked |-> FALSE,
   connection |-> 0, reports |-> 0]

Registered(r) == {e \in PoolElement : pes[r][e].home # UNDEFINED}

\* The PEs registrar r believes to be owned by h, and the ownership checksum
\* over them.
OwnedBy(r, h) == {e \in PoolElement : pes[r][e].home = h}

\* Mutation of RegisterPE: an update does not clear the mark.
RegisterPEMarked(node, home, connection) ==
  [node EXCEPT !.home = home, !.connection = connection]

\* poolHandlespaceManagementRegisterPoolElement: a new entry, or an update of
\* the existing one, which clears the mark and replaces connection and owner.
RegisterPE(node, home, connection) ==
  [node EXCEPT !.home = home, !.marked = FALSE, !.connection = connection]

\* poolHandlespaceManagementMarkPoolElementNodes
MarkPEs(handlespace, owner) ==
  [e \in PoolElement |->
     IF handlespace[e].home = owner
       THEN [handlespace[e] EXCEPT !.marked = TRUE]
       ELSE handlespace[e]]

\* poolHandlespaceManagementPurgeMarkedPoolElementNodes
PurgeMarkedPEs(handlespace, owner) ==
  [e \in PoolElement |->
     IF handlespace[e].home = owner /\ handlespace[e].marked
       THEN NoPE
       ELSE handlespace[e]]

\* poolHandlespaceNodeUpdateOwnershipOfPoolElementNode for every PE of an owner
UpdateOwnership(handlespace, owner, newOwner) ==
  [e \in PoolElement |->
     IF handlespace[e].home = owner
       THEN [handlespace[e] EXCEPT !.home = newOwner]
       ELSE handlespace[e]]

\* The n elements of S that come first in the order of the identifiers.
FirstElements(S, n) == {e \in S : Cardinality({x \in S : x < e}) < n}

\* getOwnershipHandleTable: the candidates for the next chunk of r's own PEs.
\* After the last one of them, the ownership index goes on with the PEs of the
\* next higher registrar.
OwnershipCandidates(r, last) ==
  LET own  == {e \in OwnedBy(r, r) : e > last}
      next == {h \in Registrar : h > r /\ OwnedBy(r, h) # {}}
  IN IF last = 0 \/ own # {}
       THEN own
       ELSE {e \in PoolElement :
               \E h \in next : /\ \A x \in next : h <= x
                               /\ e \in OwnedBy(r, h)}

\* getGlobalHandleTable: the candidates for the next chunk of all PEs.
GlobalCandidates(r, last) == {e \in Registered(r) : e > last}

-----------------------------------------------------------------------------
(* Sending.  An output maps each registrar to the messages sent to it. *)

Silence == [d \in Registrar |-> <<>>]

ToPeer(d, messages) == [Silence EXCEPT ![d] = messages]

ToAll(r, message) ==
  [d \in Registrar |-> IF d \in Peers(r) THEN <<message>> ELSE <<>>]

\* Two outputs, one after the other.
Then(out1, out2) == [d \in Registrar |-> out1[d] \o out2[d]]

\* r sends out; what is sent to a registrar that is down is lost.
Send(r, out) ==
  net' = [net EXCEPT ![r] = [d \in Registrar |->
            IF d \in running THEN @[d] \o out[d] ELSE @[d]]]

\* r takes the first message from s and sends out.
ReceiveAndSend(r, s, out) ==
  net' = [net EXCEPT ![s][r] = Tail(@),
                     ![r] = [d \in Registrar |->
            IF d \in running THEN @[d] \o out[d] ELSE @[d]]]

\* The message r receives from s.  A registrar skips its own messages.
Received(r, s, type) ==
  /\ r \in running
  /\ s # r
  /\ net[s][r] # <<>>
  /\ Head(net[s][r]).type = type

PresenceMessage(r, replyRequired) ==
  [type |-> "Presence", reply |-> replyRequired, checksum |-> OwnedBy(r, r)]

\* registrarSendENRPPresenceToAllPeers
PresenceToAllPeers(r) == ToAll(r, PresenceMessage(r, FALSE))

\* Mutation of MulticastPresence: only during the startup phase.
MulticastPresenceOnce(r) ==
  mcast' = IF ENRPAnnounceViaMulticast /\ startup[r]
             THEN mcast \cup {<<r, d>> : d \in running \ {r}}
             ELSE mcast

\* registrarSendENRPPresence to the multicast group, if it is used
MulticastPresence(r) ==
  mcast' = IF ENRPAnnounceViaMulticast
             THEN mcast \cup {<<r, d>> : d \in running \ {r}}
             ELSE mcast

HandleUpdateMessage(e, home, action) ==
  [type |-> "HandleUpdate", action |-> action, pe |-> e, home |-> home,
   suggested |-> FALSE]

\* registrarSendENRPHandleUpdate: the update goes to all peers and, if PEs are
\* to be balanced, an addition once more to the peer that should take the PE.
HandleUpdate(r, e, home, action) ==
  LET message == HandleUpdateMessage(e, home, action)
      better  == UsefulPeer(r, Peers(r), e)
  IN IF /\ ENRPSupportTakeoverSuggestion
        /\ action = "ADD_PE"
        /\ home = r
        /\ better # UNDEFINED
       THEN Then(ToAll(r, message),
                 ToPeer(better, <<[message EXCEPT !.suggested = TRUE]>>))
       ELSE ToAll(r, message)
=============================================================================
