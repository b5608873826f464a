---------------------------- MODULE Handlespace -----------------------------
(***************************************************************************)
(* The handlespace of a registrar (poolhandlespacenode-template_impl.h,    *)
(* poolhandlespacemanagement-template_impl.h) and its peer list            *)
(* (peerlist-template_impl.h, peerlistmanagement-template_impl.h).         *)
(*                                                                         *)
(* A pool element node is linked into several storages at once: the index  *)
(* of its pool, the timer, the ownership and the connection storage of the *)
(* handlespace.  Each is a search tree over fields of the node, so an      *)
(* entry here is the key the node was linked with, and a field that        *)
(* changes under a linked node leaves a stale entry behind.  The           *)
(* handlespace also keeps counters and checksums, updated with every       *)
(* change, and tells the peer list, which keeps the ownership checksum of  *)
(* every peer the same way.  Registrars compare these checksums to find    *)
(* out whether they have to synchronise.                                   *)
(***************************************************************************)
EXTENDS Integers, FiniteSetsExt

CONSTANTS Identity,      \* pool elements: the sum of the words of the pool
                         \* handle, and the identifier in the pool
          OwnID,         \* the registrar itself
          PeerID,        \* other registrars
          PeerAddress,   \* addresses of other registrars
          Connection,    \* associations pool elements register over; 0 is none
          ChecksumRange, \* numbers a checksum can have, 2^16
          Time,          \* time stamps of expiry timers
          MaxElements    \* registered pool elements at a time

ASSUME HandlespaceAssumption ==
  /\ Identity \subseteq (Nat \ {0}) \X (Nat \ {0})
  /\ OwnID \in Nat \ {0} /\ PeerID \subseteq Nat \ {0, OwnID}
  /\ PeerAddress \subseteq Nat /\ Connection \subseteq Nat /\ Time \subseteq Nat
  /\ ChecksumRange \in Nat \ {0, 1} /\ MaxElements \in Nat
  /\ IsFiniteSet(Identity) /\ IsFiniteSet(PeerID)

VARIABLE store   \* the handlespace and the peer list

UndefinedID == 0

-----------------------------------------------------------------------------
(* Checksums: sums of 16-bit words in a 32-bit accumulator, and what is    *)
(* sent of them.                                                           *)

Accumulator == ChecksumRange * ChecksumRange

ChecksumAdd(a, b) == (a + b) % Accumulator

ChecksumSub(a, b) == (a - b) % Accumulator

\* Carries are added until none is left; then the complement.
ChecksumFinish(sum) ==
  LET fold[s \in 0 .. Accumulator - 1] ==
        IF s < ChecksumRange THEN s ELSE fold[(s % ChecksumRange) + (s \div ChecksumRange)]
  IN ChecksumRange - 1 - fold[sum]

\* The words of the pool handle and of the identifier.
ComputeChecksum(pe) == (pe[1] + pe[2]) % Accumulator

ComputeSum(pes) ==
  SumFunctionOnSet([pe \in Identity |-> ComputeChecksum(pe)], pes) % Accumulator

-----------------------------------------------------------------------------
(* The handlespace node.                                                   *)

NewHandlespace ==
  [pools |-> {}, node |-> [pe \in {} |-> 0],
   owners |-> {}, connections |-> {}, timers |-> {},
   elements |-> 0, owned |-> 0, sum |-> 0, ownSum |-> 0, peers |-> {}]

\* The ownership nodes of a registrar: the entries with its identifier.
OwnershipNodes(h, home) == {e[2] : e \in {o \in h.owners : o[1] = home}}

ConnectionNodes(h, c) == {e[2] : e \in {o \in h.connections : o[1] = c}}

ComputeOwnershipChecksum(h, home) == ComputeSum(OwnershipNodes(h, home))

\* PoolNodeUpdateNotification: the peer the element belongs to, or belonged to.
PeerSumAdd(h, home, checksum) ==
  [h EXCEPT !.peers = {IF p.id = home /\ home # UndefinedID
                         THEN [p EXCEPT !.sum = ChecksumAdd(@, checksum)] ELSE p : p \in @}]

PeerSumSub(h, home, checksum) ==
  [h EXCEPT !.peers = {IF p.id = home /\ home # UndefinedID
                         THEN [p EXCEPT !.sum = ChecksumSub(@, checksum)] ELSE p : p \in @}]

\* Adds the element to the checksum and to what is owned, and the reverse.
Count(h, home, checksum) ==
  LET own == home = OwnID
      g == [h EXCEPT !.sum = ChecksumAdd(@, checksum),
                     !.owned = IF own THEN @ + 1 ELSE @,
                     !.ownSum = IF own THEN ChecksumAdd(@, checksum) ELSE @]
  IN PeerSumAdd(g, home, checksum)

Discount(h, home, checksum) ==
  LET own == home = OwnID
      g == [h EXCEPT !.sum = ChecksumSub(@, checksum),
                     !.owned = IF own THEN @ - 1 ELSE @,
                     !.ownSum = IF own THEN ChecksumSub(@, checksum) ELSE @]
  IN PeerSumSub(g, home, checksum)

\* A new node: into the pool's index, and into the storages it has a key for.
AddPoolElement(h, pe, home, c) ==
  Count([h EXCEPT
           !.pools = @ \cup {pe[1]},
           !.node = [x \in DOMAIN @ \cup {pe} |->
                       IF x = pe THEN [home |-> home, connection |-> c, marked |-> FALSE,
                                       checksum |-> ComputeChecksum(pe)]
                       ELSE @[x]],
           !.elements = @ + 1,
           !.owners = IF home # UndefinedID THEN @ \cup {<<home, pe>>} ELSE @,
           !.connections = IF c > 0 THEN @ \cup {<<c, pe>>} ELSE @],
        home, ComputeChecksum(pe))

UpdateOwnership(h, pe, home) ==
  LET old == h.node[pe]
      g == IF home # old.home
             THEN [h EXCEPT !.owners = (@ \ {<<old.home, pe>>}) \cup {<<home, pe>>},
                            !.node[pe].home = home]
             ELSE h
  IN Count([Discount(g, old.home, old.checksum) EXCEPT !.node[pe].checksum = ComputeChecksum(pe)],
           home, ComputeChecksum(pe))

\* Mutation of UpdateConnection: the node stays with the old connection.
UpdateConnectionKeepingOld(h, pe, c) ==
  [h EXCEPT !.connections = @ \cup (IF c > 0 THEN {<<c, pe>>} ELSE {}),
            !.node[pe].connection = c]

UpdateConnection(h, pe, c) ==
  LET old == h.node[pe].connection
  IN IF c = old THEN h
     ELSE [h EXCEPT !.connections = (@ \ {<<old, pe>>})
                                      \cup (IF c > 0 THEN {<<c, pe>>} ELSE {}),
                    !.node[pe].connection = c]

UpdatePoolElement(h, pe, home, c) ==
  UpdateOwnership(UpdateConnection([h EXCEPT !.node[pe].marked = FALSE], pe, c), pe, home)

\* A pool element that does not fit into its pool is refused; a pool made for
\* it is removed again.
AddOrUpdatePoolElement(h, pe, home, c, compatible) ==
  IF ~compatible THEN h
  ELSE IF pe \in DOMAIN h.node THEN UpdatePoolElement(h, pe, home, c)
  ELSE AddPoolElement(h, pe, home, c)

Without(S, pe) == {e \in S : e[2] # pe}

\* Unlinks the node everywhere; an empty pool goes with its last element.
DeregisterPoolElement(h, pe) ==
  LET old == h.node[pe]
      left == DOMAIN h.node \ {pe}
  IN Discount([h EXCEPT !.timers = Without(@, pe),
                        !.owners = Without(@, pe),
                        !.connections = Without(@, pe),
                        !.node = [x \in left |-> @[x]],
                        !.elements = @ - 1,
                        !.pools = IF \E x \in left : x[1] = pe[1] THEN @ ELSE @ \ {pe[1]}],
              old.home, old.checksum)

DeregisterAll(h, pes) == FoldSet(LAMBDA pe, g : DeregisterPoolElement(g, pe), h, pes)

\* The timer is deactivated if it runs, and activated again.
RestartExpiryTimer(h, pe, time) ==
  [h EXCEPT !.timers = Without(@, pe) \cup {<<time, pe>>}]

\* From the first timer node on, until one is not expired yet.
ExpiredElements(h, now) ==
  LET waiting == {t[1] : t \in h.timers} \ {t \in Time : t <= now}
  IN {t[2] : t \in {u \in h.timers : \A w \in waiting : u[1] < w}}

PurgeExpiredPoolElements(h, now) == DeregisterAll(h, ExpiredElements(h, now))

MarkPoolElements(h, home) ==
  [h EXCEPT !.node = [pe \in DOMAIN h.node |->
     IF pe \in OwnershipNodes(h, home) THEN [h.node[pe] EXCEPT !.marked = TRUE] ELSE h.node[pe]]]

PurgeMarkedPoolElements(h, home) ==
  DeregisterAll(h, {pe \in OwnershipNodes(h, home) : h.node[pe].marked})

-----------------------------------------------------------------------------
(* The peer list.  A node is found by its identifier, or, without one, by  *)
(* its address.  Static nodes come from the configuration: they have no    *)
(* identifier until the peer at their address is heard of.                 *)

NewPeer(id, address, dynamic) ==
  [id |-> id, address |-> address, dynamic |-> dynamic, sum |-> 0]

FindPeer(h, id, address) ==
  IF id # UndefinedID THEN {p \in h.peers : p.id = id}
                      ELSE {p \in h.peers : p.address = address}

ReplacePeer(h, old, new) == [h EXCEPT !.peers = (@ \ {old}) \cup {new}]

\* Mutation of WithSum: the checksum begins at zero, whatever the peer owns.
WithoutSum(h, p) == p

WithSum(h, p) == [p EXCEPT !.sum = ComputeOwnershipChecksum(h, p.id)]

\* The entry a registration of a dynamic peer finds: by identifier, or else
\* the first one by address (the list is sorted by identifier).
FoundPeer(h, id, address) ==
  LET byID == FindPeer(h, id, address)
      byAddress == FindPeer(h, UndefinedID, address)
  IN IF byID # {} THEN byID
     ELSE {p \in byAddress : \A q \in byAddress : p.id <= q.id}

\* Update of a static entry, update of an entry with this identifier, or a
\* new entry.  The own identifier is refused.
RegisterDynamicPeer(h, id, address) ==
  IF id \in {UndefinedID, OwnID} THEN h
  ELSE IF \E p \in FoundPeer(h, id, address) : ~p.dynamic
         THEN LET p == CHOOSE q \in FoundPeer(h, id, address) : ~q.dynamic
              IN ReplacePeer(h, p, WithSum(h, [p EXCEPT !.id = id]))
       ELSE IF FindPeer(h, id, address) # {}
         THEN LET p == CHOOSE q \in FindPeer(h, id, address) : TRUE
              IN ReplacePeer(h, p, WithSum(h, [p EXCEPT !.address = address]))
       ELSE [h EXCEPT !.peers = @ \cup {WithSum(h, NewPeer(id, address, TRUE))}]

\* Static entries are added without an identifier, one for each address.
RegisterStaticPeers(h, addresses) ==
  [h EXCEPT !.peers = @ \cup {WithSum(h, NewPeer(UndefinedID, a, FALSE)) : a \in addresses}]

\* A static entry with an identifier only loses its identifier.
DeregisterPeer(h, p) ==
  IF ~p.dynamic /\ p.id # UndefinedID
    THEN ReplacePeer(h, p, NewPeer(UndefinedID, p.address, FALSE))
    ELSE [h EXCEPT !.peers = @ \ {p}]

-----------------------------------------------------------------------------
HandlespaceInit ==
  \E static \in SUBSET PeerAddress :
    store = RegisterStaticPeers(NewHandlespace, static)

Homes == PeerID \cup {OwnID}

RegisterElement ==
  \E pe \in Identity, home \in Homes, c \in Connection :
    /\ pe \in DOMAIN store.node \/ store.elements < MaxElements
    /\ store' = AddOrUpdatePoolElement(store, pe, home, c, TRUE)

RefuseElement ==
  \E pe \in Identity : store' = AddOrUpdatePoolElement(store, pe, OwnID, 0, FALSE)

DeregisterElement ==
  \E pe \in DOMAIN store.node : store' = DeregisterPoolElement(store, pe)

ChangeElement ==
  \E pe \in DOMAIN store.node :
    \/ \E home \in Homes : store' = UpdateOwnership(store, pe, home)
    \/ \E c \in Connection : store' = UpdateConnection(store, pe, c)
    \/ \E time \in Time : store' = RestartExpiryTimer(store, pe, time)

ExpireElements == \E now \in Time : store' = PurgeExpiredPoolElements(store, now)

MarkElements == \E home \in Homes : store' = MarkPoolElements(store, home)

PurgeMarkedElements == \E home \in Homes : store' = PurgeMarkedPoolElements(store, home)

RegisterPeer ==
  \E id \in PeerID \cup {OwnID, UndefinedID}, address \in PeerAddress :
    store' = RegisterDynamicPeer(store, id, address)

DeregisterAPeer == \E p \in store.peers : store' = DeregisterPeer(store, p)

HandlespaceNext ==
  \/ RegisterElement \/ RefuseElement \/ DeregisterElement \/ ChangeElement
  \/ ExpireElements \/ MarkElements \/ PurgeMarkedElements
  \/ RegisterPeer \/ DeregisterAPeer

HandlespaceSpec == HandlespaceInit /\ [][HandlespaceNext]_store

-----------------------------------------------------------------------------
\* What poolHandlespaceNodeVerify checks: no storage has lost or kept an
\* element wrongly, no pool is empty, and the counters and the checksums that
\* are updated with every change are those computed from the elements.
HandlespaceVerify ==
  /\ store.elements = Cardinality(DOMAIN store.node)
  /\ store.pools = {pe[1] : pe \in DOMAIN store.node}
  /\ \A o \in store.owners : o[2] \in DOMAIN store.node /\ o[1] = store.node[o[2]].home
  /\ \A o \in store.connections : o[2] \in DOMAIN store.node /\ o[1] = store.node[o[2]].connection
  /\ \A pe \in DOMAIN store.node :
       /\ store.node[pe].home # UndefinedID => pe \in OwnershipNodes(store, store.node[pe].home)
       /\ store.node[pe].connection # 0 => pe \in ConnectionNodes(store, store.node[pe].connection)
  /\ \A t, u \in store.timers : t[2] \in DOMAIN store.node /\ (t[2] = u[2] => t = u)
  /\ store.owned = Cardinality(OwnershipNodes(store, OwnID))
  /\ store.sum = ComputeSum(DOMAIN store.node)
  /\ store.ownSum = ComputeOwnershipChecksum(store, OwnID)

\* A registrar is in the peer list once, and never the registrar itself, also
\* when a configured entry without identifier learns it, or the identifier at
\* an address changes (peerListManagementRegisterPeerListNode).  And, as
\* peerListManagementVerifyChecksumsInHandlespace checks, whatever happens to
\* elements, to their ownership and to the peer entries, the checksum kept for
\* a peer is the one of the elements it owns here: a comparison with the
\* checksum a peer reports asks the right question.
PeerListVerify ==
  /\ \A p, q \in store.peers :
       /\ p.id # OwnID
       /\ p.id # UndefinedID /\ p.id = q.id => p = q
  /\ \A p \in store.peers : p.id # UndefinedID =>
       /\ p.sum = ComputeOwnershipChecksum(store, p.id)
       /\ ChecksumFinish(p.sum) \in 0 .. ChecksumRange - 1
=============================================================================
