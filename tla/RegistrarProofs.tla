--------------------------- MODULE RegistrarProofs ---------------------------
(***************************************************************************)
(* The invariants of the bookkeeping of the registrars, proved for any     *)
(* number of registrars and PEs, any bounds and all options.  They hold    *)
(* only together: the handlers rely on the types of the messages, and the  *)
(* timers of an entry tell what else is in it.                             *)
(***************************************************************************)
EXTENDS RegistrarProps, TLAPS

-----------------------------------------------------------------------------
(* The inductive invariant, entry by entry *)

Handle == Registrar \cup {UNDEFINED}

\* What holds for the entry registrar r has for its peer p.
PeerOK(r, p, node) ==
  /\ node \in PeerListNode
  /\ node.TakeoverProcess <=> node.TimerCode = "TAKEOVER_EXPIRY"
  /\ node.OutstandingAcks \cap {r, p} = {}
  /\ node.known <=> node.TimerCode # "none"

\* What holds for the entry registrar r has for a PE.
PEOK(r, node) ==
  /\ node \in PoolElementNode
  /\ node.home # UNDEFINED <=> node.TimerCode # "none"
  /\ node.home = r =>
       node.TimerCode \in {"KEEPALIVE_TRANSMISSION", "KEEPALIVE_TIMEOUT"}

PeerListOK(r, list) ==
  /\ list \in [Registrar -> PeerListNode]
  /\ \A p \in Registrar : PeerOK(r, p, list[p])

HandlespaceOK(r, handlespace) ==
  /\ handlespace \in [PoolElement -> PoolElementNode]
  /\ \A e \in PoolElement : PEOK(r, handlespace[e])

PeersInv ==
  /\ peers \in [Registrar -> [Registrar -> PeerListNode]]
  /\ \A r \in Registrar : PeerListOK(r, peers[r])

PEsInv ==
  /\ pes \in [Registrar -> [PoolElement -> PoolElementNode]]
  /\ \A r \in Registrar : HandlespaceOK(r, pes[r])

NetInv == net \in [Registrar -> [Registrar -> Seq(Message)]]

RestInv ==
  /\ running \subseteq Registrar
  /\ startup \in [Registrar -> BOOLEAN]
  /\ mentor \in [Registrar -> Handle]
  /\ mcast \subseteq Registrar \X Registrar
  /\ keepAlive \subseteq Registrar \X PoolElement
  /\ spent \in [EventKind -> Nat]

IInv == PeersInv /\ PEsInv /\ NetInv /\ RestInv

-----------------------------------------------------------------------------
(* Entries of the peer list *)

\* An absent entry is in order, see peerListManagementDeregisterPeerListNodeByPtr.
LEMMA NoPeerOK ==
  ASSUME NEW r, NEW p
  PROVE  PeerOK(r, p, NoPeer)
  BY DEF PeerOK, NoPeer, PeerListNode, PeerTimer, UNDEFINED

-----------------------------------------------------------------------------
(* Entries of the handlespace *)

\* An absent PE is in order, whoever asks.
LEMMA NoPEOK ==
  ASSUME NEW r \in Registrar
  PROVE  PEOK(r, NoPE)
  BY RegistrarAssumption, AssociationAssumption, LimitAssumption
     DEF PEOK, NoPE, PoolElementNode, PETimer, UNDEFINED

\* A handlespace is in order if all its entries are.
LEMMA AllPEsOK ==
  ASSUME NEW r, NEW handlespace,
         handlespace = [e \in PoolElement |-> handlespace[e]],
         \A e \in PoolElement : PEOK(r, handlespace[e])
  PROVE  HandlespaceOK(r, handlespace)
  BY DEF HandlespaceOK, PEOK

-----------------------------------------------------------------------------
(* Messages *)

\* What a handler may send: messages to any registrar.
Output == [Registrar -> Seq(Message)]

\* The message a handler of r takes from s is a message of its type.
LEMMA ReceivedMessage ==
  ASSUME NEW r \in Registrar, NEW s \in Registrar, NEW type, NetInv,
         Received(r, s, type)
  PROVE  /\ Head(net[s][r]) \in Message
         /\ Head(net[s][r]).type = type
         /\ Tail(net[s][r]) \in Seq(Message)
         /\ r \in running
         /\ s # r
  <1>1. net[s][r] \in Seq(Message)
    BY DEF NetInv
  <1>2. net[s][r] # <<>>
    BY DEF Received
  <1>3. /\ Head(net[s][r]) \in Message
        /\ Tail(net[s][r]) \in Seq(Message)
    BY <1>1, <1>2
  <1>4. QED
    BY <1>3 DEF Received

\* A Presence has a checksum and says whether it wants a reply.
LEMMA PresenceType ==
  ASSUME NEW m \in Message, m.type = "Presence"
  PROVE  m.reply \in BOOLEAN /\ m.checksum \in SUBSET PoolElement
  BY DEF Message

\* A HandleUpdate names a PE and its home.
LEMMA HandleUpdateType ==
  ASSUME NEW m \in Message, m.type = "HandleUpdate"
  PROVE  m.pe \in PoolElement /\ m.home \in Registrar
  BY DEF Message

\* The messages of a takeover name its target.
LEMMA TargetType ==
  ASSUME NEW m \in Message,
         m.type \in {"InitTakeover", "InitTakeoverAck", "TakeoverServer"}
  PROVE  m.target \in Registrar
  BY DEF Message

-----------------------------------------------------------------------------
(* Sending *)

\* Sending nothing.
LEMMA SilenceOutput ==
 Silence \in Output
  BY DEF Silence, Output

\* Sending to one registrar.
LEMMA ToPeerOutput ==
  ASSUME NEW d \in Registrar, NEW messages \in Seq(Message)
  PROVE  ToPeer(d, messages) \in Output
  BY SilenceOutput DEF ToPeer, Output

\* A sequence of one message.
LEMMA OneMessage ==
  ASSUME NEW message \in Message
  PROVE  <<message>> \in Seq(Message)
  OBVIOUS

\* Sending one message to one registrar.
LEMMA OneToPeerOutput ==
  ASSUME NEW d \in Registrar, NEW message \in Message
  PROVE  ToPeer(d, <<message>>) \in Output
  BY Zenon, OneMessage, ToPeerOutput

\* Sending to all peers.
LEMMA ToAllOutput ==
  ASSUME NEW r, NEW message \in Message
  PROVE  ToAll(r, message) \in Output
  <1>1. <<message>> \in Seq(Message) /\ <<>> \in Seq(Message)
    OBVIOUS
  <1>2. QED
    BY <1>1 DEF ToAll, Output

\* Sending one output after the other.
LEMMA ThenOutput ==
  ASSUME NEW out1 \in Output, NEW out2 \in Output
  PROVE  Then(out1, out2) \in Output
  <1>1. ASSUME NEW d \in Registrar
        PROVE  out1[d] \o out2[d] \in Seq(Message)
    <2>1. out1[d] \in Seq(Message) /\ out2[d] \in Seq(Message)
      BY DEF Output
    <2>2. QED
      BY <2>1
  <1>2. QED
    BY <1>1 DEF Then, Output

-----------------------------------------------------------------------------
(* The messages the handlers build *)

\* registrarSendENRPPresence
LEMMA PresenceIsMessage ==
  ASSUME NEW r, NEW reply \in BOOLEAN
  PROVE  PresenceMessage(r, reply) \in Message
  BY DEF PresenceMessage, Message, OwnedBy

\* registrarSendENRPInitTakeoverToAllPeers and the other takeover messages
LEMMA TakeoverIsMessage ==
  ASSUME NEW type \in {"InitTakeover", "InitTakeoverAck", "TakeoverServer"},
         NEW target \in Registrar
  PROVE  TakeoverMessage(type, target) \in Message
  BY DEF TakeoverMessage, Message

\* registrarSendENRPHandleUpdate, one message
LEMMA UpdateIsMessage ==
  ASSUME NEW e \in PoolElement, NEW home \in Registrar,
         NEW action \in {"ADD_PE", "DEL_PE"}, NEW b \in BOOLEAN
  PROVE  /\ HandleUpdateMessage(e, home, action) \in Message
         /\ [HandleUpdateMessage(e, home, action) EXCEPT !.suggested = b]
              \in Message
  BY DEF HandleUpdateMessage, Message

\* registrarSendENRPHandleUpdate, to all peers and to the suggested one
LEMMA UpdateOutput ==
  ASSUME NEW r \in Registrar, NEW e \in PoolElement, NEW home \in Registrar,
         NEW action \in {"ADD_PE", "DEL_PE"}
  PROVE  HandleUpdate(r, e, home, action) \in Output
  <1> DEFINE message == HandleUpdateMessage(e, home, action)
             better  == UsefulPeer(r, Peers(r), e)
             all     == ToAll(r, message)
             one     == ToPeer(better, <<[message EXCEPT !.suggested = TRUE]>>)
  <1>1. all \in Output
    BY Zenon, UpdateIsMessage, ToAllOutput
  <1>2. ASSUME better # UNDEFINED PROVE Then(all, one) \in Output
    <2>1. better \in Registrar
      <3>1. Peers(r) \in SUBSET Registrar
        BY DEF Peers
      <3>2. QED
        BY <1>2, <3>1, UsefulPeerAssumption
    <2>2. [message EXCEPT !.suggested = TRUE] \in Message
      BY Zenon, UpdateIsMessage
    <2>3. one \in Output
      BY Zenon, <2>1, <2>2, OneToPeerOutput
    <2>4. QED
      BY <1>1, <2>3, ThenOutput
  <1>3. QED
    BY <1>1, <1>2 DEF HandleUpdate

\* registrarSendENRPHandleTableRequest
LEMMA TableRequestIsMessage ==
  ASSUME NEW b \in BOOLEAN
  PROVE  TableRequest(b) \in Message
  BY DEF TableRequest, Message

\* createHandleTableResponseMessage: the homes in it come from the handlespace.
LEMMA TableResponseIsMessage ==
  ASSUME NEW r \in Registrar, NEW chunk, NEW more \in BOOLEAN,
         NEW reject \in BOOLEAN, PEsInv
  PROVE  /\ TableResponse(r, chunk, more) \in Message
         /\ [TableResponse(r, chunk, more) EXCEPT !.reject = reject] \in Message
  <1> DEFINE table == [e \in PoolElement |->
                 IF e \in chunk THEN pes[r][e].home ELSE UNDEFINED]
  <1>1. table \in [PoolElement -> Registrar \cup {UNDEFINED}]
    BY DEF PEsInv, PoolElementNode
  <1> HIDE DEF table
  <1>2. TableResponse(r, chunk, more)
          = [type |-> "HandleTableResponse", reject |-> FALSE, more |-> more,
             table |-> table]
    BY DEF TableResponse, table
  <1>3. QED
    BY <1>1, <1>2 DEF Message

\* The messages of registrarSendENRPPresenceToAllPeers.
LEMMA PresencesOutput ==
  ASSUME NEW r
  PROVE  PresenceToAllPeers(r) \in Output
  BY Zenon, PresenceIsMessage, ToAllOutput DEF PresenceToAllPeers

-----------------------------------------------------------------------------
(* rspregistrar-enrp.c: Presence *)

\* A message that is sent or not.
LEMMA IfMessage ==
  ASSUME NEW condition, NEW message \in Message
  PROVE  If(condition, <<message>>) \in Seq(Message)
  BY DEF If

-----------------------------------------------------------------------------
(* rspregistrar-asap.c *)

\* The announcement of the removal of a PE.
LEMMA RemovalOutput ==
  ASSUME NEW r \in Registrar, NEW e \in PoolElement
  PROVE  RemovalUpdate(r, e) \in Output
  BY UpdateOutput, SilenceOutput DEF RemovalUpdate

-----------------------------------------------------------------------------
(* The invariant is inductive *)

\* The initial states satisfy the invariant.
LEMMA InitInv ==
 Init => IInv
  <1> SUFFICES ASSUME Init PROVE IInv
    OBVIOUS
  <1>1. PeersInv
    <2>1. ASSUME NEW r, NEW p PROVE PeerOK(r, p, ConnectedPeer)
      BY Zenon DEF PeerOK, ConnectedPeer, NewPeer, NoPeer, PeerListNode, PeerTimer,
             PeerStatus, UNDEFINED
    <2>2. ASSUME NEW r \in Registrar, NEW p \in Registrar
          PROVE  PeerOK(r, p, peers[r][p])
      BY <2>1, NoPeerOK DEF Init
    <2>3. peers = [r \in Registrar |-> [p \in Registrar |-> peers[r][p]]]
      BY DEF Init
    <2>4. peers \in [Registrar -> [Registrar -> PeerListNode]]
      BY <2>2, <2>3 DEF PeerOK
    <2>5. QED
      BY <2>2, <2>4 DEF PeersInv, PeerListOK
  <1>2. PEsInv
    <2>1. ASSUME NEW r \in Registrar, NEW e \in PoolElement
          PROVE  PEOK(r, InitialPE(r, e))
      <3>1. CASE r \notin Established \/ InitialHome[e] = UNDEFINED
        BY <3>1, NoPEOK DEF InitialPE
      <3>2. CASE ~(r \notin Established \/ InitialHome[e] = UNDEFINED)
        <4>1. InitialHome[e] \in Registrar
          BY <3>2, InitialAssumption
        <4> DEFINE home == InitialHome[e]
                   timer == IF home = r THEN "KEEPALIVE_TRANSMISSION" ELSE "EXPIRY"
        <4>2. /\ timer \in PETimer \ {"none"}
              /\ home = r => timer = "KEEPALIVE_TRANSMISSION"
          BY DEF PETimer
        <4>3. InitialPE(r, e) = [NoPE EXCEPT !.home = home, !.TimerCode = timer]
          BY <3>2 DEF InitialPE
        <4>4. home # UNDEFINED
          BY <3>2
        <4> HIDE DEF home, timer
        <4>5. home \in Registrar
          BY <4>1 DEF home
        <4>6. PEOK(r, NoPE)
          BY NoPEOK
        <4>7. PEOK(r, [NoPE EXCEPT !.home = home, !.TimerCode = timer])
          BY Zenon, <4>2, <4>4, <4>5, <4>6 DEF PEOK, NoPE, PoolElementNode
        <4>8. QED
          BY <4>3, <4>7
      <3>3. QED
        BY <3>1, <3>2
    <2>2. ASSUME NEW r \in Registrar PROVE HandlespaceOK(r, pes[r])
      BY <2>1, AllPEsOK DEF Init
    <2>3. pes = [r \in Registrar |-> pes[r]]
      BY DEF Init
    <2>4. QED
      BY <2>2, <2>3 DEF PEsInv, HandlespaceOK
  <1>3. NetInv
    BY SilenceOutput DEF Init, NetInv, Output
  <1>4. RestInv
    BY InitialAssumption DEF Init, RestInv, Handle
  <1>5. QED
    BY <1>1, <1>2, <1>3, <1>4 DEF IInv

\* Every step preserves the invariant.
LEMMA NextInv ==
 IInv /\ [Next]_vars => IInv'

\* A registered entry whose timer is started afterwards is in order.
<1>HeardOK.
  ASSUME NEW r \in Registrar, NEW s \in Registrar, PeerOK(r, s, peers[r][s]),
         NEW status \in SUBSET PeerStatus
  PROVE  PeerOK(r, s, HeardPeer(r, s, status))
  BY Zenon, <1>HeardOK DEF PeerOK, HeardPeer, RegisterPeer, NewPeer, NoPeer, PeerListNode,
         PeerTimer, UNDEFINED

\* Acknowledging the takeover of a peer leaves its entry in order.
<1>AgreedOK.
  ASSUME NEW r \in Registrar, NEW p \in Registrar, NEW s \in Registrar,
         NEW node, PeerOK(r, p, node)
  PROVE  PeerOK(r, p, AgreedPeer(node, s))
  BY Zenon, <1>AgreedOK DEF PeerOK, AgreedPeer, PeerListNode, PeerTimer, UNDEFINED

\* Replacing one entry of a peer list by one in order keeps the list in order.
<1>OneEntry.
  ASSUME NEW r \in Registrar, NEW p \in Registrar, NEW node,
         PeersInv, PeerOK(r, p, node),
         peers' = [peers EXCEPT ![r][p] = node]
  PROVE  PeersInv'
  <2> USE <1>OneEntry
  <2>1. node \in PeerListNode
    BY DEF PeerOK
  <2>2. peers' \in [Registrar -> [Registrar -> PeerListNode]]
    BY <2>1 DEF PeersInv
  <2>3. ASSUME NEW q \in Registrar PROVE PeerListOK(q, peers'[q])
    <3>1. ASSUME NEW x \in Registrar PROVE PeerOK(q, x, peers'[q][x])
      <4>1. CASE q = r /\ x = p
        BY <4>1 DEF PeersInv
      <4>2. CASE ~(q = r /\ x = p)
        <5>1. peers'[q][x] = peers[q][x]
          BY <4>2 DEF PeersInv
        <5>2. QED
          BY <5>1 DEF PeersInv, PeerListOK
      <4>3. QED
        BY <4>1, <4>2
    <3>2. QED
      BY <2>2, <3>1 DEF PeerListOK
  <2>4. QED
    BY Zenon, <2>2, <2>3 DEF PeersInv

\* Replacing the peer list of one registrar by one in order.
<1>OnePeerList.
  ASSUME NEW r \in Registrar, NEW list, PeersInv, PeerListOK(r, list),
         peers' = [peers EXCEPT ![r] = list]
  PROVE  PeersInv'
  BY <1>OnePeerList DEF PeersInv, PeerListOK

\* Registering a PE and starting a timer that suits its home leaves it in order.
<1>RegisteredOK.
  ASSUME NEW r \in Registrar, NEW home \in Registrar,
         NEW a \in Association \cup {0}, NEW timer \in PETimer \ {"none"},
         home = r => timer \in {"KEEPALIVE_TRANSMISSION", "KEEPALIVE_TIMEOUT"},
         NEW node, PEOK(r, node)
  PROVE  PEOK(r, [RegisterPE(node, home, a) EXCEPT !.TimerCode = timer])
  BY Zenon, <1>RegisteredOK, RegistrarAssumption
     DEF PEOK, RegisterPE, PoolElementNode, PETimer, UNDEFINED

\* A registered PE may change its home to another registrar than r, and to r if a
\* keep-alive timer is started.
<1>NewHomeOK.
  ASSUME NEW r \in Registrar, NEW home \in Registrar, NEW node, PEOK(r, node),
         node.home # UNDEFINED
  PROVE  /\ home # r => PEOK(r, [node EXCEPT !.home = home])
         /\ PEOK(r, [node EXCEPT !.home = home,
                                 !.TimerCode = "KEEPALIVE_TIMEOUT"])
  BY Zenon, <1>NewHomeOK, RegistrarAssumption DEF PEOK, PoolElementNode, PETimer, UNDEFINED

\* Replacing the handlespace of one registrar by one in order.
<1>OneHandlespace.
  ASSUME NEW r \in Registrar, NEW handlespace, PEsInv,
         HandlespaceOK(r, handlespace),
         pes' = [pes EXCEPT ![r] = handlespace]
  PROVE  PEsInv'
  BY <1>OneHandlespace DEF PEsInv, HandlespaceOK

\* Replacing one PE of a handlespace by one in order.
<1>OnePE.
  ASSUME NEW r \in Registrar, NEW e \in PoolElement, NEW node,
         PEsInv, PEOK(r, node), pes' = [pes EXCEPT ![r][e] = node]
  PROVE  PEsInv'
  <2> USE <1>OnePE
  <2> DEFINE hs == [pes[r] EXCEPT ![e] = node]
  <2>1. HandlespaceOK(r, hs)
    BY DEF PEsInv, HandlespaceOK, PEOK
  <2>2. pes' = [pes EXCEPT ![r] = hs]
    BY DEF PEsInv
  <2> HIDE DEF hs
  <2>3. QED
    BY Zenon, <2>1, <2>2, <1>OneHandlespace

\* A HandleTableResponse has the homes of some PEs.
<1>HandleTableResponseType.
  ASSUME NEW m \in Message, m.type = "HandleTableResponse"
  PROVE  m.table \in [PoolElement -> Handle]
  BY <1>HandleTableResponseType DEF Message, Handle

\* What r has sent, after it has sent out.
<1>SentRow.
  ASSUME NEW row \in Output, NEW out \in Output
  PROVE  [d \in Registrar |-> IF d \in running THEN row[d] \o out[d] ELSE row[d]]
           \in Output
  <2> USE <1>SentRow
  <2>1. ASSUME NEW d \in Registrar
        PROVE  row[d] \in Seq(Message) /\ row[d] \o out[d] \in Seq(Message)
    <3>1. row[d] \in Seq(Message) /\ out[d] \in Seq(Message)
      BY DEF Output
    <3>2. QED
      BY <3>1
  <2>2. QED
    BY <2>1 DEF Output

\* Sending keeps the types of the messages under way.
<1>SendNet.
  ASSUME NEW r \in Registrar, NEW out \in Output, NetInv, Send(r, out)
  PROVE  NetInv'
  <2> USE <1>SendNet
  <2> DEFINE sent == [d \in Registrar |->
               IF d \in running THEN net[r][d] \o out[d] ELSE net[r][d]]
  <2>1. net \in [Registrar -> Output]
    BY DEF NetInv, Output
  <2>2. sent \in Output
    BY Zenon, <2>1, <1>SentRow
  <2>3. net' = [net EXCEPT ![r] = sent]
    BY DEF Send
  <2> HIDE DEF sent
  <2>4. net' \in [Registrar -> Output]
    BY <2>1, <2>2, <2>3
  <2>5. QED
    BY <2>4 DEF NetInv, Output

\* So does receiving and sending.
<1>ReceiveNet.
  ASSUME NEW r \in Registrar, NEW s \in Registrar, NEW type, NEW out \in Output,
         NetInv, Received(r, s, type), ReceiveAndSend(r, s, out)
  PROVE  NetInv'
  <2> USE <1>ReceiveNet
  <2> DEFINE sent == [d \in Registrar |->
               IF d \in running THEN net[r][d] \o out[d] ELSE net[r][d]]
             rest == [net[s] EXCEPT ![r] = Tail(net[s][r])]
  <2>1. net \in [Registrar -> Output]
    BY DEF NetInv, Output
  <2>2. sent \in Output
    BY Zenon, <2>1, <1>SentRow
  <2>3. Tail(net[s][r]) \in Seq(Message) /\ s # r
    BY ReceivedMessage
  <2>4. rest \in Output
    BY <2>1, <2>3 DEF Output
  <2>5. net' = [net EXCEPT ![s] = rest, ![r] = sent]
    BY <2>1, <2>3 DEF ReceiveAndSend, Output
  <2> HIDE DEF sent, rest
  <2>6. net' \in [Registrar -> Output]
    BY <2>1, <2>2, <2>4, <2>5
  <2>7. QED
    BY <2>6 DEF NetInv, Output

\* Multicasting a Presence keeps the type of what is under way.
<1>MulticastType.
  ASSUME NEW r \in Registrar, RestInv, MulticastPresence(r)
  PROVE  mcast' \subseteq Registrar \X Registrar
  BY <1>MulticastType DEF MulticastPresence, RestInv

\* An event that is counted.
<1>SpendType.
  ASSUME NEW k \in EventKind, RestInv, Spend(k)
  PROVE  spent' \in [EventKind -> Nat]
  BY <1>SpendType DEF Spend, RestInv

\* Starting a takeover: expiry timer and process are set together, the target
\* and r itself are not asked for an acknowledgement.
<1>StartTakeoverStep.
  ASSUME NEW r \in Registrar, NEW p \in Registrar, PeersInv, NetInv,
         peers[r][p].TimerCode = "NO_RESPONSE", StartTakeover(r, p)
  PROVE  PeersInv' /\ NetInv'
  <2> USE <1>StartTakeoverStep
  <2> DEFINE node == [peers[r][p] EXCEPT
                        !.TakeoverProcess = TRUE,
                        !.OutstandingAcks = OutstandingAcksFor(r, p),
                        !.TimerCode = "TAKEOVER_EXPIRY"]
  <2>1. PeerOK(r, p, peers[r][p])
    BY DEF PeersInv, PeerListOK
  <2>2. /\ OutstandingAcksFor(r, p) \in SUBSET Registrar
        /\ OutstandingAcksFor(r, p) \cap {r, p} = {}
    BY DEF OutstandingAcksFor, Peers
  <2>3. PeerOK(r, p, node)
    BY Zenon, <2>1, <2>2 DEF PeerOK, PeerListNode, PeerTimer
  <2>4. peers' = [peers EXCEPT ![r][p] = node]
    BY Zenon, <2>1 DEF StartTakeover, PeersInv, PeerOK, PeerListNode
  <2> HIDE DEF node
  <2>5. PeersInv'
    BY Zenon, <2>3, <2>4, <1>OneEntry
  <2>6. NetInv'
    BY TakeoverIsMessage, ToAllOutput, <1>SendNet DEF StartTakeover
  <2>7. QED
    BY <2>5, <2>6

\* registrarHandleENRPInitTakeover preserves the invariant.
<1>InitTakeoverStep.
  ASSUME NEW r \in Registrar, NEW s \in Registrar, IInv,
         HandleENRPInitTakeover(r, s)
  PROVE  IInv'
  <2> USE <1>InitTakeoverStep
  <2> DEFINE target == Head(net[s][r]).target
  <2> USE DEF IInv
  <2>0. Received(r, s, "InitTakeover")
    BY Zenon DEF HandleENRPInitTakeover, InitTakeoverOfMe, AgreeToTakeover,
           ContinueOwnTakeover
  <2>1. target \in Registrar
    BY <2>0, ReceivedMessage, TargetType
  <2>2. CASE InitTakeoverOfMe(r, s)
    <3>1. NetInv'
      BY <2>0, <2>2, PresencesOutput, <1>ReceiveNet DEF InitTakeoverOfMe
    <3>2. RestInv'
      BY Zenon, <2>2, <1>MulticastType DEF InitTakeoverOfMe, RestInv
    <3>3. QED
      BY <2>2, <3>1, <3>2
         DEF InitTakeoverOfMe, PeersInv, PEsInv
  <2>3. CASE AgreeToTakeover(r, s)
    <3>1. PeerOK(r, target, AgreedPeer(peers[r][target], s))
      BY Zenon, <2>1, <1>AgreedOK DEF PeersInv, PeerListOK
    <3>2. peers' = [peers EXCEPT ![r][target] = AgreedPeer(peers[r][target], s)]
      BY <2>1, <2>3 DEF AgreeToTakeover, PeersInv
    <3>3. PeersInv'
      BY Zenon, <2>1, <3>1, <3>2, <1>OneEntry
    <3>4. ToPeer(s, <<TakeoverMessage("InitTakeoverAck", target)>>) \in Output
      BY Zenon, <2>1, TakeoverIsMessage, OneToPeerOutput
    <3>5. NetInv'
      BY Zenon, <2>0, <2>3, <3>4, <1>ReceiveNet DEF AgreeToTakeover
    <3>6. QED
      BY <2>3, <3>3, <3>5 DEF AgreeToTakeover, PEsInv, RestInv
  <2>4. CASE ContinueOwnTakeover(r, s)
    <3>1. NetInv'
      BY <2>0, <2>4, SilenceOutput, <1>ReceiveNet DEF ContinueOwnTakeover
    <3>2. QED
      BY Zenon, <2>4, <3>1 DEF ContinueOwnTakeover, PeersInv, PEsInv, RestInv
  <2>5. QED
    BY <2>2, <2>3, <2>4 DEF HandleENRPInitTakeover

\* registrarFinishTakeover: the PEs of the target are monitored by r.
<1>TakenOverOK.
  ASSUME NEW r \in Registrar, NEW target \in Registrar, PEsInv
  PROVE  HandlespaceOK(r, TakenOverPEs(r, target))
  <2> USE <1>TakenOverOK
  <2>1. ASSUME NEW e \in PoolElement PROVE PEOK(r, TakenOverPEs(r, target)[e])
    <3>1. PEOK(r, pes[r][e]) /\ target # UNDEFINED
      BY RegistrarAssumption DEF PEsInv, HandlespaceOK, UNDEFINED
    <3>2. CASE pes[r][e].home = target
      BY Zenon, <3>1, <3>2, <1>NewHomeOK DEF TakenOverPEs
    <3>3. CASE pes[r][e].home # target
      BY <3>1, <3>3 DEF TakenOverPEs
    <3>4. QED
      BY <3>2, <3>3
  <2>2. QED
    BY Zenon, <2>1, AllPEsOK DEF TakenOverPEs

\* registrarHandleENRPInitTakeoverAck preserves the invariant.
<1>InitTakeoverAckStep.
  ASSUME NEW r \in Registrar, NEW s \in Registrar, IInv,
         HandleENRPInitTakeoverAck(r, s)
  PROVE  IInv'
  <2> USE <1>InitTakeoverAckStep
  <2> DEFINE target == Head(net[s][r]).target
  <2> USE DEF IInv
  <2>0. Received(r, s, "InitTakeoverAck")
    BY Zenon DEF HandleENRPInitTakeoverAck, AwaitMoreAcks, FinishTakeover, IgnoreAck
  <2>1. target \in Registrar
    BY <2>0, ReceivedMessage, TargetType
  <2>2. PeerOK(r, target, peers[r][target])
    BY <2>1 DEF PeersInv, PeerListOK
  <2>3. CASE AwaitMoreAcks(r, s)
    <3> DEFINE node == [peers[r][target] EXCEPT
                          !.OutstandingAcks = AcksToGo(r, target, s)]
    <3>1. PeerOK(r, target, node)
      BY ZenonT(40), <2>2 DEF PeerOK, AcksToGo, PeerListNode
    <3>2. peers' = [peers EXCEPT ![r][target] = node]
      BY <2>1, <2>3 DEF AwaitMoreAcks, PeersInv
    <3> HIDE DEF node
    <3>3. PeersInv'
      BY Zenon, <2>1, <3>1, <3>2, <1>OneEntry
    <3>4. NetInv'
      BY Zenon, <2>0, <2>3, SilenceOutput, <1>ReceiveNet DEF AwaitMoreAcks
    <3>5. QED
      BY ZenonT(40), <2>3, <3>3, <3>4 DEF AwaitMoreAcks, PEsInv, RestInv
  <2>4. CASE FinishTakeover(r, s)
    <3>1. PeersInv'
      BY Zenon, <2>1, <2>4, NoPeerOK, <1>OneEntry DEF FinishTakeover
    <3>2. PEsInv'
      BY Zenon, <2>1, <2>4, <1>TakenOverOK, <1>OneHandlespace DEF FinishTakeover
    <3>3. TakeoverServerToAllPeers(r, target) \in Output
      BY Zenon, <2>1, TakeoverIsMessage, ToAllOutput, SilenceOutput
         DEF TakeoverServerToAllPeers
    <3>4. NetInv'
      BY Zenon, <2>0, <2>4, <3>3, <1>ReceiveNet DEF FinishTakeover
    <3>5. RestInv'
      BY <2>4 DEF FinishTakeover, RestInv, OwnedBy
    <3>6. QED
      BY <3>1, <3>2, <3>4, <3>5
  <2>5. CASE IgnoreAck(r, s)
    <3>1. NetInv'
      BY <2>0, <2>5, SilenceOutput, <1>ReceiveNet DEF IgnoreAck
    <3>2. QED
      BY <2>5, <3>1 DEF IgnoreAck, PeersInv, PEsInv, RestInv
  <2>6. QED
    BY <2>3, <2>4, <2>5 DEF HandleENRPInitTakeoverAck

\* registrarHandleENRPTakeoverServer preserves the invariant: the new home is
\* never r itself, whose PEs would lack a keep-alive timer.
<1>TakeoverServerStep.
  ASSUME NEW r \in Registrar, NEW s \in Registrar, IInv,
         HandleENRPTakeoverServer(r, s)
  PROVE  IInv'
  <2> USE <1>TakeoverServerStep
  <2> DEFINE target == Head(net[s][r]).target
             hs == UpdateOwnership(pes[r], target, s)
  <2> USE DEF IInv
  <2>0. Received(r, s, "TakeoverServer")
    BY DEF HandleENRPTakeoverServer
  <2>1. target \in Registrar /\ s # r
    BY <2>0, ReceivedMessage, TargetType
  <2>2. ASSUME NEW e \in PoolElement PROVE PEOK(r, hs[e])
    <3>1. PEOK(r, pes[r][e]) /\ target # UNDEFINED
      BY <2>1, RegistrarAssumption DEF PEsInv, HandlespaceOK, UNDEFINED
    <3>2. CASE pes[r][e].home = target
      BY Zenon, <2>1, <3>1, <3>2, <1>NewHomeOK DEF UpdateOwnership
    <3>3. CASE pes[r][e].home # target
      BY <3>1, <3>3 DEF UpdateOwnership
    <3>4. QED
      BY <3>2, <3>3
  <2>3. HandlespaceOK(r, hs)
    BY Zenon, <2>2, AllPEsOK DEF UpdateOwnership
  <2>4. pes' = [pes EXCEPT ![r] = hs]
    BY DEF HandleENRPTakeoverServer, PEsInv
  <2> HIDE DEF hs
  <2>5. PEsInv'
    BY Zenon, <2>3, <2>4, <1>OneHandlespace
  <2>6. NetInv'
    BY <2>0, SilenceOutput, <1>ReceiveNet DEF HandleENRPTakeoverServer
  <2>7. QED
    BY <2>5, <2>6 DEF HandleENRPTakeoverServer, PeersInv, RestInv

\* registrarHandleENRPAnnounceTimer preserves the invariant.
<1>AnnounceStep.
  ASSUME NEW r \in Registrar, IInv, HandleENRPAnnounceTimer(r)
  PROVE  IInv'
  <2> USE <1>AnnounceStep
  <2> USE DEF IInv
  <2>1. NetInv'
    BY PresencesOutput, <1>SendNet DEF HandleENRPAnnounceTimer
  <2>2. /\ spent' \in [EventKind -> Nat]
        /\ mcast' \subseteq Registrar \X Registrar
    BY <1>SpendType, <1>MulticastType DEF HandleENRPAnnounceTimer, EventKind
  <2>3. RestInv'
    BY <2>2 DEF HandleENRPAnnounceTimer, RestInv
  <2>4. QED
    BY <2>1, <2>3 DEF HandleENRPAnnounceTimer, PeersInv, PEsInv

\* The expiry of a timer of a peer is counted or not.
<1>PeerTimerType.
  ASSUME NEW r, NEW p, NEW code, NEW kind \in EventKind, RestInv,
         PeerTimerExpires(r, p, code, kind)
  PROVE  spent' \in [EventKind -> Nat]
  BY <1>PeerTimerType, <1>SpendType DEF PeerTimerExpires, RestInv

\* registrarHandlePeerEvent preserves the invariant: each timer is followed by
\* another one, or the entry is removed.
<1>PeerEventStep.
  ASSUME NEW r \in Registrar, NEW p \in Registrar, IInv, HandlePeerEvent(r, p)
  PROVE  IInv'
  <2> USE <1>PeerEventStep
  <2> USE DEF IInv
  <2>1. PeerOK(r, p, peers[r][p])
    BY DEF PeersInv, PeerListOK
  <2>2. "probe" \in EventKind /\ "suspect" \in EventKind
    BY DEF EventKind
  <2>3. CASE LastHeardTimeout(r, p)
    <3> DEFINE node == [peers[r][p] EXCEPT !.TimerCode = "NO_RESPONSE"]
    <3>1. PeerOK(r, p, node)
      BY <2>1, <2>3
         DEF LastHeardTimeout, PeerTimerExpires, PeerOK, PeerListNode, PeerTimer
    <3>2. peers' = [peers EXCEPT ![r][p] = node]
      BY <2>3 DEF LastHeardTimeout, PeersInv
    <3> HIDE DEF node
    <3>3. PeersInv'
      BY Zenon, <3>1, <3>2, <1>OneEntry
    <3>4. NetInv'
      BY Zenon, <2>3, PresenceIsMessage, OneToPeerOutput, <1>SendNet DEF LastHeardTimeout
    <3>5. spent' \in [EventKind -> Nat]
      BY <2>2, <2>3, <1>PeerTimerType DEF LastHeardTimeout
    <3>6. QED
      BY <2>3, <3>3, <3>4, <3>5 DEF LastHeardTimeout, PEsInv, RestInv
  <2>4. CASE NoResponseTakeover(r, p)
    <3>1. PeersInv' /\ NetInv'
      BY <2>4, <1>StartTakeoverStep DEF NoResponseTakeover, PeerTimerExpires
    <3>2. spent' \in [EventKind -> Nat]
      BY <2>2, <2>4, <1>PeerTimerType DEF NoResponseTakeover
    <3>3. QED
      BY <2>4, <3>1, <3>2 DEF NoResponseTakeover, PEsInv, RestInv
  <2>5. CASE NoResponseForget(r, p)
    <3>1. PeersInv'
      BY Zenon, <2>5, NoPeerOK, <1>OneEntry DEF NoResponseForget
    <3>2. spent' \in [EventKind -> Nat]
      BY <2>2, <2>5, <1>PeerTimerType DEF NoResponseForget
    <3>3. QED
      BY <2>5, <3>1, <3>2 DEF NoResponseForget, PEsInv, NetInv, RestInv
  <2>6. CASE TakeoverExpiry(r, p)
    <3>1. PeersInv'
      BY Zenon, <2>6, NoPeerOK, <1>OneEntry DEF TakeoverExpiry
    <3>2. QED
      BY <2>6, <3>1 DEF TakeoverExpiry, PEsInv, NetInv, RestInv
  <2>7. QED
    BY <2>3, <2>4, <2>5, <2>6 DEF HandlePeerEvent

\* registrarHandleENRPHandleUpdate preserves the invariant: a PE whose home is r
\* is refused.
<1>HandleUpdateStep.
  ASSUME NEW r \in Registrar, NEW s \in Registrar, IInv,
         HandleENRPHandleUpdate(r, s)
  PROVE  IInv'
  <2> USE <1>HandleUpdateStep
  <2> DEFINE m == Head(net[s][r])
  <2> USE DEF IInv
  <2>0. Received(r, s, "HandleUpdate")
    BY Zenon DEF HandleENRPHandleUpdate, AddPE, DelPE
  <2>1. m.pe \in PoolElement /\ m.home \in Registrar
    BY <2>0, ReceivedMessage, HandleUpdateType
  <2>2. NetInv'
    BY ZenonT(40), <2>0, SilenceOutput, <1>ReceiveNet DEF HandleENRPHandleUpdate, AddPE, DelPE
  <2>3. PeersInv'
    BY Zenon DEF HandleENRPHandleUpdate, AddPE, DelPE, PeersInv
  <2>4. CASE AddPE(r, s)
    <3> DEFINE node == [RegisterPE(pes[r][m.pe], m.home, 0)
                          EXCEPT !.TimerCode = "EXPIRY"]
    <3>1. PEsInv'
      <4>1. CASE m.home = r
        BY <2>4, <4>1 DEF AddPE, PEsInv
      <4>2. CASE m.home # r
        <5>1. PEOK(r, pes[r][m.pe])
          BY <2>1 DEF PEsInv, HandlespaceOK
        <5>2. PEOK(r, node)
          BY Zenon, <2>1, <4>2, <5>1, <1>RegisteredOK DEF PETimer
        <5>3. pes' = [pes EXCEPT ![r][m.pe] = node]
          BY <2>1, <2>4, <4>2 DEF AddPE, PEsInv
        <5> HIDE DEF node
        <5>4. QED
          BY ZenonT(40), <2>1, <5>2, <5>3, <1>OnePE
      <4>3. QED
        BY <4>1, <4>2
    <3>2. keepAlive' \subseteq Registrar \X PoolElement
      <4>1. keepAlive' \subseteq keepAlive \cup {<<r, m.pe>>}
        BY ZenonT(40), <2>4 DEF AddPE
      <4>2. QED
        BY <2>1, <4>1 DEF RestInv
    <3>3. RestInv'
      BY Zenon, <2>4, <3>2 DEF AddPE, RestInv
    <3>4. QED
      BY <2>2, <2>3, <3>1, <3>3
  <2>5. CASE DelPE(r, s)
    <3>1. PEsInv'
      BY Zenon, <2>1, <2>5, NoPEOK, <1>OnePE DEF DelPE
    <3>2. QED
      BY <2>2, <2>3, <2>5, <3>1 DEF DelPE, RestInv
  <2>6. QED
    BY <2>4, <2>5 DEF HandleENRPHandleUpdate

\* registrarHandleENRPListRequest preserves the invariant.
<1>ListRequestStep.
  ASSUME NEW r \in Registrar, NEW s \in Registrar, IInv,
         HandleENRPListRequest(r, s)
  PROVE  IInv'
  <2> USE <1>ListRequestStep
  <2> USE DEF IInv
  <2>1. [type |-> "ListResponse", list |-> Peers(r)] \in Message
    BY DEF Message, Peers
  <2>2. NetInv'
    BY <2>1, OneToPeerOutput, <1>ReceiveNet DEF HandleENRPListRequest
  <2>3. QED
    BY <2>2 DEF HandleENRPListRequest, PeersInv, PEsInv, RestInv

\* registrarHandleENRPListResponse preserves the invariant: the timer of every
\* new entry is started.
<1>ListResponseStep.
  ASSUME NEW r \in Registrar, NEW s \in Registrar, IInv,
         HandleENRPListResponse(r, s)
  PROVE  IInv'
  <2> USE <1>ListResponseStep
  <2> DEFINE new == NewEntries(r, Head(net[s][r]).list)
             list == [p \in Registrar |->
                        IF p \in new
                          THEN [RegisterPeer(peers[r][p]) EXCEPT
                                  !.TimerCode = "LAST_HEARD"]
                          ELSE peers[r][p]]
             out == [p \in Registrar |->
                       IF p \in new THEN <<PresenceMessage(r, FALSE)>> ELSE <<>>]
  <2> USE DEF IInv
  <2>1. ASSUME NEW p \in Registrar PROVE PeerOK(r, p, list[p])
    <3>1. PeerOK(r, p, peers[r][p])
      BY DEF PeersInv, PeerListOK
    <3>2. CASE p \in new
      <4>1. peers[r][p].TimerCode = "none"
        BY <3>2 DEF NewEntries
      <4>2. RegisterPeer(peers[r][p]) = NewPeer
        BY <3>1, <4>1 DEF RegisterPeer, PeerOK
      <4>3. PeerOK(r, p, [NewPeer EXCEPT !.TimerCode = "LAST_HEARD"])
        BY Zenon DEF PeerOK, NewPeer, NoPeer, PeerListNode, PeerTimer, UNDEFINED
      <4>4. QED
        BY <3>2, <4>2, <4>3
    <3>3. CASE p \notin new
      BY <3>1, <3>3
    <3>4. QED
      BY <3>2, <3>3
  <2>2. PeerListOK(r, list)
    BY <2>1 DEF PeerListOK, PeerOK
  <2>3. peers' = [peers EXCEPT ![r] = list]
    BY DEF HandleENRPListResponse, PeersInv
  <2>4. out \in Output
    <3> DEFINE message == PresenceMessage(r, FALSE)
    <3>1. message \in Message
      BY Zenon, PresenceIsMessage
    <3> HIDE DEF message
    <3>2. <<message>> \in Seq(Message) /\ <<>> \in Seq(Message)
      BY <3>1
    <3>3. out = [p \in Registrar |-> IF p \in new THEN <<message>> ELSE <<>>]
      BY DEF message
    <3>4. QED
      BY Zenon, <3>2, <3>3 DEF Output
  <2>5. ReceiveAndSend(r, s, out) /\ Received(r, s, "ListResponse")
    BY DEF HandleENRPListResponse
  <2> HIDE DEF list, out
  <2>6. PeersInv'
    BY Zenon, <2>2, <2>3, <1>OnePeerList
  <2>7. NetInv'
    BY <2>4, <2>5, <1>ReceiveNet
  <2>8. QED
    BY <2>6, <2>7 DEF HandleENRPListResponse, PEsInv, RestInv

\* registrarHandleENRPHandleTableRequest preserves the invariant.
<1>HandleTableRequestStep.
  ASSUME NEW r \in Registrar, NEW s \in Registrar, IInv,
         HandleENRPHandleTableRequest(r, s)
  PROVE  IInv'
  <2> USE <1>HandleTableRequestStep
  <2> USE DEF IInv
  <2>0. Received(r, s, "HandleTableRequest")
    BY Zenon DEF HandleENRPHandleTableRequest, SendHandleTable, RejectHandleTable
  <2>1. PeerOK(r, s, peers[r][s])
    BY DEF PeersInv, PeerListOK
  <2>2. CASE SendHandleTable(r, s)
    <3> DEFINE candidates == Candidates(r, s, Head(net[s][r]).ownChildrenOnly)
               chunk(n) == FirstElements(candidates, n)
               more(n)  == MoreToSend(candidates, n)
    <3>0. PICK n \in 1 .. MaxElementsPerHTRequest :
            /\ \E last \in PoolElement \cup {0} :
                 peers' = [peers EXCEPT ![r][s].UserData = last]
            /\ ReceiveAndSend(r, s, ToPeer(s, <<TableResponse(r, chunk(n), more(n))>>))
      BY Zenon, <2>2 DEF SendHandleTable
    <3>1. PICK last \in PoolElement \cup {0} :
            peers' = [peers EXCEPT ![r][s].UserData = last]
      BY Zenon, <3>0
    <3> DEFINE node == [peers[r][s] EXCEPT !.UserData = last]
    <3>2. PeerOK(r, s, node)
      BY <2>1 DEF PeerOK, PeerListNode
    <3>3. peers' = [peers EXCEPT ![r][s] = node]
      BY <3>1 DEF PeersInv
    <3> HIDE DEF node
    <3>4. PeersInv'
      BY Zenon, <3>2, <3>3, <1>OneEntry
    <3>5. more(n) \in BOOLEAN
      BY DEF MoreToSend
    <3>6. TableResponse(r, chunk(n), more(n)) \in Message
      BY Zenon, <3>5, TableResponseIsMessage
    <3>7. NetInv'
      BY <2>0, <3>0, <3>6, OneToPeerOutput, <1>ReceiveNet
    <3>8. QED
      BY <2>2, <3>4, <3>7 DEF SendHandleTable, PEsInv, RestInv
  <2>3. CASE RejectHandleTable(r, s)
    <3> DEFINE message == [TableResponse(r, {}, FALSE) EXCEPT !.reject = TRUE]
    <3>1. message \in Message
      BY Zenon, TableResponseIsMessage
    <3>2. ReceiveAndSend(r, s, ToPeer(s, <<message>>))
      BY <2>3 DEF RejectHandleTable
    <3> HIDE DEF message
    <3>3. NetInv'
      BY <2>0, <3>1, <3>2, OneToPeerOutput, <1>ReceiveNet
    <3>4. QED
      BY <2>3, <3>3 DEF RejectHandleTable, PeersInv, PEsInv, RestInv
  <2>4. QED
    BY <2>2, <2>3 DEF HandleENRPHandleTableRequest

\* The PEs of a table are registered in order: r takes no PE as its own, and a
\* new one gets a timer.
<1>PropagateOK.
  ASSUME NEW r \in Registrar, NEW table \in [PoolElement -> Handle], PEsInv
  PROVE  HandlespaceOK(r, PropagateTable(r, table))
  <2> USE <1>PropagateOK
  <2>1. ASSUME NEW e \in PoolElement PROVE PEOK(r, PropagateTable(r, table)[e])
    <3> DEFINE old == pes[r][e]
               timer == IF old.TimerCode = "none" THEN "EXPIRY" ELSE old.TimerCode
    <3>1. PEOK(r, old)
      BY DEF PEsInv, HandlespaceOK
    <3>2. CASE table[e] \in {UNDEFINED, r}
      BY <3>1, <3>2 DEF PropagateTable
    <3>3. CASE table[e] \notin {UNDEFINED, r}
      <4>1. table[e] \in Registrar /\ table[e] # r
        BY <3>3 DEF Handle
      <4>2. timer \in PETimer \ {"none"}
        BY <3>1 DEF PEOK, PoolElementNode, PETimer
      <4>3. PEOK(r, [RegisterPE(old, table[e], 0) EXCEPT !.TimerCode = timer])
        BY <3>1, <4>1, <4>2, <1>RegisteredOK
      <4>4. RegisterPE(old, table[e], 0).TimerCode = old.TimerCode
        BY <3>1 DEF RegisterPE, PEOK, PoolElementNode
      <4>5. PropagateTable(r, table)[e]
              = [RegisterPE(old, table[e], 0) EXCEPT
                   !.TimerCode = IF RegisterPE(old, table[e], 0).TimerCode = "none"
                                   THEN "EXPIRY"
                                   ELSE RegisterPE(old, table[e], 0).TimerCode]
        BY <3>3 DEF PropagateTable
      <4>6. QED
        BY <4>3, <4>4, <4>5
    <3>4. QED
      BY <3>2, <3>3
  <2>2. QED
    BY Zenon, <2>1, AllPEsOK DEF PropagateTable

\* Purging leaves a handlespace in order.
<1>PurgedOK.
  ASSUME NEW r \in Registrar, NEW s, NEW handlespace,
         HandlespaceOK(r, handlespace)
  PROVE  HandlespaceOK(r, PurgeMarkedPEs(handlespace, s))
  BY Zenon, <1>PurgedOK, NoPEOK, AllPEsOK DEF PurgeMarkedPEs, HandlespaceOK

\* Marking leaves a handlespace in order.
<1>MarkedOK.
  ASSUME NEW r \in Registrar, NEW s, NEW handlespace,
         HandlespaceOK(r, handlespace)
  PROVE  HandlespaceOK(r, MarkPEs(handlespace, s))
  <2> USE <1>MarkedOK
  <2>1. ASSUME NEW e \in PoolElement PROVE PEOK(r, MarkPEs(handlespace, s)[e])
    <3>1. PEOK(r, handlespace[e])
      BY DEF HandlespaceOK
    <3>2. PEOK(r, [handlespace[e] EXCEPT !.marked = TRUE])
      BY Zenon, <3>1 DEF PEOK, PoolElementNode
    <3>3. QED
      BY <3>1, <3>2 DEF MarkPEs
  <2>2. QED
    BY Zenon, <2>1, AllPEsOK DEF MarkPEs

\* Clearing the synchronization status leaves an entry in order.
<1>StatusOK.
  ASSUME NEW r \in Registrar, NEW s \in Registrar, PeersInv,
         peers' = [peers EXCEPT ![r][s].Status = @ \ {"MENTOR", "HTSYNC"}]
  PROVE  PeersInv'
  <2> USE <1>StatusOK
  <2> DEFINE node == [peers[r][s] EXCEPT
                        !.Status = peers[r][s].Status \ {"MENTOR", "HTSYNC"}]
  <2>1. PeerOK(r, s, peers[r][s])
    BY DEF PeersInv, PeerListOK
  <2>2. PeerOK(r, s, node)
    BY <2>1 DEF PeerOK, PeerListNode
  <2>3. peers' = [peers EXCEPT ![r][s] = node]
    BY Zenon DEF PeersInv
  <2> HIDE DEF node
  <2>4. QED
    BY Zenon, <2>2, <2>3, <1>OneEntry

\* registrarHandleENRPHandleTableResponse preserves the invariant.
<1>HandleTableResponseStep.
  ASSUME NEW r \in Registrar, NEW s \in Registrar, IInv,
         HandleENRPHandleTableResponse(r, s)
  PROVE  IInv'
  <2> USE <1>HandleTableResponseStep
  <2> DEFINE table == Head(net[s][r]).table
             hs == PropagateTable(r, table)
  <2> USE DEF IInv
  <2>0. Received(r, s, "HandleTableResponse")
    BY DEF HandleENRPHandleTableResponse, RequestNextChunk,
           CompleteSynchronization, SynchronizationRejected, IgnoreTable
  <2>1. HandlespaceOK(r, hs)
    BY <2>0, ReceivedMessage, <1>HandleTableResponseType, <1>PropagateOK
  <2>2. CASE RequestNextChunk(r, s)
    <3>1. pes' = [pes EXCEPT ![r] = hs]
      BY <2>2 DEF RequestNextChunk
    <3>2. PEsInv'
      BY Zenon, <2>1, <3>1, <1>OneHandlespace
    <3>3. TableRequest("MENTOR" \notin peers[r][s].Status) \in Message
      BY Zenon, TableRequestIsMessage
    <3>4. NetInv'
      BY Zenon, <2>0, <2>2, <3>3, OneToPeerOutput, <1>ReceiveNet DEF RequestNextChunk
    <3>5. QED
      BY Zenon, <2>2, <3>2, <3>4 DEF RequestNextChunk, PeersInv, RestInv
  <2>3. CASE CompleteSynchronization(r, s)
    <3>1. pes' = [pes EXCEPT ![r] = PurgeMarkedPEs(hs, s)]
      BY <2>3 DEF CompleteSynchronization
    <3>2. HandlespaceOK(r, PurgeMarkedPEs(hs, s))
      BY <2>1, <1>PurgedOK
    <3>3. PEsInv'
      BY Zenon, <3>1, <3>2, <1>OneHandlespace
    <3>4. PeersInv'
      BY Zenon, <2>3, <1>StatusOK DEF CompleteSynchronization
    <3>5. NetInv'
      BY <2>0, <2>3, SilenceOutput, <1>ReceiveNet DEF CompleteSynchronization
    <3>6. startup' \in [Registrar -> BOOLEAN]
      BY <2>3 DEF CompleteSynchronization, RestInv
    <3>7. QED
      BY <2>3, <3>3, <3>4, <3>5, <3>6 DEF CompleteSynchronization, RestInv
  <2>4. CASE SynchronizationRejected(r, s)
    <3>1. PeersInv'
      BY Zenon, <2>4, <1>StatusOK DEF SynchronizationRejected
    <3>2. NetInv'
      BY <2>0, <2>4, SilenceOutput, <1>ReceiveNet DEF SynchronizationRejected
    <3>3. QED
      BY <2>4, <3>1, <3>2 DEF SynchronizationRejected, PEsInv, RestInv
  <2>5. CASE IgnoreTable(r, s)
    <3>1. NetInv'
      BY <2>0, <2>5, SilenceOutput, <1>ReceiveNet DEF IgnoreTable
    <3>2. QED
      BY <2>5, <3>1 DEF IgnoreTable, PeersInv, PEsInv, RestInv
  <2>6. QED
    BY <2>2, <2>3, <2>4, <2>5 DEF HandleENRPHandleTableResponse

\* What a peer is sent at its first sign of life.
<1>GreetMessages.
  ASSUME NEW r \in Registrar, NEW s \in Registrar, PeersInv, RestInv
  PROVE  GreetPeer(r, s) \in Seq(Message)
  <2> USE <1>GreetMessages
  <2> DEFINE m1 == PresenceMessage(r, TRUE)
             m2 == [type |-> "ListRequest"]
             m3 == TableRequest(FALSE)
             q1 == If(~peers[r][s].known, <<m1>>)
             q2 == If(BecomesMentor(r), <<m2, m3>>)
  <2>1. m1 \in Message /\ m2 \in Message /\ m3 \in Message
    <3>1. m1 \in Message
      BY Zenon, PresenceIsMessage
    <3>2. m2 \in Message
      BY DEF Message
    <3>3. m3 \in Message
      BY Zenon, TableRequestIsMessage
    <3>4. QED
      BY Zenon, <3>1, <3>2, <3>3
  <2>2. GreetPeer(r, s) = q1 \o q2
    BY DEF GreetPeer
  <2> HIDE DEF m1, m2, m3
  <2>3. <<m1>> \in Seq(Message) /\ <<m2, m3>> \in Seq(Message)
    BY <2>1
  <2>4. q1 \in Seq(Message)
    BY <2>3 DEF If
  <2>5. q2 \in Seq(Message)
    BY <2>3 DEF If
  <2> HIDE DEF q1, q2
  <2>6. QED
    BY <2>2, <2>4, <2>5

\* The synchronization status only has its flags.
<1>MentorStatus.
  ASSUME NEW r \in Registrar, NEW s \in Registrar, PeersInv
  PROVE  StatusAfterMentorQuery(r, s) \in SUBSET PeerStatus
  <2> USE <1>MentorStatus
  <2>1. peers[r][s] \in PeerListNode
    BY DEF PeersInv
  <2>2. RegisterPeer(peers[r][s]).Status \in SUBSET PeerStatus
    BY <2>1 DEF RegisterPeer, NewPeer, NoPeer, PeerListNode
  <2>3. QED
    BY <2>2 DEF StatusAfterMentorQuery

\* A Presence that was multicast preserves the invariant.
<1>MulticastPresenceStep.
  ASSUME NEW r \in Registrar, NEW s \in Registrar, IInv,
         HandleMulticastPresence(r, s)
  PROVE  IInv'
  <2> USE <1>MulticastPresenceStep
  <2> DEFINE node == HeardPeer(r, s, StatusAfterMentorQuery(r, s))
  <2> USE DEF IInv
  <2>1. PeerOK(r, s, node)
    BY <1>MentorStatus, <1>HeardOK DEF PeersInv, PeerListOK
  <2>2. peers' = [peers EXCEPT ![r][s] = node]
    BY DEF HandleMulticastPresence
  <2> HIDE DEF node
  <2>3. PeersInv'
    BY Zenon, <2>1, <2>2, <1>OneEntry
  <2>4. NetInv'
    BY <1>GreetMessages, ToPeerOutput, <1>SendNet DEF HandleMulticastPresence
  <2>5. RestInv'
    BY DEF HandleMulticastPresence, RestInv, Handle
  <2>6. QED
    BY <2>3, <2>4, <2>5 DEF HandleMulticastPresence, PEsInv

\* registrarHandleENRPPresence preserves the invariant: the sign of life ends a
\* takeover and restarts the timer.
<1>PresenceStep.
  ASSUME NEW r \in Registrar, NEW s \in Registrar, IInv,
         HandleENRPPresence(r, s)
  PROVE  IInv'
  <2> USE <1>PresenceStep
  <2> DEFINE m == Head(net[s][r])
             sync == HandleTableOutdated(r, s, m.checksum)
             list == PeerListOutdated(r, s)
             status == StatusAfterMentorQuery(r, s)
                         \cup {x \in {"HTSYNC"} : sync}
                         \cup {x \in {"LISTSYNC"} : list}
             node == HeardPeer(r, s, status)
             q1 == GreetPeer(r, s)
             q2 == If(sync, <<TableRequest(TRUE)>>)
             q3 == If(list, <<[type |-> "ListRequest"]>>)
             q4 == If(m.reply, <<PresenceMessage(r, FALSE)>>)
  <2> USE DEF IInv
  <2>0. Received(r, s, "Presence")
    BY DEF HandleENRPPresence
  <2>1. PeersInv'
    <3>1. status \in SUBSET PeerStatus
      BY <1>MentorStatus DEF PeerStatus
    <3>2. peers' = [peers EXCEPT ![r][s] = node]
      BY DEF HandleENRPPresence
    <3> HIDE DEF status
    <3>3. PeerOK(r, s, node)
      BY <3>1, <1>HeardOK DEF PeersInv, PeerListOK
    <3> HIDE DEF node
    <3>4. QED
      BY Zenon, <3>2, <3>3, <1>OneEntry
  <2>2. PEsInv'
    <3> DEFINE hs == IF sync THEN MarkPEs(pes[r], s) ELSE pes[r]
    <3>1. HandlespaceOK(r, hs)
      BY <1>MarkedOK DEF PEsInv
    <3>2. pes' = [pes EXCEPT ![r] = hs]
      BY DEF HandleENRPPresence
    <3> HIDE DEF hs
    <3>3. QED
      BY Zenon, <3>1, <3>2, <1>OneHandlespace
  <2>3. ReceiveAndSend(r, s, ToPeer(s, q1 \o q2 \o q3 \o q4))
    BY DEF HandleENRPPresence
  <2>4. q1 \in Seq(Message)
    BY <1>GreetMessages
  <2>5. q2 \in Seq(Message)
    <3> DEFINE message == TableRequest(TRUE)
    <3>1. message \in Message
      BY Zenon, TableRequestIsMessage
    <3>2. q2 = If(sync, <<message>>)
      OBVIOUS
    <3> HIDE DEF message, q2
    <3>3. QED
      BY <3>1, <3>2, IfMessage
  <2>6. q3 \in Seq(Message)
    <3>1. [type |-> "ListRequest"] \in Message
      BY DEF Message
    <3>2. <<[type |-> "ListRequest"]>> \in Seq(Message)
      BY <3>1, OneMessage
    <3>3. QED
      BY <3>2 DEF If
  <2>7. q4 \in Seq(Message)
    <3> DEFINE message == PresenceMessage(r, FALSE)
    <3>1. message \in Message
      BY Zenon, PresenceIsMessage
    <3>2. q4 = If(m.reply, <<message>>)
      OBVIOUS
    <3> HIDE DEF message, q4
    <3>3. QED
      BY <3>1, <3>2, IfMessage
  <2>8. RestInv'
    BY DEF HandleENRPPresence, RestInv, Handle
  <2> HIDE DEF q1, q2, q3, q4
  <2>9. NetInv'
    <3>1. q1 \o q2 \o q3 \o q4 \in Seq(Message)
      BY <2>4, <2>5, <2>6, <2>7
    <3>2. QED
      BY Zenon, <2>0, <2>3, <3>1, ToPeerOutput, <1>ReceiveNet
  <2>10. QED
    BY <2>1, <2>2, <2>8, <2>9

\* Removing PEs leaves the handlespaces in order.
<1>RemoveStep.
  ASSUME NEW r \in Registrar, NEW S, PEsInv, RemovePEs(r, S)
  PROVE  PEsInv'
  <2> USE <1>RemoveStep
  <2> DEFINE hs == [e \in PoolElement |-> IF e \in S THEN NoPE ELSE pes[r][e]]
  <2>1. HandlespaceOK(r, hs)
    BY Zenon, NoPEOK, AllPEsOK DEF PEsInv, HandlespaceOK
  <2>2. pes' = [pes EXCEPT ![r] = hs]
    BY DEF RemovePEs
  <2> HIDE DEF hs
  <2>3. QED
    BY Zenon, <2>1, <2>2, <1>OneHandlespace

\* registrarHandleASAPRegistration preserves the invariant.
<1>RegistrationStep.
  ASSUME NEW r \in Registrar, NEW e \in PoolElement, NEW a \in Association,
         IInv, HandleASAPRegistration(r, e, a)
  PROVE  IInv'
  <2> USE <1>RegistrationStep
  <2> DEFINE node == [RegisterPE(pes[r][e], r, a)
                        EXCEPT !.TimerCode = "KEEPALIVE_TRANSMISSION"]
  <2> USE DEF IInv
  <2>1. PEOK(r, pes[r][e])
    BY DEF PEsInv, HandlespaceOK
  <2>2. PEOK(r, node)
    BY <2>1, <1>RegisteredOK DEF PETimer
  <2>3. pes' = [pes EXCEPT ![r][e] = node]
    BY DEF HandleASAPRegistration, PEsInv
  <2> HIDE DEF node
  <2>4. PEsInv'
    BY Zenon, <2>2, <2>3, <1>OnePE
  <2>5. NetInv'
    BY UpdateOutput, <1>SendNet DEF HandleASAPRegistration
  <2>6. spent' \in [EventKind -> Nat]
    BY <1>SpendType DEF HandleASAPRegistration, EventKind
  <2>7. QED
    BY <2>4, <2>5, <2>6 DEF HandleASAPRegistration, PeersInv, RestInv

\* registrarHandleASAPDeregistration preserves the invariant.
<1>DeregistrationStep.
  ASSUME NEW r \in Registrar, NEW e \in PoolElement, IInv,
         HandleASAPDeregistration(r, e)
  PROVE  IInv'
  <2> USE <1>DeregistrationStep
  <2> USE DEF IInv
  <2>1. PEsInv'
    BY <1>RemoveStep DEF HandleASAPDeregistration
  <2>2. NetInv'
    BY UpdateOutput, <1>SendNet DEF HandleASAPDeregistration
  <2>3. spent' \in [EventKind -> Nat]
    BY <1>SpendType DEF HandleASAPDeregistration, EventKind
  <2>4. QED
    BY <2>1, <2>2, <2>3 DEF HandleASAPDeregistration, PeersInv, RestInv

\* The timer of a registered PE may be replaced by a keep-alive timer.
<1>KeepAliveTimer.
  ASSUME NEW r \in Registrar, NEW e \in PoolElement, PEsInv,
         NEW timer \in {"KEEPALIVE_TRANSMISSION", "KEEPALIVE_TIMEOUT"},
         pes[r][e].home # UNDEFINED,
         pes' = [pes EXCEPT ![r][e].TimerCode = timer]
  PROVE  PEsInv'
  <2> USE <1>KeepAliveTimer
  <2> DEFINE node == [pes[r][e] EXCEPT !.TimerCode = timer]
  <2>1. PEOK(r, pes[r][e])
    BY DEF PEsInv, HandlespaceOK
  <2>2. PEOK(r, node)
    BY <2>1 DEF PEOK, PoolElementNode, PETimer
  <2>3. pes' = [pes EXCEPT ![r][e] = node]
    BY DEF PEsInv
  <2> HIDE DEF node
  <2>4. QED
    BY Zenon, <2>2, <2>3, <1>OnePE

\* registrarHandlePoolElementEvent preserves the invariant.
<1>PoolElementEventStep.
  ASSUME NEW r \in Registrar, NEW e \in PoolElement, IInv,
         HandlePoolElementEvent(r, e)
  PROVE  IInv'
  <2> USE <1>PoolElementEventStep
  <2> USE DEF IInv
  <2>1. CASE KeepAliveTransmission(r, e)
    <3>1. PEOK(r, pes[r][e])
      BY DEF PEsInv, HandlespaceOK
    <3>2. pes[r][e].home # UNDEFINED
      BY <2>1, <3>1 DEF KeepAliveTransmission, PEOK
    <3>3. PEsInv'
      BY ZenonT(40), <2>1, <3>2, <1>KeepAliveTimer DEF KeepAliveTransmission
    <3>4. spent' \in [EventKind -> Nat]
      BY <2>1, <1>SpendType DEF KeepAliveTransmission, EventKind
    <3>5. RestInv'
      BY <2>1, <3>4 DEF KeepAliveTransmission, RestInv
    <3>6. QED
      BY <2>1, <3>3, <3>5 DEF KeepAliveTransmission, PeersInv, NetInv
  <2>2. CASE PoolElementTimeout(r, e)
    <3>1. PEsInv'
      BY <2>2, <1>RemoveStep DEF PoolElementTimeout
    <3>2. NetInv'
      BY <2>2, RemovalOutput, <1>SendNet DEF PoolElementTimeout
    <3>3. spent' \in [EventKind -> Nat]
      <4>1. CASE Orphaned(e)
        BY <2>2, <4>1 DEF PoolElementTimeout, RestInv
      <4>2. CASE ~Orphaned(e)
        BY <2>2, <4>2, <1>SpendType DEF PoolElementTimeout, EventKind
      <4>3. QED
        BY <4>1, <4>2
    <3>4. QED
      BY Zenon, <2>2, <3>1, <3>2, <3>3 DEF PoolElementTimeout, PeersInv, RestInv
  <2>3. QED
    BY <2>1, <2>2 DEF HandlePoolElementEvent

\* registrarHandleASAPEndpointKeepAliveAck preserves the invariant: an answer of
\* a PE that has been removed meanwhile starts no timer.
<1>KeepAliveAckStep.
  ASSUME NEW r \in Registrar, NEW e \in PoolElement, IInv,
         HandleASAPEndpointKeepAliveAck(r, e)
  PROVE  IInv'
  <2> USE <1>KeepAliveAckStep
  <2> USE DEF IInv
  <2>1. PEsInv'
    <3>1. CASE e \in Registered(r)
      <4>1. /\ pes[r][e].home # UNDEFINED
            /\ pes' = [pes EXCEPT ![r][e].TimerCode = "KEEPALIVE_TRANSMISSION"]
        BY <3>1 DEF HandleASAPEndpointKeepAliveAck, Registered
      <4>2. QED
        BY Zenon, <4>1, <1>KeepAliveTimer
    <3>2. CASE e \notin Registered(r)
      <4>1. pes' = [pes EXCEPT ![r][e].TimerCode = pes[r][e].TimerCode]
        BY <3>2 DEF HandleASAPEndpointKeepAliveAck
      <4>2. pes' = pes
        BY <4>1 DEF PEsInv, PoolElementNode
      <4>3. QED
        BY <4>2 DEF PEsInv
    <3>3. QED
      BY <3>1, <3>2
  <2>2. QED
    BY Zenon, <2>1
       DEF HandleASAPEndpointKeepAliveAck, PeersInv, NetInv, RestInv

\* registrarRemovePoolElementsOfConnection preserves the invariant.
<1>AssociationLostStep.
  ASSUME NEW r \in Registrar, NEW a \in Association, IInv, AssociationLost(r, a)
  PROVE  IInv'
  <2> USE <1>AssociationLostStep
  <2> DEFINE S   == PEsOfConnection(r, a)
             own == S \cap OwnedBy(r, r)
             n   == Cardinality(own)
             updates(q) == [i \in 1 .. n |->
                              HandleUpdateMessage(q[i], r, "DEL_PE")]
             out(q) == [d \in Registrar |->
                          IF d \in Peers(r) THEN updates(q) ELSE <<>>]
  <2> USE DEF IInv
  <2>1. PEsInv'
    BY <1>RemoveStep DEF AssociationLost
  <2>2. n \in Nat /\ own \subseteq PoolElement
    <3>1. own \subseteq PoolElement
      BY DEF PEsOfConnection
    <3>2. QED
      BY <3>1, PoolElementAssumption
  <2>3. PICK q \in [1 .. n -> own] : Send(r, out(q))
    BY Zenon DEF AssociationLost
  <2>4. ASSUME NEW i \in 1 .. n
        PROVE  HandleUpdateMessage(q[i], r, "DEL_PE") \in Message
    <3>1. q[i] \in PoolElement
      BY Zenon, <2>2, <2>3
    <3>2. QED
      BY Zenon, <3>1, UpdateIsMessage
  <2>5. NetInv'
    <3> DEFINE sent == updates(q)
    <3>1. sent \in [1 .. n -> Message]
      BY Zenon, <2>4
    <3>2. Send(r, [d \in Registrar |-> IF d \in Peers(r) THEN sent ELSE <<>>])
      BY <2>3
    <3> HIDE DEF sent, n
    <3>3. sent \in Seq(Message)
      BY <2>2, <3>1
    <3>4. [d \in Registrar |-> IF d \in Peers(r) THEN sent ELSE <<>>] \in Output
      BY <3>3 DEF Output
    <3>5. QED
      BY <3>2, <3>4, <1>SendNet
  <2>6. spent' \in [EventKind -> Nat]
    BY <1>SpendType DEF AssociationLost, EventKind
  <2>7. QED
    BY <2>1, <2>5, <2>6 DEF AssociationLost, PeersInv, RestInv

\* registrarHandleASAPEndpointUnreachable preserves the invariant: at the limit of
\* reports the PE is removed.
<1>UnreachableStep.
  ASSUME NEW r \in Registrar, NEW e \in PoolElement, IInv,
         HandleASAPEndpointUnreachable(r, e)
  PROVE  IInv'
  <2> USE <1>UnreachableStep
  <2> DEFINE reports == pes[r][e].reports + 1
             node == [pes[r][e] EXCEPT !.reports = reports]
  <2> USE DEF IInv
  <2>1. PEsInv' /\ NetInv'
    <3>1. CASE BadReports(reports)
      <4>1. RemovePEs(r, {e}) /\ Send(r, RemovalUpdate(r, e))
        BY <3>1 DEF HandleASAPEndpointUnreachable
      <4>2. QED
        BY <4>1, <1>RemoveStep, RemovalOutput, <1>SendNet
    <3>2. CASE ~BadReports(reports)
      <4>1. pes' = [pes EXCEPT ![r][e].reports = reports] /\ UNCHANGED net
        BY <3>2 DEF HandleASAPEndpointUnreachable
      <4>2. PEOK(r, pes[r][e])
        BY DEF PEsInv, HandlespaceOK
      <4>3. reports \in 0 .. (MaxBadPEReports - 1)
        BY <3>2, <4>2, LimitAssumption DEF BadReports, PEOK, PoolElementNode
      <4>4. pes' = [pes EXCEPT ![r][e] = node]
        BY <4>1 DEF PEsInv
      <4> HIDE DEF reports
      <4>5. PEOK(r, node)
        BY <4>2, <4>3 DEF PEOK, PoolElementNode
      <4> HIDE DEF node
      <4>6. PEsInv'
        BY Zenon, <4>4, <4>5, <1>OnePE
      <4>7. QED
        BY <4>1, <4>6 DEF NetInv
    <3>3. QED
      BY <3>1, <3>2
  <2>2. spent' \in [EventKind -> Nat]
    BY <1>SpendType DEF HandleASAPEndpointUnreachable, EventKind
  <2>3. QED
    BY Zenon, <2>1, <2>2 DEF HandleASAPEndpointUnreachable, PeersInv, RestInv

\* The failure of a registrar preserves the invariant.
<1>CrashStep.
  ASSUME NEW r \in Registrar, IInv, Crash(r)
  PROVE  IInv'
  <2> USE <1>CrashStep
  <2> USE DEF IInv
  <2>1. PeersInv'
    <3> DEFINE list == [p \in Registrar |-> NoPeer]
    <3>1. PeerListOK(r, list)
      BY NoPeerOK DEF PeerListOK, PeerOK
    <3>2. peers' = [peers EXCEPT ![r] = list]
      BY DEF Crash
    <3> HIDE DEF list
    <3>3. QED
      BY Zenon, <3>1, <3>2, <1>OnePeerList
  <2>2. PEsInv'
    <3> DEFINE hs == [e \in PoolElement |-> NoPE]
    <3>1. HandlespaceOK(r, hs)
      BY NoPEOK, AllPEsOK
    <3>2. pes' = [pes EXCEPT ![r] = hs]
      BY DEF Crash
    <3> HIDE DEF hs
    <3>3. QED
      BY Zenon, <3>1, <3>2, <1>OneHandlespace
  <2>3. NetInv'
    BY DEF Crash, NetInv
  <2>4. spent' \in [EventKind -> Nat]
    BY <1>SpendType DEF Crash, EventKind
  <2>5. RestInv'
    BY <2>4 DEF Crash, RestInv, Handle
  <2>6. QED
    BY <2>1, <2>2, <2>3, <2>5

\* So does the start of one.
<1>StartStep.
  ASSUME NEW r \in Registrar, IInv, Start(r)
  PROVE  IInv'
  <2> USE <1>StartStep
  <2>1. spent' \in [EventKind -> Nat]
    BY <1>SpendType DEF Start, EventKind, IInv
  <2>2. QED
    BY <2>1 DEF Start, IInv, PeersInv, PEsInv, NetInv, RestInv

\* So does the loss of messages.
<1>LossStep.
  ASSUME NEW r \in Registrar, NEW s \in Registrar, IInv,
         LoseAssociation(r, s) \/ LoseMulticast(r, s)
  PROVE  IInv'
  <2> USE <1>LossStep
  <2> USE DEF IInv
  <2>1. CASE LoseAssociation(r, s)
    <3>1. NetInv'
      BY <2>1 DEF LoseAssociation, NetInv
    <3>2. spent' \in [EventKind -> Nat]
      BY <2>1, <1>SpendType DEF LoseAssociation, EventKind
    <3>3. QED
      BY <2>1, <3>1, <3>2 DEF LoseAssociation, PeersInv, PEsInv, RestInv
  <2>2. CASE LoseMulticast(r, s)
    BY Zenon, <2>2 DEF LoseMulticast, PeersInv, PEsInv, NetInv, RestInv
  <2>3. QED
    BY <2>1, <2>2

\* Every message handler preserves the invariant.
<1>MessageStep.
  ASSUME NEW r \in Registrar, NEW s \in Registrar, IInv, HandleMessage(r, s)
  PROVE  IInv'
  BY <1>MessageStep, <1>MulticastPresenceStep, <1>PresenceStep, <1>HandleUpdateStep, <1>ListRequestStep,
     <1>ListResponseStep, <1>HandleTableRequestStep, <1>HandleTableResponseStep,
     <1>InitTakeoverStep, <1>InitTakeoverAckStep, <1>TakeoverServerStep
     DEF HandleMessage
<1> SUFFICES ASSUME IInv, [Next]_vars PROVE IInv'
  OBVIOUS
<1>1. ASSUME NEW r \in Registrar,
             Crash(r) \/ Start(r) \/ HandleENRPAnnounceTimer(r)
      PROVE  IInv'
  BY <1>1, <1>CrashStep, <1>StartStep, <1>AnnounceStep
<1>2. ASSUME NEW r \in Registrar, NEW s \in Registrar,
             \/ HandleMessage(r, s)
             \/ HandlePeerEvent(r, s)
             \/ LoseAssociation(r, s)
             \/ LoseMulticast(r, s)
      PROVE  IInv'
  BY <1>2, <1>MessageStep, <1>PeerEventStep, <1>LossStep
<1>3. ASSUME NEW r \in Registrar, NEW e \in PoolElement,
             \/ \E a \in Association : HandleASAPRegistration(r, e, a)
             \/ HandleASAPDeregistration(r, e)
             \/ HandlePoolElementEvent(r, e)
             \/ HandleASAPEndpointKeepAliveAck(r, e)
             \/ HandleASAPEndpointUnreachable(r, e)
      PROVE  IInv'
  BY <1>3, <1>RegistrationStep, <1>DeregistrationStep, <1>PoolElementEventStep,
     <1>KeepAliveAckStep, <1>UnreachableStep
<1>4. ASSUME NEW r \in Registrar, NEW a \in Association, AssociationLost(r, a)
      PROVE  IInv'
  BY <1>4, <1>AssociationLostStep
<1>5. CASE UNCHANGED vars
  BY <1>5 DEF vars, IInv, PeersInv, PEsInv, NetInv, RestInv
<1>6. QED
  BY <1>1, <1>2, <1>3, <1>4, <1>5 DEF Next

\* The invariant holds in all reachable states.
THEOREM Invariance ==
 Spec => []IInv
  BY InitInv, NextInv, PTL DEF Spec

-----------------------------------------------------------------------------
(* What follows from it *)

\* Type correctness: in particular, no PE is kept that has reached the limit of
\* unreachability reports (registrarHandleASAPEndpointUnreachable).
THEOREM TypeCorrect ==
 Spec => []TypeOK
  <1>1. IInv => TypeOK
    BY DEF IInv, PeersInv, PEsInv, NetInv, RestInv, TypeOK, Handle
  <1>2. QED
    BY <1>1, Invariance, PTL

\* Every entry of every peer list has a timer, a takeover process exists exactly
\* while its expiry timer runs (the CHECK in registrarHandlePeerEvent never
\* fails), and never waits for its target or its initiator (takeoverProcessNew).
THEOREM PeersSupervisedCorrect ==
 Spec => []PeersSupervised
  <1>1. IInv => PeersSupervised
    BY DEF IInv, PeersInv, PeerListOK, PeerOK, PeersSupervised
  <1>2. QED
    BY <1>1, Invariance, PTL

\* Every PE of every handlespace has a timer, and a registrar monitors all its own
\* PEs by keep-alives, also those it has taken over
\* (registrarHandlePoolElementEvent, registrarFinishTakeover).
THEOREM PEsSupervisedCorrect ==
 Spec => []PEsSupervised
  <1>1. IInv => PEsSupervised
    BY DEF IInv, PEsInv, HandlespaceOK, PEOK, PEsSupervised
  <1>2. QED
    BY <1>1, Invariance, PTL

=============================================================================
