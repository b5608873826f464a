--------------------------- MODULE TakeoverProofs ---------------------------
(***************************************************************************)
(* The takeover procedure, proved for any number of registrars, PEs and    *)
(* failures: no PE gets two homes.  What the registrars believe about a PE *)
(* is explained by the history of the takeovers: of two registrars some    *)
(* handlespace or message names as home of a PE, one has taken over the    *)
(* other, and all that run have agreed to it.                              *)
(***************************************************************************)
EXTENDS RegistrarProofs

-----------------------------------------------------------------------------
(* What the takeovers rely on *)

\* The message m is under way from s to d.
InSeq(m, q) == \E i \in DOMAIN q : m = q[i]

InNet(m, s, d) == InSeq(m, net[s][d])

\* The message m tells its receiver that h is the home of e.
Tells(m, e, h) ==
  \/ m.type = "HandleTableResponse" /\ m.table[e] = h
  \/ m.type = "HandleUpdate" /\ m.action = "ADD_PE" /\ m.pe = e /\ m.home = h

\* Some registrar believes that h is the home of e, or is going to be told so.
Believed(e, h) ==
  \/ \E r \in Registrar : pes[r][e].home = h
  \/ \E s, d \in Registrar : \E m \in Message : InNet(m, s, d) /\ Tells(m, e, h)

\* An entry of a peer list which does not lead to a takeover of the peer.
SettledNode(node) ==
  /\ ~node.TakeoverProcess
  /\ node.known => node.TakeoverRegistrarID # UNDEFINED

\* Registrar q does not try to take over t, and is not going to.
Settled(q, t) == SettledNode(peers[q][t])

\* The steps of a group of registrars which the timers and the network serve
\* well: none of them starts anew; a peer is given up only after it has failed
\* (PLNT_MAX_TIME_NO_RESPONSE is longer than a Presence needs); the last
\* Presence of a failed peer is not handled after its takeover has been agreed
\* to; and a PE registers at its home, or at any registrar if none knows it.
Orderly ==
  /\ running' \subseteq running
  /\ \A r, s \in Registrar :
       /\ NoResponseTakeover(r, s) \/ NoResponseForget(r, s) => s \notin running
       /\ HandleENRPPresence(r, s) \/ HandleMulticastPresence(r, s) =>
            s \in running \/ ~Settled(r, s)
  /\ \A r \in Registrar, e \in PoolElement, a \in Association :
       HandleASAPRegistration(r, e, a) =>
         pes[r][e].home = r \/ \A h \in Registrar : ~Believed(e, h)

-----------------------------------------------------------------------------
(* The inductive invariant *)

\* The registrars that run are past their startup, know each other and have
\* synchronized their peer lists; those that have failed have left nothing.
GroupInv ==
  /\ \A r \in Registrar \ running :
       /\ \A p \in Registrar : peers[r][p] = NoPeer
       /\ \A e \in PoolElement : pes[r][e].home = UNDEFINED
  /\ \A r \in running : ~startup[r]
  /\ \A r \in running : \A p \in Registrar \ {r} :
       /\ peers[r][p].known => "LISTSYNC" \in peers[r][p].Status
       /\ p \in running => peers[r][p].known

\* The messages of a takeover are about a failed registrar, and who has
\* acknowledged a takeover has given up its own.
MessageInv ==
  \A s, d \in Registrar : \A m \in Message : InNet(m, s, d) =>
    /\ m.type \notin {"ListRequest", "ListResponse"}
    /\ m.type \in {"InitTakeover", "InitTakeoverAck"} => m.target \notin running
    /\ m.type = "InitTakeoverAck" => Settled(s, m.target)

\* What entitles r to take over t, with the given entry: whoever it does not
\* wait for any more does not take over t.
Entitled(r, t, node) ==
  /\ t \notin running
  /\ \A q \in Registrar \ {r} : q \notin node.OutstandingAcks => Settled(q, t)

\* Every takeover under way is of a failed registrar.
ProcessInv ==
  \A r, t \in Registrar :
    peers[r][t].TakeoverProcess => Entitled(r, t, peers[r][t])

\* t has failed, and nobody takes it over any more.
Taken(t) == t \notin running /\ \A q \in Registrar : Settled(q, t)

\* R[t] are those who have taken over the PEs of t, one after the other: a
\* transitive relation, linear on each R[t].
TakeoverOrder(R) ==
  /\ \A a, b, c \in Registrar : b \in R[a] /\ c \in R[b] => c \in R[a]
  /\ \A a, b, c \in Registrar :
       b \in R[a] /\ c \in R[a] => b = c \/ c \in R[b] \/ b \in R[c]
  /\ \A a \in Registrar : R[a] # {} => Taken(a)

\* Any two homes believed of a PE are related by takeovers.
Explained(R) ==
  \A e \in PoolElement : \A g, h \in Registrar :
    Believed(e, g) /\ Believed(e, h) => g = h \/ h \in R[g] \/ g \in R[h]

\* A TakeoverServer message is sent by the first one to take over its target.
Announced(R) ==
  \A s, d \in Registrar : \A m \in Message :
    InNet(m, s, d) /\ m.type = "TakeoverServer" =>
      s \in R[m.target] /\ \A x \in R[m.target] : x = s \/ x \in R[s]

HistoryInv ==
  \E R \in [Registrar -> SUBSET Registrar] :
    TakeoverOrder(R) /\ Explained(R) /\ Announced(R)

TakeoverInv == GroupInv /\ MessageInv /\ ProcessInv /\ HistoryInv

-----------------------------------------------------------------------------
(* Messages under way *)

\* The members of a concatenation.
LEMMA InConcat ==
  ASSUME NEW S, NEW a \in Seq(S), NEW b \in Seq(S), NEW m, InSeq(m, a \o b)
  PROVE  InSeq(m, a) \/ InSeq(m, b)
  <1>1. PICK i \in DOMAIN (a \o b) : m = (a \o b)[i]
    BY DEF InSeq
  <1>2. i \in 1 .. (Len(a) + Len(b))
    BY <1>1
  <1>3. CASE i <= Len(a)
    BY <1>1, <1>2, <1>3 DEF InSeq
  <1>4. CASE i > Len(a)
    <2>1. i - Len(a) \in DOMAIN b /\ (a \o b)[i] = b[i - Len(a)]
      BY <1>2, <1>4
    <2>2. QED
      BY <1>1, <2>1 DEF InSeq
  <1>5. QED
    BY <1>2, <1>3, <1>4

\* The members of a tail.
LEMMA InTail ==
  ASSUME NEW S, NEW a \in Seq(S), a # <<>>, NEW m, InSeq(m, Tail(a))
  PROVE  InSeq(m, a)
  <1>1. PICK i \in DOMAIN Tail(a) : m = Tail(a)[i]
    BY DEF InSeq
  <1>2. i + 1 \in DOMAIN a /\ Tail(a)[i] = a[i + 1]
    BY <1>1
  <1>3. QED
    BY <1>1, <1>2 DEF InSeq

\* What is under way after r has sent out.
LEMMA SentMessages ==
  ASSUME NEW r \in Registrar, NEW out \in Output, NetInv, Send(r, out),
         NEW s \in Registrar, NEW d \in Registrar, NEW m, InNet(m, s, d)'
  PROVE  InNet(m, s, d) \/ (s = r /\ d \in running /\ InSeq(m, out[d]))
  <1>1. /\ net[s][d] \in Seq(Message) /\ out[d] \in Seq(Message)
        /\ net'[s][d] = IF s = r /\ d \in running THEN net[s][d] \o out[d]
                                                  ELSE net[s][d]
    BY DEF NetInv, Output, Send
  <1>2. CASE s = r /\ d \in running
    <2>1. InSeq(m, net[s][d] \o out[d])
      BY <1>1, <1>2 DEF InNet
    <2>2. QED
      BY <1>1, <1>2, <2>1, InConcat DEF InNet
  <1>3. CASE ~(s = r /\ d \in running)
    BY <1>1, <1>3 DEF InNet
  <1>4. QED
    BY <1>2, <1>3

\* What is under way after r has taken a message from q and has sent out.
LEMMA ReceivedMessages ==
  ASSUME NEW r \in Registrar, NEW q \in Registrar, NEW type, NEW out \in Output,
         NetInv, Received(r, q, type), ReceiveAndSend(r, q, out),
         NEW s \in Registrar, NEW d \in Registrar, NEW m, InNet(m, s, d)'
  PROVE  InNet(m, s, d) \/ (s = r /\ InSeq(m, out[d]))
  <1>1. /\ net[s][d] \in Seq(Message) /\ out[d] \in Seq(Message)
        /\ q # r /\ net[q][r] # <<>>
    BY DEF NetInv, Output, Received
  <1>2. net'[s][d] = IF s = r
                       THEN IF d \in running THEN net[s][d] \o out[d]
                                             ELSE net[s][d]
                       ELSE IF s = q /\ d = r THEN Tail(net[s][d])
                                              ELSE net[s][d]
    BY Zenon, <1>1 DEF NetInv, ReceiveAndSend
  <1>3. CASE s = r /\ d \in running
    <2>1. InSeq(m, net[s][d] \o out[d])
      BY <1>2, <1>3 DEF InNet
    <2>2. QED
      BY <1>1, <1>3, <2>1, InConcat DEF InNet
  <1>4. CASE s = q /\ d = r
    <2>1. InSeq(m, Tail(net[s][d])) /\ net[s][d] # <<>>
      BY <1>1, <1>2, <1>4 DEF InNet
    <2>2. QED
      BY <1>1, <2>1, InTail DEF InNet
  <1>5. CASE ~(s = r /\ d \in running) /\ ~(s = q /\ d = r)
    BY <1>1, <1>2, <1>5 DEF InNet
  <1>6. QED
    BY <1>3, <1>4, <1>5

\* The message a handler takes was under way.
LEMMA HeadInNet ==
  ASSUME NEW r \in Registrar, NEW s \in Registrar, NEW type, NetInv,
         Received(r, s, type)
  PROVE  InNet(Head(net[s][r]), s, r)
  <1>1. net[s][r] \in Seq(Message) /\ net[s][r] # <<>>
    BY DEF NetInv, Received
  <1>2. 1 \in DOMAIN net[s][r] /\ Head(net[s][r]) = net[s][r][1]
    BY <1>1
  <1>3. QED
    BY <1>2 DEF InNet, InSeq

\* Sending nothing, sending to one registrar, sending to all peers.
LEMMA InSilence ==
  ASSUME NEW d \in Registrar, NEW m
  PROVE  ~InSeq(m, Silence[d])
  BY DEF InSeq, Silence

LEMMA InToPeer ==
  ASSUME NEW p, NEW q, NEW d \in Registrar, NEW m, InSeq(m, ToPeer(p, q)[d])
  PROVE  InSeq(m, q)
  BY DEF InSeq, ToPeer, Silence

LEMMA InOne ==
  ASSUME NEW m, NEW message, InSeq(m, <<message>>)
  PROVE  m = message
  BY DEF InSeq

LEMMA InToAll ==
  ASSUME NEW r, NEW message, NEW d \in Registrar, NEW m,
         InSeq(m, ToAll(r, message)[d])
  PROVE  m = message
  BY DEF InSeq, ToAll

-----------------------------------------------------------------------------
(* What a step may do *)

\* What a step may make of the entry registrar r has for p.
EntryStep(r, p, node) ==
  /\ p \notin running /\ Settled(r, p) => SettledNode(node)
  /\ node.TakeoverProcess => Entitled(r, p, node)
  /\ p # r => /\ node.known => "LISTSYNC" \in node.Status
              /\ p \in running => node.known

\* What a step may make of the group and of the peer lists.
PeersStep ==
  /\ running' \subseteq running
  /\ \A q \in running' : ~startup'[q]
  /\ \A q \in Registrar \ running' : \A p \in Registrar : peers'[q][p] = NoPeer
  /\ \A q \in running' : \A p \in Registrar : EntryStep(q, p, peers'[q][p])

\* What s may send, as far as takeovers are concerned.
SafeMessage(s, m) ==
  /\ m.type \notin {"ListRequest", "ListResponse"}
  /\ m.type \in {"InitTakeover", "InitTakeoverAck"} => m.target \notin running
  /\ m.type = "InitTakeoverAck" => Settled(s, m.target)'

NetStep ==
  \A s, d \in Registrar : \A m \in Message :
    InNet(m, s, d)' => InNet(m, s, d) \/ SafeMessage(s, m)

\* What a message may tell: what is already believed.
KnownMessage(m) ==
  /\ m.type # "TakeoverServer"
  /\ \A e \in PoolElement, h \in Registrar : Tells(m, e, h) => Believed(e, h)

\* The registrars that do not run have no handlespace.
NothingLeft ==
  \A q \in Registrar \ running' : \A e \in PoolElement :
    pes'[q][e].home = UNDEFINED

\* An absent entry is settled.
LEMMA NoPeerSettled ==
 SettledNode(NoPeer) /\ ~NoPeer.TakeoverProcess
  BY DEF SettledNode, NoPeer

\* Whoever has given up the takeover of a failed registrar starts none again.
LEMMA SettledKept ==
  ASSUME PeersStep, NEW q \in Registrar, NEW t \in Registrar,
         t \notin running, Settled(q, t)
  PROVE  Settled(q, t)'
  <1>1. CASE q \in running'
    BY <1>1 DEF PeersStep, EntryStep, Settled
  <1>2. CASE q \notin running'
    BY <1>2, NoPeerSettled DEF PeersStep, Settled
  <1>3. QED
    BY <1>1, <1>2

\* What has been taken over stays so.
LEMMA TakenKept ==
  ASSUME PeersStep, NEW t \in Registrar, Taken(t)
  PROVE  Taken(t)'
  <1>1. t \notin running /\ t \notin running'
    BY DEF Taken, PeersStep
  <1>2. ASSUME NEW q \in Registrar PROVE Settled(q, t)'
    BY <1>1, SettledKept DEF Taken
  <1>3. QED
    BY <1>1, <1>2 DEF Taken

\* The invariant, except for the beliefs.
LEMMA GroupKept ==
  ASSUME IInv, IInv', PeersStep, NetStep, NothingLeft, MessageInv
  PROVE  GroupInv' /\ MessageInv' /\ ProcessInv'
  <1>1. running' \subseteq running /\ running \subseteq Registrar
    BY DEF PeersStep, IInv, RestInv
  <1>2. GroupInv'
    <2>1. ASSUME NEW r \in running', NEW p \in Registrar \ {r}
          PROVE  /\ peers'[r][p].known => "LISTSYNC" \in peers'[r][p].Status
                 /\ p \in running' => peers'[r][p].known
      BY <1>1 DEF PeersStep, EntryStep
    <2>2. QED
      BY <2>1 DEF GroupInv, PeersStep, NothingLeft
  <1>3. MessageInv'
    <2> SUFFICES ASSUME NEW s \in Registrar, NEW d \in Registrar,
                        NEW m \in Message, InNet(m, s, d)'
                 PROVE  /\ m.type \notin {"ListRequest", "ListResponse"}
                        /\ m.type \in {"InitTakeover", "InitTakeoverAck"} =>
                             m.target \notin running'
                        /\ m.type = "InitTakeoverAck" => Settled(s, m.target)'
      BY DEF MessageInv
    <2>1. CASE InNet(m, s, d)
      <3>1. /\ m.type \notin {"ListRequest", "ListResponse"}
            /\ m.type \in {"InitTakeover", "InitTakeoverAck"} =>
                 m.target \notin running
            /\ m.type = "InitTakeoverAck" => Settled(s, m.target)
        BY <2>1 DEF MessageInv
      <3>2. m.type = "InitTakeoverAck" => Settled(s, m.target)'
        BY <3>1, SettledKept, TargetType
      <3>3. QED
        BY <1>1, <3>1, <3>2
    <2>2. CASE SafeMessage(s, m)
      BY <1>1, <2>2 DEF SafeMessage
    <2>3. QED
      BY <2>1, <2>2 DEF NetStep
  <1>4. ProcessInv'
    <2> SUFFICES ASSUME NEW r \in Registrar, NEW t \in Registrar,
                        peers'[r][t].TakeoverProcess
                 PROVE  Entitled(r, t, peers[r][t])'
      BY DEF ProcessInv
    <2>1. r \in running'
      BY NoPeerSettled DEF PeersStep
    <2>2. Entitled(r, t, peers'[r][t])
      BY <2>1 DEF PeersStep, EntryStep
    <2>3. t \notin running /\ t \notin running'
      BY <1>1, <2>2 DEF Entitled
    <2>4. ASSUME NEW q \in Registrar \ {r}, q \notin peers'[r][t].OutstandingAcks
          PROVE  Settled(q, t)'
      BY <2>2, <2>3, <2>4, SettledKept DEF Entitled
    <2>5. QED
      BY <2>3, <2>4 DEF Entitled
  <1>5. QED
    BY <1>2, <1>3, <1>4

\* The beliefs do not grow, and nothing new is announced.
LEMMA HistoryKept ==
  ASSUME PeersStep, HistoryInv,
         \A e \in PoolElement, h \in Registrar : Believed(e, h)' => Believed(e, h),
         \A s, d \in Registrar : \A m \in Message :
           InNet(m, s, d)' /\ m.type = "TakeoverServer" => InNet(m, s, d)
  PROVE  HistoryInv'
  <1>1. PICK R \in [Registrar -> SUBSET Registrar] :
          TakeoverOrder(R) /\ Explained(R) /\ Announced(R)
    BY DEF HistoryInv
  <1>2. TakeoverOrder(R)'
    <2>1. \A a \in Registrar : R[a] # {} => Taken(a)'
      BY <1>1, TakenKept DEF TakeoverOrder
    <2>2. QED
      BY <1>1, <2>1 DEF TakeoverOrder
  <1>3. Explained(R)'
    BY <1>1 DEF Explained
  <1>4. Announced(R)'
    BY <1>1 DEF Announced
  <1>5. QED
    BY <1>2, <1>3, <1>4 DEF HistoryInv

\* A step that adds nothing to what is believed preserves the invariant.
LEMMA QuietStep ==
  ASSUME IInv, IInv', TakeoverInv, PeersStep,
         \A q \in Registrar, e \in PoolElement : pes'[q][e].home # UNDEFINED =>
           q \in running' /\ Believed(e, pes'[q][e].home),
         \A s, d \in Registrar : \A m \in Message : InNet(m, s, d)' =>
           InNet(m, s, d) \/ (SafeMessage(s, m) /\ KnownMessage(m))
  PROVE  TakeoverInv'
  <1>1. NetStep /\ NothingLeft
    BY DEF NetStep, NothingLeft
  <1>2. ASSUME NEW e \in PoolElement, NEW h \in Registrar, Believed(e, h)'
        PROVE  Believed(e, h)
    <2>1. CASE \E r \in Registrar : pes'[r][e].home = h
      BY <2>1, RegistrarAssumption DEF UNDEFINED
    <2>2. CASE \E s, d \in Registrar : \E m \in Message :
                 InNet(m, s, d)' /\ Tells(m, e, h)
      <3>1. PICK s \in Registrar, d \in Registrar, m \in Message :
              InNet(m, s, d)' /\ Tells(m, e, h)
        BY <2>2
      <3>2. CASE InNet(m, s, d)
        BY <3>1, <3>2 DEF Believed
      <3>3. CASE KnownMessage(m)
        BY <3>1, <3>3 DEF KnownMessage
      <3>4. QED
        BY <3>1, <3>2, <3>3
    <2>3. QED
      BY <1>2, <2>1, <2>2 DEF Believed, Tells
  <1>3. \A s, d \in Registrar : \A m \in Message :
          InNet(m, s, d)' /\ m.type = "TakeoverServer" => InNet(m, s, d)
    BY DEF KnownMessage
  <1>4. QED
    BY <1>1, <1>2, <1>3, GroupKept, HistoryKept DEF TakeoverInv

\* A step that leaves the peer lists alone.
LEMMA SamePeers ==
  ASSUME IInv, GroupInv, ProcessInv, UNCHANGED <<running, peers>>,
         \A q \in running : ~startup'[q]
  PROVE  PeersStep
  <1>1. ASSUME NEW q \in running', NEW p \in Registrar
        PROVE  EntryStep(q, p, peers'[q][p])
    <2>1. q \in running /\ q \in Registrar /\ peers'[q][p] = peers[q][p]
      BY DEF IInv, RestInv
    <2>2. QED
      BY <2>1 DEF EntryStep, Settled, ProcessInv, GroupInv
  <1>2. QED
    BY <1>1 DEF PeersStep, GroupInv

\* A step that changes one entry of a peer list.
LEMMA OnePeer ==
  ASSUME IInv, GroupInv, ProcessInv, NEW r \in running, NEW p \in Registrar,
         NEW node, EntryStep(r, p, node),
         peers' = [peers EXCEPT ![r][p] = node],
         UNCHANGED running, \A q \in running : ~startup'[q]
  PROVE  PeersStep
  <1>0. running \subseteq Registrar
    BY DEF IInv, RestInv
  <1>1. ASSUME NEW q \in Registrar, NEW x \in Registrar
        PROVE  peers'[q][x] = IF q = r /\ x = p THEN node ELSE peers[q][x]
    BY <1>0 DEF IInv, PeersInv
  <1>2. ASSUME NEW q \in running', NEW x \in Registrar
        PROVE  EntryStep(q, x, peers'[q][x])
    <2>1. q \in running /\ q \in Registrar
      BY <1>0
    <2>2. CASE q = r /\ x = p
      BY <1>1, <2>1, <2>2
    <2>3. CASE ~(q = r /\ x = p)
      <3>1. peers'[q][x] = peers[q][x]
        BY <1>1, <2>1, <2>3
      <3>2. EntryStep(q, x, peers[q][x])
        BY <2>1 DEF EntryStep, Settled, ProcessInv, GroupInv
      <3>3. QED
        BY <3>1, <3>2
    <2>4. QED
      BY <2>2, <2>3
  <1>3. ASSUME NEW q \in Registrar \ running', NEW x \in Registrar
        PROVE  peers'[q][x] = NoPeer
    BY <1>0, <1>1 DEF GroupInv
  <1>4. QED
    BY <1>2, <1>3 DEF PeersStep

-----------------------------------------------------------------------------
(* What handlers send *)

\* What is under way after a step that sends nothing new.
QuietNet ==
  \A s, d \in Registrar : \A m \in Message : InNet(m, s, d)' =>
    InNet(m, s, d) \/ (SafeMessage(s, m) /\ KnownMessage(m))

\* An output of r without news.
QuietOutput(r, out) ==
  \A d \in Registrar : \A m \in Message :
    InSeq(m, out[d]) => SafeMessage(r, m) /\ KnownMessage(m)

LEMMA QuietSend ==
  ASSUME NEW r \in Registrar, NEW out \in Output, NetInv, Send(r, out),
         QuietOutput(r, out)
  PROVE  QuietNet
  BY SentMessages DEF QuietNet, QuietOutput

\* Presences, requests for handle tables and removals are no news.
LEMMA NoNews ==
  ASSUME NEW r, NEW m,
         \/ m.type \in {"Presence", "HandleTableRequest"}
         \/ m.type = "HandleUpdate" /\ m.action = "DEL_PE"
  PROVE  SafeMessage(r, m) /\ KnownMessage(m)
  BY DEF SafeMessage, KnownMessage, Tells

\* The home of a PE that is registered is believed, and the registrar runs.
LEMMA OldBelief ==
  ASSUME GroupInv, NEW q \in Registrar, NEW e \in PoolElement,
         pes[q][e].home # UNDEFINED
  PROVE  q \in running /\ Believed(e, pes[q][e].home)
  BY DEF GroupInv, Believed

\* PEs keep their homes, or are removed.
HomesKept ==
  \A q \in Registrar, e \in PoolElement :
    pes'[q][e].home \in {pes[q][e].home, UNDEFINED}

\* A step without news preserves the invariant.
LEMMA CalmStep ==
  ASSUME IInv, IInv', TakeoverInv, PeersStep, UNCHANGED running, HomesKept,
         QuietNet
  PROVE  TakeoverInv'
  <1>1. ASSUME NEW q \in Registrar, NEW e \in PoolElement,
               pes'[q][e].home # UNDEFINED
        PROVE  q \in running' /\ Believed(e, pes'[q][e].home)
    <2>1. pes'[q][e].home = pes[q][e].home /\ pes[q][e].home # UNDEFINED
      BY <1>1 DEF HomesKept
    <2>2. q \in running /\ Believed(e, pes[q][e].home)
      BY <2>1, OldBelief DEF TakeoverInv
    <2>3. QED
      BY <2>1, <2>2
  <1>2. QED
    BY <1>1, QuietStep DEF QuietNet

\* The same network is a quiet one.
LEMMA SameNet ==
  ASSUME UNCHANGED net
  PROVE  QuietNet
  BY DEF QuietNet, InNet

LEMMA SameHomes ==
  ASSUME UNCHANGED pes
  PROVE  HomesKept
  BY DEF HomesKept

\* What SamePeers and OnePeer need of the invariant.
LEMMA StartedUp ==
  ASSUME TakeoverInv
  PROVE  GroupInv /\ ProcessInv /\ \A q \in running : ~startup[q]
  BY DEF TakeoverInv, GroupInv

-----------------------------------------------------------------------------
(* Updates and handle tables *)

\* A handler that leaves the peer lists alone preserves the invariant if the
\* homes it registers are believed.
LEMMA PEsTakeover ==
  ASSUME NEW r \in Registrar, IInv, IInv', TakeoverInv,
         UNCHANGED <<running, startup, peers>>, QuietNet, r \in running,
         \A q \in Registrar, e \in PoolElement :
           \/ pes'[q][e].home \in {pes[q][e].home, UNDEFINED}
           \/ q = r /\ Believed(e, pes'[q][e].home)
  PROVE  TakeoverInv'
  <1>1. PeersStep
    BY StartedUp, SamePeers
  <1>2. ASSUME NEW q \in Registrar, NEW e \in PoolElement,
               pes'[q][e].home # UNDEFINED
        PROVE  q \in running' /\ Believed(e, pes'[q][e].home)
    <2>1. CASE pes'[q][e].home \in {pes[q][e].home, UNDEFINED}
      BY <1>2, <2>1, OldBelief DEF TakeoverInv
    <2>2. CASE q = r /\ Believed(e, pes'[q][e].home)
      BY <2>2
    <2>3. QED
      BY <2>1, <2>2
  <1>3. QED
    BY <1>1, <1>2, QuietStep DEF QuietNet

-----------------------------------------------------------------------------
(* Registrations *)

\* A step after which the beliefs are explained by R preserves the invariant.
LEMMA ExplainedStep ==
  ASSUME IInv, IInv', TakeoverInv, PeersStep, NetStep, NothingLeft,
         NEW R \in [Registrar -> SUBSET Registrar],
         TakeoverOrder(R)', Explained(R)', Announced(R)'
  PROVE  TakeoverInv'
  <1>1. HistoryInv'
    BY DEF HistoryInv
  <1>2. QED
    BY <1>1, GroupKept DEF TakeoverInv

\* The relation stays an order of takeovers.
LEMMA OrderKept ==
  ASSUME PeersStep, NEW R \in [Registrar -> SUBSET Registrar], TakeoverOrder(R)
  PROVE  TakeoverOrder(R)'
  <1>1. \A a \in Registrar : R[a] # {} => Taken(a)'
    BY TakenKept DEF TakeoverOrder
  <1>2. QED
    BY <1>1 DEF TakeoverOrder

-----------------------------------------------------------------------------
(* The takeover procedure *)

\* What the invariant says about a message that is handled.
LEMMA HandledMessage ==
  ASSUME NEW r \in Registrar, NEW s \in Registrar, NEW type, IInv, TakeoverInv,
         Received(r, s, type)
  PROVE  LET m == Head(net[s][r])
         IN /\ m \in Message /\ m.type = type /\ InNet(m, s, r)
            /\ r \in running /\ s # r
            /\ type \notin {"ListRequest", "ListResponse"}
            /\ type \in {"InitTakeover", "InitTakeoverAck"} => m.target \notin running
            /\ type = "InitTakeoverAck" => Settled(s, m.target)
            /\ type \in {"InitTakeover", "InitTakeoverAck", "TakeoverServer"} =>
                 m.target \in Registrar
  <1> DEFINE m == Head(net[s][r])
  <1>1. /\ m \in Message /\ m.type = type /\ r \in running /\ s # r
        /\ InNet(m, s, r)
    BY ReceivedMessage, HeadInNet DEF IInv
  <1> HIDE DEF m
  <1>2. /\ m.type \notin {"ListRequest", "ListResponse"}
        /\ m.type \in {"InitTakeover", "InitTakeoverAck"} => m.target \notin running
        /\ m.type = "InitTakeoverAck" => Settled(s, m.target)
    BY <1>1 DEF TakeoverInv, MessageInv
  <1>3. QED
    BY <1>1, <1>2, TargetType DEF m

\* One more takeover: r becomes the home of what t was the home of.
WithTakeover(R, r, t) ==
  [a \in Registrar |-> IF a = t \/ t \in R[a] THEN R[a] \cup {r} ELSE R[a]]

-----------------------------------------------------------------------------
(* The invariant is inductive *)

\* Every message handler preserves the invariant.  There are no requests for peer
\* lists, because nobody starts.
LEMMA MessageTakeover ==
  \A r \in Registrar, s \in Registrar :
      /\ IInv
      /\ IInv'
      /\ TakeoverInv
      /\ HandleMessage(r, s)
      /\ Orderly
      =>
         TakeoverInv'

<1>QuietReceive.
  ASSUME NEW r \in Registrar, NEW s \in Registrar, NEW type, NEW out \in Output,
         NetInv, Received(r, s, type), ReceiveAndSend(r, s, out),
         QuietOutput(r, out)
  PROVE  QuietNet
  BY <1>QuietReceive, ReceivedMessages DEF QuietNet, QuietOutput

\* A handler that only takes its message.
<1>SilentReceive.
  ASSUME NEW r \in Registrar, NEW s \in Registrar, NEW type, NetInv,
         Received(r, s, type), ReceiveAndSend(r, s, Silence)
  PROVE  QuietNet
  BY <1>SilentReceive, SilenceOutput, InSilence, <1>QuietReceive DEF QuietOutput

<1>RequestNoNews.
  ASSUME NEW r, NEW b
  PROVE  LET m == TableRequest(b) IN SafeMessage(r, m) /\ KnownMessage(m)
  <2> USE <1>RequestNoNews
  <2>1. TableRequest(b).type = "HandleTableRequest"
    BY DEF TableRequest
  <2>2. QED
    BY <2>1, NoNews

\* registrarHandleENRPHandleUpdate
<1>UpdateTakeover.
  ASSUME NEW r \in Registrar, NEW s \in Registrar, IInv, IInv', TakeoverInv,
         HandleENRPHandleUpdate(r, s)
  PROVE  TakeoverInv'
  <2> USE <1>UpdateTakeover
  <2> DEFINE m == Head(net[s][r])
  <2>0. Received(r, s, "HandleUpdate")
    BY Zenon DEF HandleENRPHandleUpdate, AddPE, DelPE
  <2>1. /\ m \in Message /\ m.type = "HandleUpdate" /\ r \in running
        /\ m.pe \in PoolElement /\ m.home \in Registrar /\ InNet(m, s, r)
    BY Zenon, <2>0, ReceivedMessage, HandleUpdateType, HeadInNet DEF IInv
  <2>2. QuietNet
    BY Zenon, <2>0, <1>SilentReceive DEF HandleENRPHandleUpdate, AddPE, DelPE, IInv
  <2>3. UNCHANGED <<running, startup, peers>>
    BY Zenon DEF HandleENRPHandleUpdate, AddPE, DelPE
  <2>4. ASSUME NEW q \in Registrar, NEW e \in PoolElement
        PROVE  \/ pes'[q][e].home \in {pes[q][e].home, UNDEFINED}
               \/ q = r /\ Believed(e, pes'[q][e].home)
    <3>1. CASE AddPE(r, s)
      <4>1. CASE q = r /\ e = m.pe /\ m.home # r
        <5> DEFINE node == [RegisterPE(pes[r][m.pe], m.home, 0)
                              EXCEPT !.TimerCode = "EXPIRY"]
        <5>0. pes' = [pes EXCEPT ![r][m.pe] = node]
          BY Zenon, <2>1, <3>1, <4>1 DEF AddPE, IInv, PEsInv
        <5>a. pes[r][m.pe] \in PoolElementNode
          BY Zenon, <2>1 DEF IInv, PEsInv
        <5>b. node.home = m.home
          BY Zenon, <5>a DEF RegisterPE, PoolElementNode
        <5> HIDE DEF node
        <5>1. pes'[q][e].home = m.home
          BY Zenon, <2>1, <4>1, <5>0, <5>b DEF IInv, PEsInv
        <5>2. Tells(m, e, m.home)
          BY Zenon, <2>1, <3>1, <4>1 DEF Tells, AddPE
        <5>3. QED
          BY Zenon, <2>1, <4>1, <5>1, <5>2 DEF Believed
      <4>2. CASE ~(q = r /\ e = m.pe /\ m.home # r)
        BY Zenon, <2>1, <3>1, <4>2 DEF AddPE, IInv, PEsInv
      <4>3. QED
        BY Zenon, <4>1, <4>2
    <3>2. CASE DelPE(r, s)
      BY Zenon, <2>1, <3>2 DEF DelPE, NoPE, IInv, PEsInv
    <3>3. QED
      BY Zenon, <3>1, <3>2 DEF HandleENRPHandleUpdate
  <2>5. QED
    BY Zenon, <2>1, <2>2, <2>3, <2>4, PEsTakeover

\* A handle table tells what its sender believes.
<1>TableNoNews.
  ASSUME NEW r \in Registrar, NEW chunk, NEW m,
         m.type = "HandleTableResponse",
         m.table = [e \in PoolElement |->
                      IF e \in chunk THEN pes[r][e].home ELSE UNDEFINED]
  PROVE  SafeMessage(r, m) /\ KnownMessage(m)
  <2> USE <1>TableNoNews
  <2> DEFINE table == [e \in PoolElement |->
                 IF e \in chunk THEN pes[r][e].home ELSE UNDEFINED]
  <2>1. m.table = table
    OBVIOUS
  <2>2. ASSUME NEW e \in PoolElement, NEW h \in Registrar, table[e] = h
        PROVE  Believed(e, h)
    <3>1. pes[r][e].home = h
      BY <2>2, RegistrarAssumption DEF UNDEFINED
    <3>2. QED
      BY <3>1 DEF Believed
  <2> HIDE DEF table
  <2>3. KnownMessage(m)
    BY <2>1, <2>2 DEF KnownMessage, Tells
  <2>4. QED
    BY <2>1, <2>3 DEF SafeMessage

\* registrarHandleENRPHandleTableRequest
<1>TableRequestTakeover.
  ASSUME NEW r \in Registrar, NEW s \in Registrar, IInv, IInv', TakeoverInv,
         HandleENRPHandleTableRequest(r, s)
  PROVE  TakeoverInv'
  <2> USE <1>TableRequestTakeover
  <2>0. Received(r, s, "HandleTableRequest") /\ r \in running
    BY Zenon DEF HandleENRPHandleTableRequest, SendHandleTable, RejectHandleTable,
           Received
  <2>1. UNCHANGED <<running, startup, pes>>
    BY Zenon DEF HandleENRPHandleTableRequest, SendHandleTable, RejectHandleTable
  <2>2. CASE SendHandleTable(r, s)
    <3> DEFINE candidates == Candidates(r, s, Head(net[s][r]).ownChildrenOnly)
               chunk(n) == FirstElements(candidates, n)
               more(n)  == MoreToSend(candidates, n)
               old == peers[r][s]
    <3>0. PICK n \in 1 .. MaxElementsPerHTRequest :
            /\ \E last \in PoolElement \cup {0} :
                 peers' = [peers EXCEPT ![r][s].UserData = last]
            /\ ReceiveAndSend(r, s, ToPeer(s, <<TableResponse(r, chunk(n), more(n))>>))
      BY Zenon, <2>2 DEF SendHandleTable
    <3>1. PICK last \in PoolElement \cup {0} :
            peers' = [peers EXCEPT ![r][s].UserData = last]
      BY Zenon, <3>0
    <3> DEFINE node == [peers[r][s] EXCEPT !.UserData = last]
               message == TableResponse(r, chunk(n), more(n))
    <3>2. peers' = [peers EXCEPT ![r][s] = node]
      BY Zenon, <3>1
    <3>3. /\ node.known = old.known /\ node.TakeoverProcess = old.TakeoverProcess
          /\ node.Status = old.Status
          /\ node.TakeoverRegistrarID = old.TakeoverRegistrarID
          /\ node.OutstandingAcks = old.OutstandingAcks
      BY DEF IInv, PeersInv, PeerListNode
    <3> HIDE DEF node
    <3>4. EntryStep(r, s, node)
      BY <2>0, <3>3
         DEF EntryStep, SettledNode, Settled, ProcessInv, GroupInv, Entitled,
             TakeoverInv
    <3>5. PeersStep
      BY Zenon, <2>0, <2>1, <3>2, <3>4, StartedUp, OnePeer
    <3>6. more(n) \in BOOLEAN
      BY DEF MoreToSend
    <3>7. message \in Message
      BY ZenonT(40), <3>6, TableResponseIsMessage DEF IInv
    <3>8. SafeMessage(r, message) /\ KnownMessage(message)
      <4>1. /\ message.type = "HandleTableResponse"
            /\ message.table
                 = [e \in PoolElement |->
                      IF e \in chunk(n) THEN pes[r][e].home ELSE UNDEFINED]
        BY DEF TableResponse
      <4>2. QED
        BY Zenon, <4>1, <1>TableNoNews
    <3>9. ReceiveAndSend(r, s, ToPeer(s, <<message>>))
      BY <3>0
    <3> HIDE DEF message
    <3>10. QuietNet
      <4>1. QuietOutput(r, ToPeer(s, <<message>>))
        BY <3>8, InToPeer, InOne DEF QuietOutput
      <4>2. QED
        BY Zenon, <2>0, <3>7, <3>9, <4>1, OneToPeerOutput, <1>QuietReceive DEF IInv
    <3>11. QED
      BY <2>1, <3>5, <3>10, SameHomes, CalmStep
  <2>3. CASE RejectHandleTable(r, s)
    <3> DEFINE message == [TableResponse(r, {}, FALSE) EXCEPT !.reject = TRUE]
    <3>1. message \in Message
      BY Zenon, TableResponseIsMessage DEF IInv
    <3>2. SafeMessage(r, message) /\ KnownMessage(message)
      <4> DEFINE chunk == {}
      <4>1. /\ message.type = "HandleTableResponse"
            /\ message.table
                 = [e \in PoolElement |->
                      IF e \in chunk THEN pes[r][e].home ELSE UNDEFINED]
        BY DEF TableResponse
      <4> HIDE DEF message, chunk
      <4>2. QED
        BY <4>1, <1>TableNoNews
    <3>3. ReceiveAndSend(r, s, ToPeer(s, <<message>>)) /\ UNCHANGED peers
      BY <2>3 DEF RejectHandleTable
    <3> HIDE DEF message
    <3>4. QuietNet
      <4>1. QuietOutput(r, ToPeer(s, <<message>>))
        BY <3>2, InToPeer, InOne DEF QuietOutput
      <4>2. QED
        BY <2>0, <3>1, <3>3, <4>1, OneToPeerOutput, <1>QuietReceive DEF IInv
    <3>5. PeersStep
      BY Zenon, <2>1, <3>3, StartedUp, SamePeers
    <3>6. QED
      BY <2>1, <3>4, <3>5, SameHomes, CalmStep
  <2>4. QED
    BY Zenon, <2>2, <2>3 DEF HandleENRPHandleTableRequest

\* The homes of a table that is registered are those of the table.
<1>PropagatedHomes.
  ASSUME NEW r \in Registrar, NEW s \in Registrar, IInv,
         Received(r, s, "HandleTableResponse"), NEW e \in PoolElement
  PROVE  LET home == PropagateTable(r, Head(net[s][r]).table)[e].home
         IN home = pes[r][e].home \/ Believed(e, home)
  <2> USE <1>PropagatedHomes
  <2> DEFINE m == Head(net[s][r])
             old == pes[r][e]
  <2>1. /\ m \in Message /\ m.type = "HandleTableResponse" /\ InNet(m, s, r)
    BY ReceivedMessage, HeadInNet DEF IInv
  <2>2. old \in PoolElementNode
    BY Zenon DEF IInv, PEsInv
  <2>3. CASE m.table[e] \in {UNDEFINED, r}
    BY Zenon, <2>3 DEF PropagateTable
  <2>4. CASE m.table[e] \notin {UNDEFINED, r}
    <3>1. PropagateTable(r, m.table)[e].home = m.table[e]
      BY Zenon, <2>2, <2>4 DEF PropagateTable, RegisterPE, PoolElementNode
    <3>2. Tells(m, e, m.table[e])
      BY <2>1 DEF Tells
    <3>3. QED
      BY Zenon, <2>1, <3>1, <3>2 DEF Believed
  <2>5. QED
    BY Zenon, <2>3, <2>4

\* The entry of a peer with which the synchronization ends.
<1>SyncedEntry.
  ASSUME NEW r \in running, NEW s \in Registrar, IInv, TakeoverInv,
         peers' = [peers EXCEPT ![r][s].Status = @ \ {"MENTOR", "HTSYNC"}],
         UNCHANGED running, \A q \in running : ~startup'[q]
  PROVE  PeersStep
  <2> USE <1>SyncedEntry
  <2> DEFINE old == peers[r][s]
             node == [old EXCEPT !.Status = old.Status \ {"MENTOR", "HTSYNC"}]
  <2>0. r \in Registrar
    BY DEF IInv, RestInv
  <2>1. peers' = [peers EXCEPT ![r][s] = node]
    BY <2>0 DEF IInv, PeersInv
  <2>2. /\ node.known = old.known /\ node.TakeoverProcess = old.TakeoverProcess
        /\ node.Status = old.Status \ {"MENTOR", "HTSYNC"}
        /\ node.TakeoverRegistrarID = old.TakeoverRegistrarID
        /\ node.OutstandingAcks = old.OutstandingAcks
    BY <2>0 DEF IInv, PeersInv, PeerListNode
  <2> HIDE DEF node
  <2>3. EntryStep(r, s, node)
    BY <2>0, <2>2
       DEF EntryStep, SettledNode, Settled, ProcessInv, GroupInv, Entitled,
           TakeoverInv
  <2>4. QED
    BY Zenon, <2>1, <2>3, StartedUp, OnePeer

\* registrarHandleENRPHandleTableResponse
<1>TableResponseTakeover.
  ASSUME NEW r \in Registrar, NEW s \in Registrar, IInv, IInv', TakeoverInv,
         HandleENRPHandleTableResponse(r, s)
  PROVE  TakeoverInv'
  <2> USE <1>TableResponseTakeover
  <2> DEFINE hs == PropagateTable(r, Head(net[s][r]).table)
  <2>0. Received(r, s, "HandleTableResponse")
    BY DEF HandleENRPHandleTableResponse, RequestNextChunk,
           CompleteSynchronization, SynchronizationRejected, IgnoreTable
  <2>1. r \in running /\ UNCHANGED running
    BY ZenonT(40) DEF Received, HandleENRPHandleTableResponse, RequestNextChunk,
           CompleteSynchronization, SynchronizationRejected, IgnoreTable
  <2>2. ASSUME NEW e \in PoolElement
        PROVE  hs[e].home = pes[r][e].home \/ Believed(e, hs[e].home)
    BY <2>0, <1>PropagatedHomes
  <2>3. CASE RequestNextChunk(r, s)
    <3> DEFINE message == TableRequest("MENTOR" \notin peers[r][s].Status)
    <3>1. pes' = [pes EXCEPT ![r] = hs] /\ UNCHANGED <<startup, peers>>
      BY <2>3 DEF RequestNextChunk
    <3> HIDE DEF hs
    <3>2. ASSUME NEW q \in Registrar, NEW e \in PoolElement
          PROVE  \/ pes'[q][e].home \in {pes[q][e].home, UNDEFINED}
                 \/ q = r /\ Believed(e, pes'[q][e].home)
      BY <2>2, <3>1 DEF IInv, PEsInv
    <3>3. message \in Message /\ SafeMessage(r, message) /\ KnownMessage(message)
      BY Zenon, TableRequestIsMessage, <1>RequestNoNews
    <3>4. ReceiveAndSend(r, s, ToPeer(s, <<message>>))
      BY <2>3 DEF RequestNextChunk
    <3> HIDE DEF message
    <3>5. QuietNet
      <4>1. QuietOutput(r, ToPeer(s, <<message>>))
        BY <3>3, InToPeer, InOne DEF QuietOutput
      <4>2. QED
        BY <2>0, <3>3, <3>4, <4>1, OneToPeerOutput, <1>QuietReceive DEF IInv
    <3>6. QED
      BY Zenon, <2>1, <3>1, <3>2, <3>5, PEsTakeover
  <2>4. CASE CompleteSynchronization(r, s)
    <3> DEFINE purged == PurgeMarkedPEs(hs, s)
    <3>1. ASSUME NEW e \in PoolElement
          PROVE  purged[e].home \in {hs[e].home, UNDEFINED}
      BY DEF PurgeMarkedPEs, NoPE
    <3>2. pes' = [pes EXCEPT ![r] = purged]
      BY <2>4 DEF CompleteSynchronization
    <3> HIDE DEF hs, purged
    <3>3. ASSUME NEW q \in Registrar, NEW e \in PoolElement,
                 pes'[q][e].home # UNDEFINED
          PROVE  q \in running' /\ Believed(e, pes'[q][e].home)
      <4>1. CASE q = r
        <5>1. pes'[q][e].home = hs[e].home
          BY Zenon, <3>1, <3>2, <3>3, <4>1 DEF IInv, PEsInv
        <5>2. CASE hs[e].home = pes[r][e].home
          BY Zenon, <2>1, <3>3, <4>1, <5>1, <5>2, OldBelief DEF TakeoverInv
        <5>3. CASE Believed(e, hs[e].home)
          BY Zenon, <2>1, <4>1, <5>1, <5>3
        <5>4. QED
          BY <2>2, <5>2, <5>3
      <4>2. CASE q # r
        <5>1. pes'[q][e] = pes[q][e]
          BY <3>2, <4>2 DEF IInv, PEsInv
        <5>2. QED
          BY <2>1, <3>3, <5>1, OldBelief DEF TakeoverInv
      <4>3. QED
        BY <4>1, <4>2
    <3>4. PeersStep
      <4>1. \A q \in running : ~startup'[q]
        BY <2>4, StartedUp DEF CompleteSynchronization, IInv, RestInv
      <4>2. QED
        BY Zenon, <2>1, <2>4, <4>1, <1>SyncedEntry DEF CompleteSynchronization
    <3>5. QuietNet
      BY <2>0, <2>4, <1>SilentReceive DEF CompleteSynchronization, IInv
    <3>6. QED
      BY Zenon, <3>3, <3>4, <3>5, QuietStep DEF QuietNet
  <2>5. CASE SynchronizationRejected(r, s)
    <3>1. PeersStep
      BY Zenon, <2>1, <2>5, StartedUp, <1>SyncedEntry DEF SynchronizationRejected
    <3>2. QuietNet
      BY <2>0, <2>5, <1>SilentReceive DEF SynchronizationRejected, IInv
    <3>3. QED
      BY <2>1, <2>5, <3>1, <3>2, SameHomes, CalmStep
         DEF SynchronizationRejected
  <2>6. CASE IgnoreTable(r, s)
    <3>1. PeersStep
      BY <2>1, <2>6, StartedUp, SamePeers DEF IgnoreTable
    <3>2. QuietNet
      BY <2>0, <2>6, <1>SilentReceive DEF IgnoreTable, IInv
    <3>3. QED
      BY <2>1, <2>6, <3>1, <3>2, SameHomes, CalmStep DEF IgnoreTable
  <2>7. QED
    BY Zenon, <2>3, <2>4, <2>5, <2>6 DEF HandleENRPHandleTableResponse

\* The entry of a peer that is heard of: it is in the peer list already, and its
\* list has been synchronized.
<1>HeardEntry.
  ASSUME NEW r \in running, NEW s \in Registrar, IInv, TakeoverInv,
         s \in running \/ ~Settled(r, s), s # r
  PROVE  /\ peers[r][s].known
         /\ "LISTSYNC" \in StatusAfterMentorQuery(r, s)
         /\ ~BecomesMentor(r)
  <2> USE <1>HeardEntry
  <2>1. r \in Registrar /\ PeerOK(r, s, peers[r][s])
    BY DEF IInv, RestInv, PeersInv, PeerListOK
  <2>2. peers[r][s].known
    <3>1. CASE s \in running
      BY <3>1 DEF TakeoverInv, GroupInv
    <3>2. CASE ~Settled(r, s)
      BY <2>1, <3>2 DEF Settled, SettledNode, PeerOK
    <3>3. QED
      BY <3>1, <3>2
  <2>3. "LISTSYNC" \in peers[r][s].Status
    BY <2>2 DEF TakeoverInv, GroupInv
  <2>4. ~BecomesMentor(r)
    BY DEF BecomesMentor, TakeoverInv, GroupInv
  <2>5. QED
    BY <2>2, <2>3, <2>4 DEF StatusAfterMentorQuery, RegisterPeer

\* A sign of life of a peer that runs, or whose takeover nobody has agreed to.
<1>HeardStep.
  ASSUME NEW r \in running, NEW s \in Registrar, IInv, TakeoverInv,
         s \in running \/ ~Settled(r, s),
         NEW status, s # r => "LISTSYNC" \in status,
         peers' = [peers EXCEPT ![r][s] = HeardPeer(r, s, status)],
         UNCHANGED <<running, startup>>
  PROVE  PeersStep
  <2> USE <1>HeardStep
  <2> DEFINE node == HeardPeer(r, s, status)
  <2>0. r \in Registrar /\ peers[r][s] \in PeerListNode
    BY DEF IInv, RestInv, PeersInv
  <2>1. node.known /\ ~node.TakeoverProcess /\ node.Status = status
    BY <2>0 DEF HeardPeer, RegisterPeer, NewPeer, NoPeer, PeerListNode
  <2> HIDE DEF node
  <2>2. EntryStep(r, s, node)
    BY <2>1 DEF EntryStep
  <2>3. QED
    BY Zenon, <2>2, StartedUp, OnePeer DEF node

\* A Presence that was multicast
<1>MulticastTakeover.
  ASSUME NEW r \in Registrar, NEW s \in Registrar, IInv, IInv', TakeoverInv,
         HandleMulticastPresence(r, s), Orderly
  PROVE  TakeoverInv'
  <2> USE <1>MulticastTakeover
  <2>1. /\ r \in running /\ UNCHANGED <<running, startup, pes>>
        /\ s \in running \/ ~Settled(r, s)
    BY Zenon DEF HandleMulticastPresence, Orderly
  <2>2. PeersStep
    BY Zenon, <2>1, <1>HeardEntry, <1>HeardStep DEF HandleMulticastPresence
  <2>3. QuietNet
    <3> DEFINE message == PresenceMessage(r, TRUE)
               none == If(BecomesMentor(r),
                          <<[type |-> "ListRequest"], TableRequest(FALSE)>>)
               one == If(~peers[r][s].known, <<message>>)
    <3>0. ~BecomesMentor(r)
      BY <2>1 DEF BecomesMentor, TakeoverInv, GroupInv
    <3>1. message \in Message /\ message.type = "Presence" /\ none = <<>>
      BY Zenon, <3>0, PresenceIsMessage DEF PresenceMessage, If
    <3>2. GreetPeer(r, s) = one \o none
      BY DEF GreetPeer
    <3>3. Send(r, ToPeer(s, GreetPeer(r, s)))
      BY DEF HandleMulticastPresence
    <3> HIDE DEF message, none
    <3>4. one \in Seq(Message)
      BY <3>1, IfMessage
    <3>5. GreetPeer(r, s) = one
      BY <3>1, <3>2, <3>4
    <3>6. ASSUME NEW m, InSeq(m, one) PROVE m = message
      BY <3>6 DEF InSeq, If
    <3> HIDE DEF one
    <3>7. QuietOutput(r, ToPeer(s, one))
      BY <3>1, <3>6, InToPeer, NoNews DEF QuietOutput
    <3>8. QED
      BY Zenon, <3>3, <3>4, <3>5, <3>7, ToPeerOutput, QuietSend DEF IInv
  <2>4. QED
    BY <2>1, <2>2, <2>3, SameHomes, CalmStep

\* registrarHandleENRPPresence
<1>PresenceTakeover.
  ASSUME NEW r \in Registrar, NEW s \in Registrar, IInv, IInv', TakeoverInv,
         HandleENRPPresence(r, s), Orderly
  PROVE  TakeoverInv'
  <2> USE <1>PresenceTakeover
  <2> DEFINE m == Head(net[s][r])
             sync == HandleTableOutdated(r, s, m.checksum)
             list == PeerListOutdated(r, s)
             status == StatusAfterMentorQuery(r, s)
                         \cup {x \in {"HTSYNC"} : sync}
                         \cup {x \in {"LISTSYNC"} : list}
             request == TableRequest(TRUE)
             presence == PresenceMessage(r, FALSE)
             q1 == GreetPeer(r, s)
             q2 == If(sync, <<request>>)
             q3 == If(list, <<[type |-> "ListRequest"]>>)
             q4 == If(m.reply, <<presence>>)
  <2>0. Received(r, s, "Presence") /\ s # r
    BY Zenon DEF HandleENRPPresence, Received
  <2>1. /\ r \in running /\ UNCHANGED <<running, startup>>
        /\ s \in running \/ ~Settled(r, s)
    BY Zenon DEF HandleENRPPresence, Received, Orderly
  <2>2. /\ peers[r][s].known /\ "LISTSYNC" \in StatusAfterMentorQuery(r, s)
        /\ ~BecomesMentor(r)
    BY <2>0, <2>1, <1>HeardEntry
  <2>3. PeersStep
    <3>1. peers' = [peers EXCEPT ![r][s] = HeardPeer(r, s, status)]
      BY DEF HandleENRPPresence
    <3>2. "LISTSYNC" \in status
      BY <2>2
    <3> HIDE DEF status
    <3>3. QED
      BY Zenon, <2>1, <3>1, <3>2, <1>HeardStep
  <2>4. HomesKept
    <3>1. ASSUME NEW e \in PoolElement
          PROVE  MarkPEs(pes[r], s)[e].home = pes[r][e].home
      BY DEF MarkPEs, IInv, PEsInv, PoolElementNode
    <3>2. pes' = [pes EXCEPT ![r] = IF sync THEN MarkPEs(pes[r], s) ELSE pes[r]]
      BY DEF HandleENRPPresence
    <3> HIDE DEF sync
    <3>3. QED
      BY <3>1, <3>2 DEF HomesKept, IInv, PEsInv
  <2>5. ReceiveAndSend(r, s, ToPeer(s, q1 \o q2 \o q3 \o q4))
    BY DEF HandleENRPPresence
  <2>6. q1 = <<>> /\ q3 = <<>>
    BY <2>2 DEF GreetPeer, If, PeerListOutdated
  <2>7. /\ request \in Message /\ request.type = "HandleTableRequest"
        /\ presence \in Message /\ presence.type = "Presence"
    <3>1. request \in Message
      BY Zenon, TableRequestIsMessage
    <3>2. presence \in Message
      BY Zenon, PresenceIsMessage
    <3>3. QED
      BY <3>1, <3>2 DEF TableRequest, PresenceMessage
  <2> HIDE DEF request, presence, sync, m, q1, q3
  <2>8. q2 \in Seq(Message) /\ q4 \in Seq(Message)
    BY <2>7, IfMessage
  <2>9. ASSUME NEW x, InSeq(x, q2) PROVE x = request
    BY <2>9 DEF InSeq, If
  <2>10. ASSUME NEW x, InSeq(x, q4) PROVE x = presence
    BY <2>10 DEF InSeq, If
  <2> HIDE DEF q2, q4
  <2>11. q1 \o q2 \o q3 \o q4 = q2 \o q4
    BY <2>6, <2>8
  <2>12. QuietNet
    <3>1. q2 \o q4 \in Seq(Message)
      BY <2>8
    <3>2. ASSUME NEW x, InSeq(x, q2 \o q4) PROVE x = request \/ x = presence
      <4>1. InSeq(x, q2) \/ InSeq(x, q4)
        BY <2>8, <3>2, InConcat
      <4>2. QED
        BY <2>9, <2>10, <4>1
    <3>3. QuietOutput(r, ToPeer(s, q2 \o q4))
      BY <2>7, <3>2, InToPeer, NoNews DEF QuietOutput
    <3>4. ReceiveAndSend(r, s, ToPeer(s, q2 \o q4))
      BY <2>5, <2>11
    <3>5. QED
      BY Zenon, <2>0, <3>1, <3>3, <3>4, ToPeerOutput, <1>QuietReceive DEF IInv
  <2>13. QED
    BY Zenon, <2>1, <2>3, <2>4, <2>12, CalmStep

\* The entry of a peer whose takeover has been agreed to.
<1>AgreedEntry.
  ASSUME NEW r \in running, NEW s \in Registrar, NEW t \in Registrar, IInv,
         TakeoverInv, t \notin running
  PROVE  LET node == AgreedPeer(peers[r][t], s)
         IN EntryStep(r, t, node) /\ SettledNode(node)
  <2> USE <1>AgreedEntry
  <2> DEFINE old == peers[r][t]
             node == AgreedPeer(old, s)
  <2>0. r \in Registrar /\ PeerOK(r, t, old)
    BY DEF IInv, RestInv, PeersInv, PeerListOK
  <2>1. /\ node.known = old.known /\ node.Status = old.Status
        /\ ~node.TakeoverProcess
        /\ node.known => node.TakeoverRegistrarID = s
    BY Zenon, <2>0 DEF AgreedPeer, PeerOK, PeerListNode
  <2>2. old.known /\ t # r => "LISTSYNC" \in old.Status
    BY Zenon DEF TakeoverInv, GroupInv
  <2> HIDE DEF node
  <2>3. SettledNode(node)
    BY Zenon, <2>1, RegistrarAssumption DEF SettledNode, UNDEFINED
  <2>4. EntryStep(r, t, node)
    BY <2>1, <2>2, <2>3 DEF EntryStep
  <2>5. QED
    BY <2>3, <2>4 DEF node

\* registrarHandleENRPInitTakeover: whoever agrees to a takeover gives up its
\* own one.
<1>InitTakeoverTakeover.
  ASSUME NEW r \in Registrar, NEW s \in Registrar, IInv, IInv', TakeoverInv,
         HandleENRPInitTakeover(r, s)
  PROVE  TakeoverInv'
  <2> USE <1>InitTakeoverTakeover
  <2>0. Received(r, s, "InitTakeover")
    BY Zenon DEF HandleENRPInitTakeover, InitTakeoverOfMe, AgreeToTakeover,
           ContinueOwnTakeover
  <2>1. PICK t \in Registrar :
          t = Head(net[s][r]).target /\ r \in running /\ t \notin running
    BY <2>0, HandledMessage
  <2>2. CASE InitTakeoverOfMe(r, s)
    BY <2>1, <2>2 DEF InitTakeoverOfMe
  <2>3. CASE AgreeToTakeover(r, s)
    <3> DEFINE node == AgreedPeer(peers[r][t], s)
    <3>2. PICK message \in Message :
            /\ message = TakeoverMessage("InitTakeoverAck", t)
            /\ message.type = "InitTakeoverAck" /\ message.target = t
      BY Zenon, <2>1, TakeoverIsMessage DEF TakeoverMessage
    <3>1. /\ UNCHANGED <<running, startup, pes>>
          /\ peers' = [peers EXCEPT ![r][t] = node]
          /\ ReceiveAndSend(r, s, ToPeer(s, <<message>>))
      BY Zenon, <2>1, <2>3, <3>2 DEF AgreeToTakeover
    <3>3. EntryStep(r, t, node) /\ SettledNode(node)
      BY Zenon, <2>1, <1>AgreedEntry
    <3> HIDE DEF node
    <3>4. PeersStep
      BY Zenon, <2>1, <3>1, <3>3, StartedUp, OnePeer
    <3>5. Settled(r, t)'
      <4>1. peers'[r][t] = node
        BY Zenon, <2>1, <3>1 DEF IInv, PeersInv
      <4>2. QED
        BY <3>3, <4>1 DEF Settled
    <3>6. SafeMessage(r, message) /\ KnownMessage(message)
      BY Zenon, <2>1, <3>2, <3>5 DEF SafeMessage, KnownMessage, Tells
    <3>7. QuietNet
      <4>1. QuietOutput(r, ToPeer(s, <<message>>))
        BY Zenon, <3>6, InToPeer, InOne DEF QuietOutput
      <4>2. QED
        BY Zenon, <2>0, <3>1, <3>2, <4>1, OneToPeerOutput, <1>QuietReceive DEF IInv
    <3>8. QED
      BY Zenon, <3>1, <3>4, <3>7, SameHomes, CalmStep
  <2>4. CASE ContinueOwnTakeover(r, s)
    <3>1. PeersStep
      BY ZenonT(40), <2>4, StartedUp, SamePeers DEF ContinueOwnTakeover
    <3>2. QuietNet
      BY <2>0, <2>4, <1>SilentReceive DEF ContinueOwnTakeover, IInv
    <3>3. QED
      BY Zenon, <2>4, <3>1, <3>2, SameHomes, CalmStep DEF ContinueOwnTakeover
  <2>5. QED
    BY Zenon, <2>2, <2>3, <2>4 DEF HandleENRPInitTakeover

<1>NewTakeover.
  ASSUME PeersStep, NEW R \in [Registrar -> SUBSET Registrar], TakeoverOrder(R),
         NEW r \in Registrar, NEW t \in Registrar, r # t,
         R[r] = {}, R[t] = {}, Taken(t)',
         NEW Q, Q = WithTakeover(R, r, t)
  PROVE  /\ Q \in [Registrar -> SUBSET Registrar]
         /\ TakeoverOrder(Q)'
         /\ Q[t] = {r}
         /\ \A a \in Registrar : R[a] \subseteq Q[a]
         /\ \A a \in Registrar : t \in R[a] => r \in Q[a]
         /\ \A a, x \in Registrar :
              x \in Q[a] => x \in R[a] \/ (x = r /\ (a = t \/ t \in R[a]))
  <2> USE <1>NewTakeover
  <2>1. Q \in [Registrar -> SUBSET Registrar]
    BY DEF WithTakeover
  <2>2. /\ Q[t] = {r} /\ Q[r] = {}
        /\ \A a \in Registrar : R[a] \subseteq Q[a]
        /\ \A a \in Registrar : t \in R[a] => r \in Q[a]
        /\ \A a, x \in Registrar :
             x \in Q[a] => x \in R[a] \/ (x = r /\ (a = t \/ t \in R[a]))
    BY Zenon DEF WithTakeover
  <2>3. ASSUME NEW a \in Registrar, NEW b \in Registrar, NEW c \in Registrar,
               b \in Q[a], c \in Q[b]
        PROVE  c \in Q[a]
    <3>1. b # r
      BY Zenon, <2>2, <2>3
    <3>2. b \in R[a]
      BY Zenon, <2>2, <2>3, <3>1
    <3>3. CASE c \in R[b]
      BY Zenon, <2>2, <3>2, <3>3 DEF TakeoverOrder
    <3>4. CASE c = r /\ (b = t \/ t \in R[b])
      BY ZenonT(40), <2>2, <3>2, <3>4 DEF TakeoverOrder
    <3>5. QED
      BY Zenon, <2>2, <2>3, <3>3, <3>4
  <2>4. ASSUME NEW a \in Registrar, NEW b \in Registrar, NEW c \in Registrar,
               b \in R[a], c = r, a = t \/ t \in R[a]
        PROVE  b = c \/ c \in Q[b]
    <3>1. t \in R[a]
      BY <2>4
    <3>2. b = t \/ t \in R[b]
      BY Zenon, <2>4, <3>1 DEF TakeoverOrder
    <3>3. QED
      BY <2>2, <2>4, <3>2
  <2>5. ASSUME NEW a \in Registrar, NEW b \in Registrar, NEW c \in Registrar,
               b \in Q[a], c \in Q[a]
        PROVE  b = c \/ c \in Q[b] \/ b \in Q[c]
    <3>1. CASE b \in R[a] /\ c \in R[a]
      BY Zenon, <2>2, <3>1 DEF TakeoverOrder
    <3>2. CASE b \in R[a] /\ c = r /\ (a = t \/ t \in R[a])
      BY <2>4, <3>2
    <3>3. CASE c \in R[a] /\ b = r /\ (a = t \/ t \in R[a])
      BY <2>4, <3>3
    <3>4. QED
      BY Zenon, <2>2, <2>5, <3>1, <3>2, <3>3
  <2>6. ASSUME NEW a \in Registrar, Q[a] # {}
        PROVE  Taken(a)'
    <3>1. PICK x \in Registrar : x \in Q[a]
      BY <2>1, <2>6
    <3>2. a = t \/ R[a] # {}
      BY Zenon, <2>2, <3>1
    <3>3. QED
      BY <3>2, TakenKept DEF TakeoverOrder
  <2>7. TakeoverOrder(Q)'
    BY <2>3, <2>5, <2>6 DEF TakeoverOrder
  <2>8. QED
    BY <2>1, <2>2, <2>7

\* registrarFinishTakeover: everybody else has given up the takeover of t, which
\* is in the history from now on.
<1>FinishTakeoverTakeover.
  ASSUME NEW r \in Registrar, NEW s \in Registrar, IInv, IInv', TakeoverInv,
         FinishTakeover(r, s)
  PROVE  TakeoverInv'
  <2> USE <1>FinishTakeoverTakeover
  <2>0. Received(r, s, "InitTakeoverAck")
    BY Zenon DEF FinishTakeover
  <2>1. PICK t \in Registrar :
          /\ t = Head(net[s][r]).target /\ r \in running /\ t \notin running
          /\ r # t /\ Settled(s, t)
    <3>1. LET t == Head(net[s][r]).target
          IN t \in Registrar /\ r \in running /\ t \notin running /\ Settled(s, t)
      BY Zenon, <2>0, HandledMessage
    <3>2. QED
      BY Zenon, <3>1
  <2> DEFINE message == TakeoverMessage("TakeoverServer", t)
             out == TakeoverServerToAllPeers(r, t)
             hs == TakenOverPEs(r, t)
  <2>2. /\ UNCHANGED <<running, startup>>
        /\ peers[r][t].TakeoverProcess
        /\ peers[r][t].OutstandingAcks \subseteq {s}
        /\ pes' = [pes EXCEPT ![r] = hs]
        /\ peers' = [peers EXCEPT ![r][t] = NoPeer]
        /\ ReceiveAndSend(r, s, out)
    BY Zenon, <2>1 DEF FinishTakeover, AcksToGo
  <2>3. message \in Message /\ message.type = "TakeoverServer" /\ message.target = t
    BY <2>1, TakeoverIsMessage DEF TakeoverMessage
  <2>4. out \in Output
    BY <2>3, ToAllOutput, SilenceOutput DEF TakeoverServerToAllPeers
  <2>5. ASSUME NEW d \in Registrar, NEW x, InSeq(x, out[d]) PROVE x = message
    <3>1. out = ToAll(r, message) \/ out = Silence
      BY DEF TakeoverServerToAllPeers
    <3>2. QED
      BY Zenon, <2>5, <3>1, InToAll, InSilence
  <2>6. ASSUME NEW e \in PoolElement
        PROVE  hs[e].home = IF pes[r][e].home = t THEN r ELSE pes[r][e].home
    BY DEF TakenOverPEs, IInv, PEsInv, PoolElementNode
  <2> HIDE DEF message, out, hs
  <2>7. ASSUME NEW q \in Registrar, NEW e \in PoolElement
        PROVE  pes'[q][e].home = IF q = r /\ pes[r][e].home = t
                                   THEN r ELSE pes[q][e].home
    BY <2>2, <2>6 DEF IInv, PEsInv
  <2>8. PeersStep
    <3>1. EntryStep(r, t, NoPeer)
      BY Zenon, <2>1, NoPeerSettled DEF EntryStep, NoPeer
    <3>2. QED
      BY Zenon, <2>1, <2>2, <3>1, StartedUp, OnePeer
  <2>9. Taken(t)'
    <3>1. ASSUME NEW q \in Registrar PROVE Settled(q, t)'
      <4>1. CASE q = r
        <5>1. peers'[r][t] = NoPeer
          BY Zenon, <2>1, <2>2 DEF IInv, PeersInv
        <5>2. QED
          BY Zenon, <4>1, <5>1, NoPeerSettled DEF Settled
      <4>2. CASE q # r
        <5>1. Entitled(r, t, peers[r][t])
          BY Zenon, <2>1, <2>2 DEF TakeoverInv, ProcessInv
        <5>2. Settled(q, t)
          BY Zenon, <2>1, <2>2, <4>2, <5>1 DEF Entitled
        <5>3. QED
          BY Zenon, <2>1, <2>8, <5>2, SettledKept
      <4>3. QED
        BY <4>1, <4>2
    <3>2. QED
      BY Zenon, <2>1, <2>2, <3>1 DEF Taken
  <2>10. PICK R \in [Registrar -> SUBSET Registrar] :
           TakeoverOrder(R) /\ Explained(R) /\ Announced(R)
    BY Zenon DEF TakeoverInv, HistoryInv
  <2>11. R[r] = {} /\ R[t] = {}
    <3>1. ~Taken(r)
      BY <2>1 DEF Taken
    <3>2. ~Taken(t)
      BY <2>2 DEF Taken, Settled, SettledNode
    <3>3. QED
      BY Zenon, <2>1, <2>10, <3>1, <3>2 DEF TakeoverOrder
  <2> DEFINE new == WithTakeover(R, r, t)
  <2>a. PICK Q : Q = new
    OBVIOUS
  <2> HIDE DEF new
  <2>12. /\ Q \in [Registrar -> SUBSET Registrar]
         /\ TakeoverOrder(Q)'
         /\ Q[t] = {r}
         /\ \A a \in Registrar : R[a] \subseteq Q[a]
         /\ \A a \in Registrar : t \in R[a] => r \in Q[a]
         /\ \A a, x \in Registrar :
              x \in Q[a] => x \in R[a] \/ (x = r /\ (a = t \/ t \in R[a]))
    <3>1. r # t /\ TakeoverOrder(R)
      BY <2>1, <2>10
    <3>2. Q = WithTakeover(R, r, t)
      BY <2>a DEF new
    <3>3. QED
      <4> HIDE <2>0, <2>1, <2>2, <2>10
      <4> QED
        BY <2>8, <2>9, <2>11, <3>1, <3>2, <1>NewTakeover
  <2>13. ASSUME NEW q \in Registrar, NEW d \in Registrar, NEW x \in Message,
                InNet(x, q, d)'
         PROVE  InNet(x, q, d) \/ (q = r /\ x = message)
    <3>1. NetInv /\ ReceiveAndSend(r, s, out)
      BY <2>2 DEF IInv
    <3>2. InNet(x, q, d) \/ (q = r /\ InSeq(x, out[d]))
      BY <2>0, <2>4, <2>13, <3>1, ReceivedMessages
    <3>3. QED
      BY Zenon, <2>5, <3>2
  <2>14. NetStep
    BY <2>3, <2>13 DEF NetStep, SafeMessage
  <2>15. NothingLeft
    <3>1. ASSUME NEW q \in Registrar \ running', NEW e \in PoolElement
          PROVE  pes'[q][e].home = UNDEFINED
      <4>1. q \in Registrar \ running /\ q # r
        BY Zenon, <2>1, <2>2
      <4>2. pes[q][e].home = UNDEFINED
        BY Zenon, <4>1 DEF TakeoverInv, GroupInv
      <4>3. pes'[q][e].home = pes[q][e].home
        BY Zenon, <2>7, <4>1
      <4>4. QED
        BY Zenon, <4>2, <4>3
    <3>2. QED
      BY <3>1 DEF NothingLeft
  <2>16. ASSUME NEW e \in PoolElement, NEW h \in Registrar, Believed(e, h)'
         PROVE  Believed(e, h) \/ (h = r /\ Believed(e, t))
    <3>1. CASE \E q \in Registrar : pes'[q][e].home = h
      BY ZenonT(40), <2>1, <2>7, <3>1 DEF Believed
    <3>2. CASE \E q, d \in Registrar : \E x \in Message :
                 InNet(x, q, d)' /\ Tells(x, e, h)
      BY <2>3, <2>13, <3>2 DEF Believed, Tells
    <3>3. QED
      BY Zenon, <2>16, <3>1, <3>2 DEF Believed, Tells
  <2>17. ASSUME NEW e \in PoolElement, NEW h \in Registrar,
                Believed(e, h), Believed(e, t)
         PROVE  r \in Q[h]
    <3>1. h = t \/ t \in R[h] \/ h \in R[t]
      BY Zenon, <2>1, <2>10, <2>17 DEF Explained
    <3>2. QED
      BY Zenon, <2>11, <2>12, <3>1
  <2>18. Explained(Q)'
    <3>1. ASSUME NEW e \in PoolElement, NEW g \in Registrar, NEW h \in Registrar,
                 Believed(e, g)', Believed(e, h)'
          PROVE  g = h \/ h \in Q[g] \/ g \in Q[h]
      <4>1. CASE Believed(e, g) /\ Believed(e, h)
        <5>1. g = h \/ h \in R[g] \/ g \in R[h]
          BY Zenon, <2>10, <4>1 DEF Explained
        <5>2. QED
          BY Zenon, <2>12, <5>1
      <4>2. CASE Believed(e, g) /\ h = r /\ Believed(e, t)
        BY Zenon, <2>17, <4>2
      <4>3. CASE g = r /\ Believed(e, t) /\ Believed(e, h)
        BY Zenon, <2>17, <4>3
      <4>4. QED
        BY Zenon, <2>16, <3>1, <4>1, <4>2, <4>3
    <3>2. QED
      BY Zenon, <3>1 DEF Explained
  <2>19. Announced(Q)'
    <3>1. ASSUME NEW q \in Registrar, NEW d \in Registrar, NEW x \in Message,
                 InNet(x, q, d)', x.type = "TakeoverServer"
          PROVE  q \in Q[x.target] /\ \A y \in Q[x.target] : y = q \/ y \in Q[q]
      <4> DEFINE u == x.target
      <4>0. u \in Registrar
        BY Zenon, <3>1, TargetType
      <4>1. CASE q = r /\ x = message
        BY Zenon, <2>3, <2>12, <4>1
      <4>2. CASE InNet(x, q, d)
        <5>1. q \in R[u] /\ \A y \in R[u] : y = q \/ y \in R[q]
          BY Zenon, <2>10, <3>1, <4>2 DEF Announced
        <5> HIDE DEF u
        <5>2. ASSUME NEW y \in Q[u] PROVE y = q \/ y \in Q[q]
          <6>0. y \in Registrar
            BY <2>12, <4>0
          <6>1. CASE y \in R[u]
            BY <2>12, <5>1, <6>1
          <6>2. CASE y = r /\ (u = t \/ t \in R[u])
            <7>1. t \in R[u]
              BY <2>11, <5>1, <6>2
            <7>2. t = q \/ t \in R[q]
              BY <5>1, <7>1
            <7>3. QED
              BY Zenon, <2>12, <6>2, <7>2
          <6>3. QED
            BY ZenonT(40), <2>12, <4>0, <6>0, <6>1, <6>2
        <5>3. q \in Q[u]
          BY <2>12, <4>0, <5>1
        <5>4. QED
          BY <5>2, <5>3 DEF u
      <4>3. QED
        BY Zenon, <2>13, <3>1, <4>1, <4>2
    <3>2. QED
      BY Zenon, <3>1 DEF Announced
  <2>20. QED
    BY Zenon, <2>8, <2>12, <2>14, <2>15, <2>18, <2>19, ExplainedStep

\* registrarHandleENRPInitTakeoverAck: whoever acknowledges has given up its own
\* takeover of the target.
<1>InitTakeoverAckTakeover.
  ASSUME NEW r \in Registrar, NEW s \in Registrar, IInv, IInv', TakeoverInv,
         HandleENRPInitTakeoverAck(r, s)
  PROVE  TakeoverInv'
  <2> USE <1>InitTakeoverAckTakeover
  <2> DEFINE m == Head(net[s][r])
             t == m.target
             old == peers[r][t]
  <2>1. CASE AwaitMoreAcks(r, s)
    <3>0. Received(r, s, "InitTakeoverAck")
      BY Zenon, <2>1 DEF AwaitMoreAcks
    <3>1. /\ r \in running /\ t \in Registrar /\ t \notin running
          /\ Settled(s, t)
      BY Zenon, <3>0, HandledMessage
    <3> DEFINE node == [old EXCEPT !.OutstandingAcks = AcksToGo(r, t, s)]
    <3>2. /\ UNCHANGED <<running, startup, pes>> /\ old.TakeoverProcess
          /\ ReceiveAndSend(r, s, Silence)
      BY Zenon, <2>1 DEF AwaitMoreAcks
    <3>3. peers' = [peers EXCEPT ![r][t] = node]
      BY Zenon, <2>1, <3>1 DEF AwaitMoreAcks, IInv, PeersInv
    <3>4. /\ node.known = old.known /\ node.Status = old.Status
          /\ node.TakeoverProcess = old.TakeoverProcess
          /\ node.OutstandingAcks = old.OutstandingAcks \ {s}
      BY <3>1 DEF AcksToGo, IInv, PeersInv, PeerListNode
    <3> HIDE DEF m, t, node
    <3>5. Entitled(r, t, node)
      <4>1. Entitled(r, t, old)
        BY Zenon, <3>1, <3>2 DEF TakeoverInv, ProcessInv
      <4>2. QED
        BY Zenon, <3>1, <3>4, <4>1 DEF Entitled
    <3>6. EntryStep(r, t, node)
      BY ZenonT(40), <3>1, <3>2, <3>4, <3>5
         DEF EntryStep, Settled, SettledNode, TakeoverInv, GroupInv
    <3>7. PeersStep
      BY Zenon, <3>1, <3>2, <3>3, <3>6, StartedUp, OnePeer
    <3>8. QuietNet
      BY <3>0, <3>2, <1>SilentReceive DEF IInv
    <3>9. QED
      BY Zenon, <3>2, <3>7, <3>8, SameHomes, CalmStep
  <2>2. CASE FinishTakeover(r, s)
    BY Zenon, <2>2, <1>FinishTakeoverTakeover
  <2>3. CASE IgnoreAck(r, s)
    <3>1. PeersStep
      BY ZenonT(40), <2>3, StartedUp, SamePeers DEF IgnoreAck
    <3>2. QuietNet
      BY <2>3, <1>SilentReceive DEF IgnoreAck, IInv
    <3>3. QED
      BY <2>3, <3>1, <3>2, SameHomes, CalmStep DEF IgnoreAck
  <2>4. QED
    BY <2>1, <2>2, <2>3 DEF HandleENRPInitTakeoverAck

\* registrarHandleENRPTakeoverServer: the new home is the one that has taken over
\* first, so that it is in the history of every other home.
<1>TakeoverServerTakeover.
  ASSUME NEW r \in Registrar, NEW s \in Registrar, IInv, IInv', TakeoverInv,
         HandleENRPTakeoverServer(r, s)
  PROVE  TakeoverInv'
  <2> USE <1>TakeoverServerTakeover
  <2> DEFINE m == Head(net[s][r])
             t == m.target
             hs == UpdateOwnership(pes[r], t, s)
  <2>0. Received(r, s, "TakeoverServer")
    BY Zenon DEF HandleENRPTakeoverServer
  <2>1. /\ r \in running /\ t \in Registrar /\ m \in Message
        /\ m.type = "TakeoverServer" /\ InNet(m, s, r)
    BY Zenon, <2>0, HandledMessage
  <2>2. /\ UNCHANGED <<running, startup, peers>>
        /\ pes' = [pes EXCEPT ![r] = hs]
        /\ ReceiveAndSend(r, s, Silence)
    BY DEF HandleENRPTakeoverServer
  <2>3. ASSUME NEW e \in PoolElement
        PROVE  hs[e].home = IF pes[r][e].home = t THEN s ELSE pes[r][e].home
    BY DEF UpdateOwnership, IInv, PEsInv, PoolElementNode
  <2>4. PICK R \in [Registrar -> SUBSET Registrar] :
          TakeoverOrder(R) /\ Explained(R) /\ Announced(R)
    BY Zenon DEF TakeoverInv, HistoryInv
  <2>5. s \in R[t] /\ \A x \in R[t] : x = s \/ x \in R[s]
    BY ZenonT(40), <2>1, <2>4 DEF Announced
  <2> HIDE DEF m, t, hs
  <2>6. ASSUME NEW q \in Registrar, NEW e \in PoolElement
        PROVE  pes'[q][e].home = IF q = r /\ pes[r][e].home = t
                                   THEN s ELSE pes[q][e].home
    BY <2>2, <2>3 DEF IInv, PEsInv
  <2>7. PeersStep
    BY Zenon, <2>2, StartedUp, SamePeers
  <2>8. ASSUME NEW q \in Registrar, NEW d \in Registrar, NEW x, InNet(x, q, d)'
        PROVE  InNet(x, q, d)
    <3>1. InNet(x, q, d) \/ InSeq(x, Silence[d])
      BY Zenon, <2>0, <2>2, <2>8, SilenceOutput, ReceivedMessages DEF IInv
    <3>2. QED
      BY Zenon, <3>1, InSilence
  <2>9. NetStep /\ Announced(R)'
    BY Zenon, <2>4, <2>8 DEF NetStep, Announced
  <2>10. NothingLeft
    <3>1. ASSUME NEW q \in Registrar \ running', NEW e \in PoolElement
          PROVE  pes'[q][e].home = UNDEFINED
      <4>1. q # r /\ pes[q][e].home = UNDEFINED
        BY Zenon, <2>1, <2>2 DEF TakeoverInv, GroupInv
      <4>2. QED
        BY Zenon, <2>6, <4>1
    <3>2. QED
      BY Zenon, <3>1 DEF NothingLeft
  <2>11. ASSUME NEW e \in PoolElement, NEW h \in Registrar, Believed(e, h)'
         PROVE  Believed(e, h) \/ (h = s /\ Believed(e, t))
    <3>1. CASE \E q \in Registrar : pes'[q][e].home = h
      BY ZenonT(40), <2>1, <2>6, <3>1 DEF Believed
    <3>2. CASE \E q, d \in Registrar : \E x \in Message :
                 InNet(x, q, d)' /\ Tells(x, e, h)
      BY <2>8, <3>2 DEF Believed
    <3>3. QED
      BY Zenon, <2>11, <3>1, <3>2 DEF Believed, Tells
  <2>12. ASSUME NEW e \in PoolElement, NEW h \in Registrar,
                Believed(e, h), Believed(e, t)
         PROVE  h = s \/ h \in R[s] \/ s \in R[h]
    <3>1. h = t \/ t \in R[h] \/ h \in R[t]
      BY <2>1, <2>4, <2>12 DEF Explained
    <3>2. CASE h = t \/ h \in R[t]
      BY Zenon, <2>5, <3>2
    <3>3. CASE t \in R[h]
      BY <2>1, <2>4, <2>5, <3>3 DEF TakeoverOrder
    <3>4. QED
      BY Zenon, <3>1, <3>2, <3>3
  <2>13. Explained(R)'
    <3>1. ASSUME NEW e \in PoolElement, NEW g \in Registrar, NEW h \in Registrar,
                 Believed(e, g)', Believed(e, h)'
          PROVE  g = h \/ h \in R[g] \/ g \in R[h]
      <4>1. CASE Believed(e, g) /\ Believed(e, h)
        BY <2>4, <4>1 DEF Explained
      <4>2. CASE Believed(e, g) /\ h = s /\ Believed(e, t)
        BY <2>12, <4>2
      <4>3. CASE g = s /\ Believed(e, t) /\ Believed(e, h)
        BY <2>12, <4>3
      <4>4. QED
        BY Zenon, <2>11, <3>1, <4>1, <4>2, <4>3
    <3>2. QED
      BY <3>1 DEF Explained
  <2>14. QED
    BY ZenonT(40), <2>4, <2>7, <2>9, <2>10, <2>13, OrderKept, ExplainedStep
<1> SUFFICES ASSUME NEW r \in Registrar, NEW s \in Registrar, IInv, IInv', TakeoverInv,
                    HandleMessage(r, s), Orderly
             PROVE  TakeoverInv'
  BY Zenon
<1>1. CASE HandleENRPListRequest(r, s) \/ HandleENRPListResponse(r, s)
  <2>1. Received(r, s, "ListRequest") \/ Received(r, s, "ListResponse")
    BY <1>1 DEF HandleENRPListRequest, HandleENRPListResponse
  <2>2. QED
    BY <2>1, HandledMessage
<1>2. CASE HandleMulticastPresence(r, s) \/ HandleENRPPresence(r, s)
  BY <1>2, <1>MulticastTakeover, <1>PresenceTakeover
<1>3. CASE \/ HandleENRPHandleUpdate(r, s)
           \/ HandleENRPHandleTableRequest(r, s)
           \/ HandleENRPHandleTableResponse(r, s)
  BY <1>3, <1>UpdateTakeover, <1>TableRequestTakeover, <1>TableResponseTakeover
<1>4. CASE \/ HandleENRPInitTakeover(r, s)
           \/ HandleENRPInitTakeoverAck(r, s)
           \/ HandleENRPTakeoverServer(r, s)
  BY ZenonT(40), <1>4, <1>InitTakeoverTakeover, <1>InitTakeoverAckTakeover,
     <1>TakeoverServerTakeover
<1>5. QED
  BY <1>1, <1>2, <1>3, <1>4 DEF HandleMessage

\* So does every orderly step.
LEMMA NextTakeover ==
  ASSUME IInv, IInv', TakeoverInv, Next, Orderly
  PROVE  TakeoverInv'

<1>PresenceNoNews.
  ASSUME NEW r, NEW s, NEW b
  PROVE  LET m == PresenceMessage(s, b) IN SafeMessage(r, m) /\ KnownMessage(m)
  <2> USE <1>PresenceNoNews
  <2>1. PresenceMessage(s, b).type = "Presence"
    BY DEF PresenceMessage
  <2>2. QED
    BY <2>1, NoNews

\* The failure of a registrar preserves the invariant.
<1>CrashTakeover.
  ASSUME NEW r \in Registrar, IInv, IInv', TakeoverInv, Crash(r)
  PROVE  TakeoverInv'
  <2> USE <1>CrashTakeover
  <2>0. running \subseteq Registrar
    BY Zenon DEF IInv, RestInv
  <2>1. ASSUME NEW q \in Registrar, NEW p \in Registrar
        PROVE  peers'[q][p] = IF q = r THEN NoPeer ELSE peers[q][p]
    BY Zenon DEF Crash, IInv, PeersInv
  <2>2. ASSUME NEW q \in Registrar, NEW e \in PoolElement
        PROVE  pes'[q][e] = IF q = r THEN NoPE ELSE pes[q][e]
    BY Zenon DEF Crash, IInv, PEsInv
  <2>3. running' = running \ {r} /\ \A q \in running' : startup'[q] = startup[q]
    BY Zenon, <2>0 DEF Crash, IInv, RestInv
  <2>4. PeersStep
    <3>1. ASSUME NEW q \in running', NEW p \in Registrar
          PROVE  EntryStep(q, p, peers'[q][p])
      <4>1. q \in running /\ q \in Registrar /\ peers'[q][p] = peers[q][p]
        BY Zenon, <2>0, <2>1, <2>3
      <4>2. QED
        BY Zenon, <4>1
           DEF EntryStep, Settled, ProcessInv, GroupInv, TakeoverInv
    <3>2. ASSUME NEW q \in Registrar \ running', NEW p \in Registrar
          PROVE  peers'[q][p] = NoPeer
      <4>1. CASE q = r
        BY Zenon, <2>1, <4>1
      <4>2. CASE q # r
        <5>1. q \notin running
          BY Zenon, <2>3, <4>2
        <5>2. peers[q][p] = NoPeer
          BY Zenon, <5>1 DEF TakeoverInv, GroupInv
        <5>3. QED
          BY Zenon, <2>1, <4>2, <5>2
      <4>3. QED
        BY Zenon, <4>1, <4>2
    <3>3. QED
      BY Zenon, <2>0, <2>3, <3>1, <3>2, StartedUp DEF PeersStep
  <2>5. ASSUME NEW q \in Registrar, NEW e \in PoolElement,
               pes'[q][e].home # UNDEFINED
        PROVE  q \in running' /\ Believed(e, pes'[q][e].home)
    <3>1. q # r /\ pes'[q][e] = pes[q][e]
      BY <2>2, <2>5 DEF NoPE
    <3>2. q \in running /\ Believed(e, pes[q][e].home)
      BY Zenon, <2>5, <3>1, OldBelief DEF TakeoverInv
    <3>3. QED
      BY Zenon, <2>3, <3>1, <3>2
  <2>6. ASSUME NEW s \in Registrar, NEW d \in Registrar, NEW m, InNet(m, s, d)'
        PROVE  InNet(m, s, d)
    <3>1. net'[s][d] = IF d = r THEN <<>> ELSE net[s][d]
      BY DEF Crash, IInv, NetInv
    <3>2. QED
      BY <2>6, <3>1 DEF InNet, InSeq
  <2>7. QED
    BY Zenon, <2>4, <2>5, <2>6, QuietStep

\* So does the loss of messages.
<1>LossTakeover.
  ASSUME NEW r \in Registrar, NEW s \in Registrar, IInv, IInv', TakeoverInv,
         LoseAssociation(r, s) \/ LoseMulticast(r, s)
  PROVE  TakeoverInv'
  <2> USE <1>LossTakeover
  <2>1. UNCHANGED <<running, peers, startup, pes>>
    BY DEF LoseAssociation, LoseMulticast
  <2>2. PeersStep
    BY <2>1, StartedUp, SamePeers
  <2>3. QuietNet
    <3>1. CASE LoseAssociation(r, s)
      <4>1. ASSUME NEW q \in Registrar, NEW d \in Registrar, NEW m,
                   InNet(m, q, d)'
            PROVE  InNet(m, q, d)
        <5>1. net'[q][d] = IF q = s /\ d = r THEN <<>> ELSE net[q][d]
          BY Zenon, <3>1 DEF LoseAssociation, IInv, NetInv
        <5>2. QED
          BY <4>1, <5>1 DEF InNet, InSeq
      <4>2. QED
        BY <4>1 DEF QuietNet
    <3>2. CASE LoseMulticast(r, s)
      BY <3>2, SameNet DEF LoseMulticast
    <3>3. QED
      BY <3>1, <3>2
  <2>4. QED
    BY <2>1, <2>2, <2>3, SameHomes, CalmStep

\* registrarHandleENRPAnnounceTimer
<1>AnnounceTakeover.
  ASSUME NEW r \in Registrar, IInv, IInv', TakeoverInv,
         HandleENRPAnnounceTimer(r)
  PROVE  TakeoverInv'
  <2> USE <1>AnnounceTakeover
  <2>1. \A q \in running : ~startup'[q]
    BY StartedUp DEF HandleENRPAnnounceTimer, IInv, RestInv
  <2>2. PeersStep
    BY <2>1, StartedUp, SamePeers DEF HandleENRPAnnounceTimer
  <2>3. QuietOutput(r, PresenceToAllPeers(r))
    BY Zenon, InToAll, <1>PresenceNoNews DEF QuietOutput, PresenceToAllPeers
  <2>4. QuietNet
    BY <2>3, PresencesOutput, QuietSend DEF HandleENRPAnnounceTimer, IInv
  <2>5. QED
    BY Zenon, <2>2, <2>4, SameHomes, CalmStep DEF HandleENRPAnnounceTimer

\* The entry of a peer whose takeover is started.
<1>StartedEntry.
  ASSUME NEW r \in Registrar, NEW p \in Registrar, PeersInv, StartTakeover(r, p)
  PROVE  peers' = [peers EXCEPT ![r][p] =
           [peers[r][p] EXCEPT !.TakeoverProcess = TRUE,
                               !.OutstandingAcks = OutstandingAcksFor(r, p),
                               !.TimerCode = "TAKEOVER_EXPIRY"]]
  <2> USE <1>StartedEntry
  <2>1. peers[r][p] \in PeerListNode
    BY DEF PeersInv
  <2>2. QED
    BY Zenon, <2>1 DEF StartTakeover, PeersInv, PeerListNode

\* registrarHandlePeerEvent: a takeover is started only for a peer that has
\* failed, and waits for all that run.
<1>PeerEventTakeover.
  ASSUME NEW r \in Registrar, NEW p \in Registrar, IInv, IInv', TakeoverInv,
         HandlePeerEvent(r, p), Orderly
  PROVE  TakeoverInv'
  <2> USE <1>PeerEventTakeover
  <2> DEFINE old == peers[r][p]
  <2>0. r \in running /\ running \subseteq Registrar /\ PeerOK(r, p, old)
    BY DEF HandlePeerEvent, LastHeardTimeout, NoResponseTakeover,
           NoResponseForget, TakeoverExpiry, PeerTimerExpires,
           IInv, RestInv, PeersInv, PeerListOK
  <2>1. UNCHANGED <<running, startup, pes>>
    BY DEF HandlePeerEvent, LastHeardTimeout, NoResponseTakeover,
           NoResponseForget, TakeoverExpiry
  <2>2. GroupInv /\ ProcessInv /\ MessageInv
    BY DEF TakeoverInv
  <2>3. CASE LastHeardTimeout(r, p)
    <3> DEFINE node == [peers[r][p] EXCEPT !.TimerCode = "NO_RESPONSE"]
    <3>1. /\ node.known = old.known /\ node.TakeoverProcess = old.TakeoverProcess
          /\ node.Status = old.Status
          /\ node.TakeoverRegistrarID = old.TakeoverRegistrarID
          /\ node.OutstandingAcks = old.OutstandingAcks
      BY <2>0 DEF PeerOK, PeerListNode
    <3>2. peers' = [peers EXCEPT ![r][p] = node]
      BY Zenon, <2>3 DEF LastHeardTimeout, IInv, PeersInv
    <3> HIDE DEF node
    <3>3. EntryStep(r, p, node)
      BY Zenon, <2>0, <2>2, <3>1
         DEF EntryStep, SettledNode, Settled, ProcessInv, GroupInv, Entitled
    <3>4. PeersStep
      BY Zenon, <2>0, <2>1, <3>2, <3>3, StartedUp, OnePeer
    <3>5. Send(r, ToPeer(p, <<PresenceMessage(r, TRUE)>>))
      BY <2>3 DEF LastHeardTimeout
    <3>6. QuietNet
      <4> DEFINE message == PresenceMessage(r, TRUE)
      <4>1. message \in Message /\ message.type = "Presence"
        BY Zenon, PresenceIsMessage DEF PresenceMessage
      <4>2. Send(r, ToPeer(p, <<message>>))
        BY Zenon, <3>5
      <4> HIDE DEF message
      <4>3. QuietOutput(r, ToPeer(p, <<message>>))
        BY <4>1, InToPeer, InOne, NoNews DEF QuietOutput
      <4>4. QED
        BY <4>1, <4>2, <4>3, OneToPeerOutput, QuietSend DEF IInv
    <3>7. QED
      BY <2>1, <3>4, <3>6, SameHomes, CalmStep
  <2>4. CASE NoResponseTakeover(r, p)
    <3> DEFINE node == [peers[r][p] EXCEPT
                          !.TakeoverProcess = TRUE,
                          !.OutstandingAcks = OutstandingAcksFor(r, p),
                          !.TimerCode = "TAKEOVER_EXPIRY"]
               message == TakeoverMessage("InitTakeover", p)
    <3>1. p \notin running /\ StartTakeover(r, p)
      BY ZenonT(40), <2>4 DEF Orderly, NoResponseTakeover
    <3>2. /\ old.known /\ old.TakeoverRegistrarID = UNDEFINED
          /\ old.TimerCode = "NO_RESPONSE"
      BY <2>0, <2>4 DEF NoResponseTakeover, PeerTimerExpires, PeerOK
    <3>3. /\ node.known = old.known /\ node.TakeoverProcess
          /\ node.Status = old.Status
          /\ node.OutstandingAcks = OutstandingAcksFor(r, p)
      BY Zenon, <2>0 DEF PeerOK, PeerListNode
    <3>4. peers' = [peers EXCEPT ![r][p] = node]
      BY Zenon, <3>1, <1>StartedEntry DEF IInv
    <3> HIDE DEF node
    <3>5. Entitled(r, p, node)
      <4>1. ASSUME NEW q \in Registrar \ {r}, q \notin OutstandingAcksFor(r, p)
            PROVE  Settled(q, p)
        <5>1. q \notin running
          BY Zenon, <2>0, <2>2, <3>1, <4>1 DEF OutstandingAcksFor, Peers, GroupInv
        <5>2. QED
          BY Zenon, <2>2, <5>1, NoPeerSettled DEF GroupInv, Settled
      <4>2. QED
        BY Zenon, <3>1, <3>3, <4>1 DEF Entitled
    <3>6. EntryStep(r, p, node)
      BY ZenonT(40), <2>0, <2>2, <3>1, <3>2, <3>3, <3>5
         DEF EntryStep, SettledNode, Settled, GroupInv
    <3>7. PeersStep
      BY Zenon, <2>0, <2>1, <3>4, <3>6, StartedUp, OnePeer
    <3>8. SafeMessage(r, message) /\ KnownMessage(message)
      BY <3>1 DEF SafeMessage, KnownMessage, Tells, TakeoverMessage
    <3>9. QuietNet
      <4>1. QuietOutput(r, ToAll(r, message))
        BY Zenon, <3>8, InToAll DEF QuietOutput
      <4>2. ToAll(r, message) \in Output
        BY TakeoverIsMessage, ToAllOutput
      <4>3. QED
        BY Zenon, <3>1, <4>1, <4>2, QuietSend DEF StartTakeover, IInv
    <3>10. QED
      BY <2>1, <3>7, <3>9, SameHomes, CalmStep
  <2>5. CASE NoResponseForget(r, p) \/ TakeoverExpiry(r, p)
    <3>1. p \notin running
      <4>1. CASE NoResponseForget(r, p)
        BY Zenon, <4>1 DEF Orderly
      <4>2. CASE TakeoverExpiry(r, p)
        BY Zenon, <2>0, <2>2, <4>2 DEF TakeoverExpiry, PeerOK, ProcessInv, Entitled
      <4>3. QED
        BY Zenon, <2>5, <4>1, <4>2
    <3>2. EntryStep(r, p, NoPeer)
      BY Zenon, <3>1, NoPeerSettled DEF EntryStep, NoPeer
    <3>3. peers' = [peers EXCEPT ![r][p] = NoPeer] /\ UNCHANGED net
      BY <2>5 DEF NoResponseForget, TakeoverExpiry
    <3>4. PeersStep
      BY Zenon, <2>0, <2>1, <3>2, <3>3, StartedUp, OnePeer
    <3>5. QED
      BY <2>1, <3>3, <3>4, SameNet, SameHomes, CalmStep
  <2>6. QED
    BY Zenon, <2>3, <2>4, <2>5 DEF HandlePeerEvent

\* A handler that only removes PEs or restarts their timers, and announces
\* removals.
<1>RemovalTakeover.
  ASSUME NEW r \in Registrar, IInv, IInv', TakeoverInv,
         UNCHANGED <<running, startup, peers>>, HomesKept, QuietNet
  PROVE  TakeoverInv'
  BY Zenon, <1>RemovalTakeover, StartedUp, SamePeers, CalmStep

\* Removing PEs leaves the other homes alone.
<1>RemoveHomes.
  ASSUME NEW r \in Registrar, NEW S, PEsInv, RemovePEs(r, S)
  PROVE  HomesKept
  BY <1>RemoveHomes DEF RemovePEs, HomesKept, PEsInv, NoPE

\* Changing the timer or the reports of a PE does so, too.
<1>EntryHomes.
  ASSUME NEW r \in Registrar, NEW e \in PoolElement, PEsInv, NEW node,
         node.home = pes[r][e].home, pes' = [pes EXCEPT ![r][e] = node]
  PROVE  HomesKept
  BY <1>EntryHomes DEF HomesKept, PEsInv

\* The announcement of a removal.
<1>RemovalNoNews.
  ASSUME NEW r \in Registrar, NEW e \in PoolElement, NEW h
  PROVE  QuietOutput(r, HandleUpdate(r, e, h, "DEL_PE"))
  <2> USE <1>RemovalNoNews
  <2> DEFINE message == HandleUpdateMessage(e, h, "DEL_PE")
  <2>1. message.type = "HandleUpdate" /\ message.action = "DEL_PE"
    BY DEF HandleUpdateMessage
  <2>2. HandleUpdate(r, e, h, "DEL_PE") = ToAll(r, message)
    BY DEF HandleUpdate
  <2> HIDE DEF message
  <2>3. QED
    BY Zenon, <2>1, <2>2, InToAll, NoNews DEF QuietOutput

\* registrarHandleASAPDeregistration
<1>DeregistrationTakeover.
  ASSUME NEW r \in Registrar, NEW e \in PoolElement, IInv, IInv', TakeoverInv,
         HandleASAPDeregistration(r, e)
  PROVE  TakeoverInv'
  <2> USE <1>DeregistrationTakeover
  <2>1. HomesKept
    BY <1>RemoveHomes DEF HandleASAPDeregistration, IInv
  <2>2. HandleUpdate(r, e, r, "DEL_PE") \in Output
    BY Zenon, UpdateOutput
  <2>3. QuietNet
    BY Zenon, <2>2, <1>RemovalNoNews, QuietSend DEF HandleASAPDeregistration, IInv
  <2>4. QED
    BY Zenon, <2>1, <2>3, <1>RemovalTakeover DEF HandleASAPDeregistration

\* The removal of a PE whose timer has expired, or of which there are too many
\* reports.
<1>RemovedTakeover.
  ASSUME NEW r \in Registrar, NEW e \in PoolElement, IInv, IInv', TakeoverInv,
         Send(r, RemovalUpdate(r, e)), RemovePEs(r, {e}),
         UNCHANGED <<running, startup, peers>>
  PROVE  TakeoverInv'
  <2> USE <1>RemovedTakeover
  <2>1. HomesKept
    BY Zenon, <1>RemoveHomes DEF IInv
  <2>2. QuietOutput(r, RemovalUpdate(r, e))
    <3>1. QuietOutput(r, Silence)
      BY InSilence DEF QuietOutput
    <3>2. QED
      BY Zenon, <3>1, <1>RemovalNoNews DEF RemovalUpdate
  <2>3. QuietNet
    BY <2>2, RemovalOutput, QuietSend DEF IInv
  <2>4. QED
    BY Zenon, <2>1, <2>3, <1>RemovalTakeover

\* A change of one entry which keeps its home.
<1>EntryTakeover.
  ASSUME NEW r \in Registrar, NEW e \in PoolElement, IInv, IInv', TakeoverInv,
         NEW node, node.home = pes[r][e].home, pes' = [pes EXCEPT ![r][e] = node],
         UNCHANGED <<running, startup, peers, net>>
  PROVE  TakeoverInv'
  <2> USE <1>EntryTakeover
  <2>1. HomesKept
    BY Zenon, <1>EntryHomes DEF IInv
  <2>2. QED
    BY Zenon, <2>1, SameNet, <1>RemovalTakeover

\* registrarHandlePoolElementEvent
<1>PoolElementEventTakeover.
  ASSUME NEW r \in Registrar, NEW e \in PoolElement, IInv, IInv', TakeoverInv,
         HandlePoolElementEvent(r, e)
  PROVE  TakeoverInv'
  <2> USE <1>PoolElementEventTakeover
  <2>1. CASE KeepAliveTransmission(r, e)
    <3> DEFINE node == [pes[r][e] EXCEPT !.TimerCode = "KEEPALIVE_TIMEOUT"]
    <3>1. node.home = pes[r][e].home
      BY DEF IInv, PEsInv, PoolElementNode
    <3>2. pes' = [pes EXCEPT ![r][e] = node]
      BY <2>1 DEF KeepAliveTransmission, IInv, PEsInv
    <3>3. UNCHANGED <<running, startup, peers, net>>
      BY <2>1 DEF KeepAliveTransmission
    <3> HIDE DEF node
    <3>4. QED
      BY Zenon, <3>1, <3>2, <3>3, <1>EntryTakeover
  <2>2. CASE PoolElementTimeout(r, e)
    BY Zenon, <2>2, <1>RemovedTakeover DEF PoolElementTimeout
  <2>3. QED
    BY <2>1, <2>2 DEF HandlePoolElementEvent

\* registrarHandleASAPEndpointKeepAliveAck
<1>KeepAliveAckTakeover.
  ASSUME NEW r \in Registrar, NEW e \in PoolElement, IInv, IInv', TakeoverInv,
         HandleASAPEndpointKeepAliveAck(r, e)
  PROVE  TakeoverInv'
  <2> USE <1>KeepAliveAckTakeover
  <2> DEFINE code == IF e \in Registered(r) THEN "KEEPALIVE_TRANSMISSION"
                                            ELSE pes[r][e].TimerCode
             node == [pes[r][e] EXCEPT !.TimerCode = code]
  <2>1. node.home = pes[r][e].home
    BY DEF IInv, PEsInv, PoolElementNode
  <2>2. pes' = [pes EXCEPT ![r][e] = node]
    BY DEF HandleASAPEndpointKeepAliveAck, IInv, PEsInv
  <2>3. UNCHANGED <<running, startup, peers, net>>
    BY Zenon DEF HandleASAPEndpointKeepAliveAck
  <2> HIDE DEF node
  <2>4. QED
    BY Zenon, <2>1, <2>2, <2>3, <1>EntryTakeover

\* registrarHandleASAPEndpointUnreachable
<1>UnreachableTakeover.
  ASSUME NEW r \in Registrar, NEW e \in PoolElement, IInv, IInv', TakeoverInv,
         HandleASAPEndpointUnreachable(r, e)
  PROVE  TakeoverInv'
  <2> USE <1>UnreachableTakeover
  <2> DEFINE reports == pes[r][e].reports + 1
             node == [pes[r][e] EXCEPT !.reports = reports]
  <2>1. CASE BadReports(reports)
    BY <2>1, <1>RemovedTakeover DEF HandleASAPEndpointUnreachable
  <2>2. CASE ~BadReports(reports)
    <3>1. node.home = pes[r][e].home
      BY DEF IInv, PEsInv, PoolElementNode
    <3>2. pes' = [pes EXCEPT ![r][e] = node]
      BY <2>2 DEF HandleASAPEndpointUnreachable, IInv, PEsInv
    <3>3. UNCHANGED <<running, startup, peers, net>>
      BY Zenon, <2>2 DEF HandleASAPEndpointUnreachable
    <3> HIDE DEF node
    <3>4. QED
      BY Zenon, <3>1, <3>2, <3>3, <1>EntryTakeover
  <2>3. QED
    BY <2>1, <2>2

\* registrarRemovePoolElementsOfConnection
<1>AssociationLostTakeover.
  ASSUME NEW r \in Registrar, NEW a \in Association, IInv, IInv', TakeoverInv,
         AssociationLost(r, a)
  PROVE  TakeoverInv'
  <2> USE <1>AssociationLostTakeover
  <2> DEFINE S   == PEsOfConnection(r, a)
             own == S \cap OwnedBy(r, r)
  <2>1. HomesKept
    BY Zenon, <1>RemoveHomes DEF AssociationLost, IInv
  <2>2. PICK q \in [1 .. Cardinality(own) -> own] :
          Send(r, [d \in Registrar |->
               IF d \in Peers(r)
                 THEN [i \in 1 .. Cardinality(own) |->
                         HandleUpdateMessage(q[i], r, "DEL_PE")]
                 ELSE <<>>])
    BY Zenon DEF AssociationLost
  <2>3. Cardinality(own) \in Nat /\ own \subseteq PoolElement
    <3>1. own \subseteq PoolElement
      BY DEF PEsOfConnection
    <3>2. QED
      BY <3>1, PoolElementAssumption
  <2> DEFINE n == Cardinality(own)
             updates == [i \in 1 .. n |-> HandleUpdateMessage(q[i], r, "DEL_PE")]
             out == [d \in Registrar |-> IF d \in Peers(r) THEN updates ELSE <<>>]
  <2>4. ASSUME NEW i \in 1 .. n
        PROVE  /\ updates[i] \in Message
               /\ updates[i].type = "HandleUpdate" /\ updates[i].action = "DEL_PE"
    <3>1. q[i] \in PoolElement
      BY Zenon, <2>2, <2>3
    <3> DEFINE message == HandleUpdateMessage(q[i], r, "DEL_PE")
    <3>2. /\ message \in Message
          /\ message.type = "HandleUpdate" /\ message.action = "DEL_PE"
      BY Zenon, <3>1, UpdateIsMessage DEF HandleUpdateMessage
    <3> HIDE DEF message
    <3>3. QED
      BY <3>2 DEF message
  <2>5. DOMAIN updates = 1 .. n /\ Send(r, out)
    BY <2>2
  <2>a. updates \in [1 .. n -> Message]
    BY Zenon, <2>4
  <2>b. n \in Nat
    BY <2>3
  <2> HIDE DEF updates, n
  <2>6. updates \in Seq(Message)
    BY <2>a, <2>b
  <2>7. out \in Output
    BY <2>6 DEF Output
  <2>8. QuietOutput(r, out)
    <3>1. ASSUME NEW d \in Registrar, NEW m \in Message, InSeq(m, out[d])
          PROVE  SafeMessage(r, m) /\ KnownMessage(m)
      <4>1. InSeq(m, updates)
        BY <3>1 DEF InSeq
      <4>2. PICK i \in 1 .. n : m = updates[i]
        BY Zenon, <2>5, <4>1 DEF InSeq
      <4>3. QED
        BY Zenon, <2>4, <4>2, NoNews
    <3>2. QED
      BY Zenon, <3>1 DEF QuietOutput
  <2>9. QuietNet
    BY Zenon, <2>5, <2>7, <2>8, QuietSend DEF IInv
  <2>10. QED
    BY Zenon, <2>1, <2>9, <1>RemovalTakeover DEF AssociationLost

\* What an update says.
<1>UpdateMembers.
  ASSUME NEW r \in Registrar, NEW e \in PoolElement, NEW home \in Registrar,
         NEW action \in {"ADD_PE", "DEL_PE"}, NEW d \in Registrar, NEW m,
         InSeq(m, HandleUpdate(r, e, home, action)[d])
  PROVE  m.type = "HandleUpdate" /\ m.action = action /\ m.pe = e /\ m.home = home
  <2> USE <1>UpdateMembers
  <2> DEFINE message == HandleUpdateMessage(e, home, action)
             better  == UsefulPeer(r, Peers(r), e)
             again   == [message EXCEPT !.suggested = TRUE]
             all     == ToAll(r, message)
             one     == ToPeer(better, <<again>>)
             Is(x)   == /\ x.type = "HandleUpdate" /\ x.action = action
                        /\ x.pe = e /\ x.home = home
  <2>1. Is(message) /\ Is(again)
    BY DEF HandleUpdateMessage
  <2>2. message \in Message /\ again \in Message
    BY Zenon, UpdateIsMessage
  <2>3. better \in Registrar \cup {UNDEFINED}
    <3>1. Peers(r) \in SUBSET Registrar
      BY DEF Peers
    <3>2. QED
      BY <3>1, UsefulPeerAssumption
  <2>4. \/ InSeq(m, all[d])
        \/ better \in Registrar /\ InSeq(m, Then(all, one)[d])
    BY <2>3 DEF HandleUpdate
  <2> HIDE DEF message, again, better
  <2>5. CASE InSeq(m, all[d])
    BY Zenon, <2>1, <2>5, InToAll
  <2>6. CASE better \in Registrar /\ InSeq(m, Then(all, one)[d])
    <3>1. all \in Output /\ one \in Output
      BY Zenon, <2>2, <2>6, ToAllOutput, OneToPeerOutput
    <3>2. all[d] \in Seq(Message) /\ one[d] \in Seq(Message)
      BY <3>1 DEF Output
    <3>3. InSeq(m, all[d] \o one[d])
      BY Zenon, <2>6 DEF Then
    <3> HIDE DEF all, one
    <3>4. InSeq(m, all[d]) \/ InSeq(m, one[d])
      BY Zenon, <3>2, <3>3, InConcat
    <3>5. QED
      BY Zenon, <2>1, <3>4, InToAll, InToPeer, InOne DEF all, one
  <2>7. QED
    BY Zenon, <2>4, <2>5, <2>6

\* registrarHandleASAPRegistration: the home of a PE is confirmed, or there was
\* none.
<1>RegistrationTakeover.
  ASSUME NEW r \in Registrar, NEW e \in PoolElement, NEW a \in Association,
         IInv, IInv', TakeoverInv, HandleASAPRegistration(r, e, a), Orderly
  PROVE  TakeoverInv'
  <2> USE <1>RegistrationTakeover
  <2> DEFINE out == HandleUpdate(r, e, r, "ADD_PE")
             node == [RegisterPE(pes[r][e], r, a)
                        EXCEPT !.TimerCode = "KEEPALIVE_TRANSMISSION"]
  <2>1. /\ r \in running /\ UNCHANGED <<running, startup, peers>>
        /\ Send(r, out)
    BY DEF HandleASAPRegistration
  <2>2. node.home = r
    BY DEF RegisterPE, IInv, PEsInv, PoolElementNode
  <2>3. pes' = [pes EXCEPT ![r][e] = node]
    BY DEF HandleASAPRegistration, IInv, PEsInv
  <2> HIDE DEF node
  <2>4. ASSUME NEW q \in Registrar, NEW x \in PoolElement
        PROVE  pes'[q][x].home = IF q = r /\ x = e THEN r ELSE pes[q][x].home
    BY <2>2, <2>3 DEF IInv, PEsInv
  <2>5. out \in Output
    BY Zenon, UpdateOutput
  <2>6. ASSUME NEW d \in Registrar, NEW m, InSeq(m, out[d])
        PROVE  /\ m.type = "HandleUpdate" /\ SafeMessage(r, m)
               /\ \A x \in PoolElement, h \in Registrar :
                    Tells(m, x, h) => x = e /\ h = r
    <3>1. m.type = "HandleUpdate" /\ m.pe = e /\ m.home = r
      BY <2>6, <1>UpdateMembers
    <3>2. QED
      BY Zenon, <3>1 DEF SafeMessage, Tells
  <2> HIDE DEF out
  <2>7. CASE pes[r][e].home = r
    <3>1. Believed(e, r)
      BY <2>7 DEF Believed
    <3>2. QuietOutput(r, out)
      <4>1. ASSUME NEW d \in Registrar, NEW m \in Message, InSeq(m, out[d])
            PROVE  SafeMessage(r, m) /\ KnownMessage(m)
        BY <2>6, <3>1, <4>1 DEF KnownMessage
      <4>2. QED
        BY <4>1 DEF QuietOutput
    <3>3. QuietNet
      BY ZenonT(40), <2>1, <2>5, <3>2, QuietSend DEF IInv
    <3>4. ASSUME NEW q \in Registrar, NEW x \in PoolElement
          PROVE  \/ pes'[q][x].home \in {pes[q][x].home, UNDEFINED}
                 \/ q = r /\ Believed(x, pes'[q][x].home)
      BY <2>4, <3>1
    <3>5. QED
      BY ZenonT(40), <2>1, <3>3, <3>4, PEsTakeover
  <2>8. CASE pes[r][e].home # r
    <3>1. \A h \in Registrar : ~Believed(e, h)
      BY Zenon, <2>8 DEF Orderly
    <3>2. PICK R \in [Registrar -> SUBSET Registrar] :
            TakeoverOrder(R) /\ Explained(R) /\ Announced(R)
      BY DEF TakeoverInv, HistoryInv
    <3>3. PeersStep
      BY ZenonT(40), <2>1, StartedUp, SamePeers
    <3>4. ASSUME NEW s \in Registrar, NEW d \in Registrar, NEW m \in Message,
                 InNet(m, s, d)'
          PROVE  \/ InNet(m, s, d)
                 \/ /\ m.type = "HandleUpdate" /\ SafeMessage(s, m)
                    /\ \A x \in PoolElement, h \in Registrar :
                         Tells(m, x, h) => x = e /\ h = r
      BY <2>1, <2>5, <2>6, <3>4, SentMessages DEF IInv
    <3>5. NetStep
      BY Zenon, <3>4 DEF NetStep
    <3>6. NothingLeft
      <4>1. ASSUME NEW q \in Registrar \ running', NEW x \in PoolElement
            PROVE  pes'[q][x].home = UNDEFINED
        <5>1. q # r /\ pes[q][x].home = UNDEFINED
          BY Zenon, <2>1 DEF TakeoverInv, GroupInv
        <5>2. QED
          BY Zenon, <2>4, <5>1
      <4>2. QED
        BY Zenon, <4>1 DEF NothingLeft
    <3>7. ASSUME NEW x \in PoolElement, NEW h \in Registrar, Believed(x, h)'
          PROVE  Believed(x, h) \/ (x = e /\ h = r)
      <4>1. CASE \E q \in Registrar : pes'[q][x].home = h
        BY Zenon, <2>4, <4>1 DEF Believed
      <4>2. CASE \E s, d \in Registrar : \E m \in Message :
                   InNet(m, s, d)' /\ Tells(m, x, h)
        BY Zenon, <3>4, <4>2 DEF Believed
      <4>3. QED
        BY Zenon, <3>7, <4>1, <4>2 DEF Believed, Tells
    <3>8. Explained(R)'
      <4> SUFFICES ASSUME NEW x \in PoolElement, NEW g \in Registrar, NEW h \in Registrar,
                          Believed(x, g)', Believed(x, h)'
                   PROVE  g = h \/ h \in R[g] \/ g \in R[h]
        BY Zenon DEF Explained
      <4>1. CASE x = e
        BY Zenon, <3>1, <3>7, <4>1
      <4>2. CASE x # e
        BY Zenon, <3>2, <3>7, <4>2 DEF Explained
      <4>3. QED
        BY Zenon, <4>1, <4>2
    <3>9. Announced(R)'
      BY <3>2, <3>4 DEF Announced
    <3>10. QED
      BY Zenon, <3>2, <3>3, <3>5, <3>6, <3>8, <3>9, OrderKept, ExplainedStep
  <2>9. QED
    BY <2>7, <2>8
<1>1. ASSUME NEW r \in Registrar,
             Crash(r) \/ Start(r) \/ HandleENRPAnnounceTimer(r)
      PROVE  TakeoverInv'
  <2>1. ~Start(r)
    BY Zenon DEF Start, Orderly
  <2>2. QED
    BY Zenon, <1>1, <2>1, <1>CrashTakeover, <1>AnnounceTakeover
<1>2. ASSUME NEW r \in Registrar, NEW s \in Registrar,
             \/ HandleMessage(r, s)
             \/ HandlePeerEvent(r, s)
             \/ LoseAssociation(r, s)
             \/ LoseMulticast(r, s)
      PROVE  TakeoverInv'
  BY ZenonT(40), <1>2, MessageTakeover, <1>PeerEventTakeover, <1>LossTakeover
<1>3. ASSUME NEW r \in Registrar, NEW e \in PoolElement,
             \/ \E a \in Association : HandleASAPRegistration(r, e, a)
             \/ HandleASAPDeregistration(r, e)
             \/ HandlePoolElementEvent(r, e)
             \/ HandleASAPEndpointKeepAliveAck(r, e)
             \/ HandleASAPEndpointUnreachable(r, e)
      PROVE  TakeoverInv'
  BY <1>3, <1>RegistrationTakeover, <1>DeregistrationTakeover,
     <1>PoolElementEventTakeover, <1>KeepAliveAckTakeover, <1>UnreachableTakeover
<1>4. ASSUME NEW r \in Registrar, NEW a \in Association, AssociationLost(r, a)
      PROVE  TakeoverInv'
  BY <1>4, <1>AssociationLostTakeover
<1>5. QED
  BY <1>1, <1>2, <1>3, <1>4 DEF Next

\* A step that changes nothing.
LEMMA StutterTakeover ==
  ASSUME IInv, IInv', TakeoverInv, UNCHANGED vars
  PROVE  TakeoverInv'
  <1>1. UNCHANGED <<running, startup, peers, pes, net>>
    BY DEF vars
  <1>2. PeersStep
    BY <1>1, StartedUp, SamePeers
  <1>3. QED
    BY <1>1, <1>2, SameNet, SameHomes, CalmStep

\* At the start there has been no takeover.
LEMMA InitTakeoverInv ==
 Init => TakeoverInv
  <1> SUFFICES ASSUME Init PROVE TakeoverInv
    OBVIOUS
  <1>1. ASSUME NEW r \in Registrar, NEW p \in Registrar
        PROVE  /\ peers[r][p] = IF r # p /\ {r, p} \subseteq Established
                                  THEN ConnectedPeer ELSE NoPeer
               /\ ~peers[r][p].TakeoverProcess
    <2>1. ~ConnectedPeer.TakeoverProcess /\ ~NoPeer.TakeoverProcess
      BY DEF ConnectedPeer, NewPeer, NoPeer
    <2>2. QED
      BY <2>1 DEF Init
  <1>2. ConnectedPeer.known /\ "LISTSYNC" \in ConnectedPeer.Status
        /\ ~NoPeer.known
    BY Zenon DEF ConnectedPeer, NewPeer, NoPeer
  <1>3. ASSUME NEW r \in Registrar, NEW e \in PoolElement
        PROVE  /\ pes[r][e].home \in {InitialHome[e], UNDEFINED}
               /\ r \notin Established => pes[r][e].home = UNDEFINED
    BY Zenon DEF Init, InitialPE, NoPE
  <1>4. ASSUME NEW s \in Registrar, NEW d \in Registrar, NEW m
        PROVE  ~InNet(m, s, d)
    BY ZenonT(40), InSilence DEF Init, InNet
  <1>5. GroupInv
    <2>1. running = Established /\ \A r \in running : ~startup[r]
      BY Zenon, InitialAssumption DEF Init
    <2>2. QED
      BY <1>1, <1>2, <1>3, <2>1, InitialAssumption DEF GroupInv
  <1>6. MessageInv
    BY Zenon, <1>4 DEF MessageInv
  <1>7. ProcessInv
    BY <1>1 DEF ProcessInv
  <1>8. HistoryInv
    <2> DEFINE R == [r \in Registrar |-> {}]
    <2>1. R \in [Registrar -> SUBSET Registrar]
      OBVIOUS
    <2>2. TakeoverOrder(R) /\ Announced(R)
      BY <1>4 DEF TakeoverOrder, Announced
    <2>3. ASSUME NEW e \in PoolElement, NEW h \in Registrar, Believed(e, h)
          PROVE  h = InitialHome[e]
      <3>1. \E r \in Registrar : pes[r][e].home = h
        BY <1>4, <2>3 DEF Believed
      <3>2. QED
        BY ZenonT(40), <1>3, <3>1, RegistrarAssumption DEF UNDEFINED
    <2>4. Explained(R)
      BY Zenon, <2>3 DEF Explained
    <2>5. QED
      BY <2>1, <2>2, <2>4 DEF HistoryInv
  <1>9. QED
    BY <1>5, <1>6, <1>7, <1>8 DEF TakeoverInv

\* Whoever considers itself the home of a PE has not failed, so that nobody has
\* taken it over.
LEMMA TakeoverOneOwner ==
 IInv /\ TakeoverInv => OneOwner
  <1> SUFFICES ASSUME IInv, TakeoverInv, NEW r \in running, NEW q \in running,
                      NEW e \in PoolElement,
                      pes[r][e].home = r, pes[q][e].home = q
               PROVE  r = q
    BY DEF OneOwner
  <1>1. r \in Registrar /\ q \in Registrar
    BY Zenon DEF IInv, RestInv
  <1>2. Believed(e, r) /\ Believed(e, q)
    BY Zenon, <1>1 DEF Believed
  <1>3. PICK R \in [Registrar -> SUBSET Registrar] :
          TakeoverOrder(R) /\ Explained(R)
    BY Zenon DEF TakeoverInv, HistoryInv
  <1>4. R[r] = {} /\ R[q] = {}
    BY <1>1, <1>3 DEF TakeoverOrder, Taken
  <1>5. QED
    BY Zenon, <1>1, <1>2, <1>3, <1>4 DEF Explained

\* The inductive invariant of the takeovers.
THEOREM TakeoverInvariance ==
 Spec /\ [][Orderly]_vars => [](IInv /\ TakeoverInv)
  <1>1. Init => IInv /\ TakeoverInv
    BY InitInv, InitTakeoverInv
  <1>2. ASSUME IInv /\ TakeoverInv, [Next]_vars, [Orderly]_vars
        PROVE  (IInv /\ TakeoverInv)'
    <2>1. IInv'
      BY <1>2, NextInv
    <2>2. CASE UNCHANGED vars
      BY <1>2, <2>1, <2>2, StutterTakeover
    <2>3. CASE Next /\ Orderly
      BY <1>2, <2>1, <2>3, NextTakeover
    <2>4. QED
      BY <1>2, <2>1, <2>2, <2>3
  <1>3. QED
    BY <1>1, <1>2, PTL DEF Spec

\* No PE gets two homes, however many registrars fail, whatever is lost, and
\* however their takeovers interleave, if only failed registrars are given up
\* (registrarHandleENRPInitTakeover, registrarHandleENRPInitTakeoverAck,
\* registrarHandleENRPTakeoverServer).
THEOREM OneOwnerOrderly ==
 Spec /\ [][Orderly]_vars => []OneOwner
  BY TakeoverInvariance, TakeoverOneOwner, PTL

-----------------------------------------------------------------------------
(* Failures only *)

\* Registrars fail and messages are lost as often as the bounds say, and nothing
\* else happens to the group: no Presence is lost for so long that a peer is given
\* up that still runs, and the PEs stay where they are.
OnlyFailures ==
  /\ Recurring \subseteq {"crash", "loss"}
  /\ \A limit \in Bound : \A k \in EventKind \ {"crash", "loss"} : limit[k] = 0

TakeoverType == {"InitTakeover", "InitTakeoverAck", "TakeoverServer"}

\* Then only messages of takeovers are under way.
FailureInv ==
  /\ mcast = {}
  /\ \A s, d \in Registrar : \A m \in Message : InNet(m, s, d) => m.type \in TakeoverType

\* The handlers that are left.
FailureStep ==
  \/ \E r \in Registrar : Crash(r)
  \/ \E r, s \in Registrar :
       \/ HandleENRPInitTakeover(r, s)
       \/ HandleENRPInitTakeoverAck(r, s)
       \/ HandleENRPTakeoverServer(r, s)
       \/ s \notin running /\ HandlePeerEvent(r, s)
       \/ LoseAssociation(r, s)
  \/ \E r \in Registrar, e \in PoolElement :
       \/ Orphaned(e) /\ PoolElementTimeout(r, e)
       \/ HandleASAPEndpointKeepAliveAck(r, e)

\* What is under way after a step that sends only messages of takeovers.
TakeoverNet ==
  \A s, d \in Registrar : \A m \in Message :
    InNet(m, s, d)' => InNet(m, s, d) \/ m.type \in TakeoverType

\* An output of such messages.
TakeoverOutput(out) ==
  \A d \in Registrar : \A m \in Message : InSeq(m, out[d]) => m.type \in TakeoverType

FailuresInv == IInv /\ TakeoverInv /\ FailureInv

\* The invariant of a group in which there are only failures, and what its steps
\* are.
THEOREM FailuresInvariance ==
  ASSUME OnlyFailures
  PROVE  Spec => []FailuresInv /\ [][FailureStep]_vars

\* No other event happens.
<1>NoSpend.
  ASSUME OnlyFailures, IInv, NEW k \in EventKind \ {"crash", "loss"}
  PROVE  ~Spend(k)
  <2> USE <1>NoSpend
  <2>1. ASSUME Spend(k) PROVE FALSE
    <3>1. k \notin Recurring
      BY Zenon DEF OnlyFailures
    <3>2. spent \in [EventKind -> Nat] /\ k \in EventKind
      BY DEF IInv, RestInv
    <3>3. spent' = [spent EXCEPT ![k] = @ + 1]
      BY <2>1, <3>1 DEF Spend
    <3>4. PICK limit \in Bound : \A j \in EventKind : spent'[j] <= limit[j]
      BY <2>1, <3>1 DEF Spend
    <3>5. spent'[k] = spent[k] + 1 /\ spent[k] \in Nat
      BY <3>2, <3>3
    <3>6. limit[k] = 0 /\ spent'[k] <= limit[k]
      BY <3>2, <3>4 DEF OnlyFailures
    <3>7. QED
      BY <3>5, <3>6
  <2>2. QED
    BY <2>1

\* The timer of a peer expires only after the peer has failed.
<1>OnlyFailedExpire.
  ASSUME OnlyFailures, IInv, NEW r, NEW p, NEW code, NEW kind \in {"probe", "suspect"},
         PeerTimerExpires(r, p, code, kind)
  PROVE  p \notin running
  <2> USE <1>OnlyFailedExpire
  <2>1. kind \in EventKind \ {"crash", "loss"}
    BY DEF EventKind
  <2>2. QED
    BY <2>1, <1>NoSpend DEF PeerTimerExpires

<1>MessageFailure.
  ASSUME FailureInv, IInv, NEW r \in Registrar, NEW s \in Registrar,
         HandleMessage(r, s)
  PROVE  \/ HandleENRPInitTakeover(r, s)
         \/ HandleENRPInitTakeoverAck(r, s)
         \/ HandleENRPTakeoverServer(r, s)
  <2> USE <1>MessageFailure
  <2>1. ~HandleMulticastPresence(r, s)
    BY Zenon DEF FailureInv, HandleMulticastPresence
  <2>2. ASSUME NEW type, Received(r, s, type) PROVE type \in TakeoverType
    BY <2>2, ReceivedMessage, HeadInNet DEF IInv, FailureInv
  <2>3. /\ ~Received(r, s, "Presence") /\ ~Received(r, s, "HandleUpdate")
        /\ ~Received(r, s, "ListRequest") /\ ~Received(r, s, "ListResponse")
        /\ ~Received(r, s, "HandleTableRequest")
        /\ ~Received(r, s, "HandleTableResponse")
    BY <2>2 DEF TakeoverType
  <2>4. ~HandleENRPPresence(r, s)
    BY Zenon, <2>3 DEF HandleENRPPresence
  <2>5. ~HandleENRPHandleUpdate(r, s)
    BY Zenon, <2>3 DEF HandleENRPHandleUpdate, AddPE, DelPE
  <2>6. ~HandleENRPListRequest(r, s) /\ ~HandleENRPListResponse(r, s)
    BY <2>3 DEF HandleENRPListRequest, HandleENRPListResponse
  <2>7. ~HandleENRPHandleTableRequest(r, s)
    BY Zenon, <2>3 DEF HandleENRPHandleTableRequest, SendHandleTable, RejectHandleTable
  <2>8. ~HandleENRPHandleTableResponse(r, s)
    BY Zenon, <2>3 DEF HandleENRPHandleTableResponse, RequestNextChunk,
                CompleteSynchronization, SynchronizationRejected, IgnoreTable
  <2>9. QED
    BY Zenon, <2>1, <2>4, <2>5, <2>6, <2>7, <2>8 DEF HandleMessage

\* What may happen in a group in which there are only failures.
<1>NextFailure.
  ASSUME OnlyFailures, FailureInv, IInv, TakeoverInv, Next
  PROVE  FailureStep
  <2> USE <1>NextFailure
  <2>1. /\ ~Spend("start") /\ ~Spend("announce") /\ ~Spend("register")
        /\ ~Spend("deregister") /\ ~Spend("keepalive") /\ ~Spend("petimeout")
        /\ ~Spend("commlost") /\ ~Spend("unreachable")
    BY Zenon, <1>NoSpend DEF EventKind
  <2>2. ASSUME NEW r \in Registrar,
               Crash(r) \/ Start(r) \/ HandleENRPAnnounceTimer(r)
        PROVE  FailureStep
    BY <2>1, <2>2 DEF Start, HandleENRPAnnounceTimer, FailureStep
  <2>3. ASSUME NEW r \in Registrar, NEW s \in Registrar, HandlePeerEvent(r, s)
        PROVE  s \notin running
    <3>1. CASE LastHeardTimeout(r, s)
      BY <3>1, <1>OnlyFailedExpire DEF LastHeardTimeout
    <3>2. CASE NoResponseTakeover(r, s) \/ NoResponseForget(r, s)
      BY <3>2, <1>OnlyFailedExpire DEF NoResponseTakeover, NoResponseForget
    <3>3. CASE TakeoverExpiry(r, s)
      <4>1. peers[r][s].TakeoverProcess
        BY <3>3 DEF TakeoverExpiry, IInv, PeersInv, PeerListOK, PeerOK
      <4>2. QED
        BY ZenonT(40), <4>1 DEF TakeoverInv, ProcessInv, Entitled
    <3>4. QED
      BY <2>3, <3>1, <3>2, <3>3 DEF HandlePeerEvent
  <2>4. ASSUME NEW r \in Registrar, NEW s \in Registrar,
               \/ HandleMessage(r, s)
               \/ HandlePeerEvent(r, s)
               \/ LoseAssociation(r, s)
               \/ LoseMulticast(r, s)
        PROVE  FailureStep
    <3>1. ~LoseMulticast(r, s)
      BY DEF LoseMulticast, FailureInv
    <3>2. CASE HandleMessage(r, s)
      BY <3>2, <1>MessageFailure DEF FailureStep
    <3>3. CASE HandlePeerEvent(r, s) \/ LoseAssociation(r, s)
      BY Zenon, <2>3, <3>3 DEF FailureStep
    <3>4. QED
      BY <2>4, <3>1, <3>2, <3>3
  <2>5. ASSUME NEW r \in Registrar, NEW e \in PoolElement,
               \/ \E a \in Association : HandleASAPRegistration(r, e, a)
               \/ HandleASAPDeregistration(r, e)
               \/ HandlePoolElementEvent(r, e)
               \/ HandleASAPEndpointKeepAliveAck(r, e)
               \/ HandleASAPEndpointUnreachable(r, e)
        PROVE  FailureStep
    <3>1. /\ \A a \in Association : ~HandleASAPRegistration(r, e, a)
          /\ ~HandleASAPDeregistration(r, e)
          /\ ~HandleASAPEndpointUnreachable(r, e)
          /\ ~KeepAliveTransmission(r, e)
      BY Zenon, <2>1 DEF HandleASAPRegistration, HandleASAPDeregistration,
                  HandleASAPEndpointUnreachable, KeepAliveTransmission
    <3>2. PoolElementTimeout(r, e) => Orphaned(e)
      BY Zenon, <2>1 DEF PoolElementTimeout
    <3>3. QED
      BY <2>5, <3>1, <3>2 DEF HandlePoolElementEvent, FailureStep
  <2>6. ASSUME NEW r \in Registrar, NEW a \in Association
        PROVE  ~AssociationLost(r, a)
    BY Zenon, <2>1 DEF AssociationLost
  <2>7. QED
    BY <2>2, <2>4, <2>5, <2>6 DEF Next

\* Such a step is orderly: whoever is given up has failed, and nothing is handled
\* but messages of takeovers.
<1>FailureOrderly.
  ASSUME OnlyFailures, FailureInv, IInv, FailureStep
  PROVE  Orderly
  <2> USE <1>FailureOrderly
  <2>1. running' \subseteq running
    <3>1. ASSUME NEW r \in Registrar, Crash(r) PROVE running' \subseteq running
      BY Zenon, <3>1 DEF Crash
    <3>2. ASSUME NEW r \in Registrar, NEW s \in Registrar,
                 \/ HandleENRPInitTakeover(r, s)
                 \/ HandleENRPInitTakeoverAck(r, s)
                 \/ HandleENRPTakeoverServer(r, s)
                 \/ HandlePeerEvent(r, s)
                 \/ LoseAssociation(r, s)
          PROVE  UNCHANGED running
      BY Zenon, <3>2
         DEF HandleENRPInitTakeover, InitTakeoverOfMe, AgreeToTakeover,
             ContinueOwnTakeover, HandleENRPInitTakeoverAck, AwaitMoreAcks,
             FinishTakeover, IgnoreAck, HandleENRPTakeoverServer,
             HandlePeerEvent, LastHeardTimeout, NoResponseTakeover,
             NoResponseForget, TakeoverExpiry, LoseAssociation
    <3>3. ASSUME NEW r \in Registrar, NEW e \in PoolElement,
                 PoolElementTimeout(r, e) \/ HandleASAPEndpointKeepAliveAck(r, e)
          PROVE  UNCHANGED running
      BY <3>3 DEF PoolElementTimeout, HandleASAPEndpointKeepAliveAck
    <3>4. QED
      BY Zenon, <3>1, <3>2, <3>3 DEF FailureStep
  <2>2. ASSUME NEW r \in Registrar, NEW s \in Registrar,
               NoResponseTakeover(r, s) \/ NoResponseForget(r, s)
        PROVE  s \notin running
    BY Zenon, <2>2, <1>OnlyFailedExpire DEF NoResponseTakeover, NoResponseForget
  <2>3. ASSUME NEW r \in Registrar, NEW s \in Registrar
        PROVE  ~HandleENRPPresence(r, s) /\ ~HandleMulticastPresence(r, s)
    <3>1. ~Received(r, s, "Presence")
      <4>1. ASSUME Received(r, s, "Presence") PROVE FALSE
        <5>1. /\ Head(net[s][r]) \in Message /\ Head(net[s][r]).type = "Presence"
              /\ InNet(Head(net[s][r]), s, r)
          BY <4>1, ReceivedMessage, HeadInNet DEF IInv
        <5>2. QED
          BY <5>1 DEF FailureInv, TakeoverType
      <4>2. QED
        BY <4>1
    <3>2. QED
      BY <3>1 DEF HandleENRPPresence, HandleMulticastPresence, FailureInv
  <2>4. ASSUME NEW r \in Registrar, NEW e \in PoolElement, NEW a \in Association
        PROVE  ~HandleASAPRegistration(r, e, a)
    BY <1>NoSpend DEF HandleASAPRegistration, EventKind
  <2>5. QED
    BY Zenon, <2>1, <2>2, <2>3, <2>4 DEF Orderly

<1>TakeoverSend.
  ASSUME NEW r \in Registrar, NEW out \in Output, NetInv, Send(r, out),
         \A d \in running : \A m \in Message :
           InSeq(m, out[d]) => m.type \in TakeoverType
  PROVE  TakeoverNet
  BY <1>TakeoverSend, SentMessages DEF TakeoverNet

<1>TakeoverReceive.
  ASSUME NEW r \in Registrar, NEW s \in Registrar, NEW type, NEW out \in Output,
         NetInv, Received(r, s, type), ReceiveAndSend(r, s, out),
         TakeoverOutput(out)
  PROVE  TakeoverNet
  BY <1>TakeoverReceive, ReceivedMessages DEF TakeoverNet, TakeoverOutput

<1>SilentTakeoverOutput.
 TakeoverOutput(Silence)
  BY Zenon, InSilence DEF TakeoverOutput

\* Messages that are lost.
<1>LessNet.
  ASSUME \A s, d \in Registrar : net'[s][d] = net[s][d] \/ net'[s][d] = <<>>
  PROVE  TakeoverNet
  <2> USE <1>LessNet
  <2>1. ASSUME NEW s \in Registrar, NEW d \in Registrar, NEW m, InNet(m, s, d)'
        PROVE  InNet(m, s, d)
    BY <2>1 DEF InNet, InSeq
  <2>2. QED
    BY <2>1 DEF TakeoverNet

\* The messages under way stay those of takeovers.
<1>FailureKept.
  ASSUME IInv, TakeoverInv, FailureInv, FailureStep
  PROVE  FailureInv'
  <2> USE <1>FailureKept
  <2> SUFFICES mcast' = {} /\ TakeoverNet
    BY DEF FailureInv, TakeoverNet
  <2>0. NetInv /\ running \subseteq Registrar
    BY Zenon DEF IInv, RestInv
  <2>1. ASSUME NEW r \in Registrar, Crash(r)
        PROVE  mcast' = {} /\ TakeoverNet
    <3>1. ASSUME NEW s \in Registrar, NEW d \in Registrar
          PROVE  net'[s][d] = net[s][d] \/ net'[s][d] = <<>>
      BY <2>1 DEF Crash, IInv, NetInv
    <3>2. QED
      BY Zenon, <2>1, <3>1, <1>LessNet DEF Crash, FailureInv
  <2>2. ASSUME NEW r \in Registrar, NEW s \in Registrar, LoseAssociation(r, s)
        PROVE  mcast' = {} /\ TakeoverNet
    <3>1. ASSUME NEW q \in Registrar, NEW d \in Registrar
          PROVE  net'[q][d] = net[q][d] \/ net'[q][d] = <<>>
      BY <2>2 DEF LoseAssociation, IInv, NetInv
    <3>2. QED
      BY <2>2, <3>1, <1>LessNet DEF LoseAssociation, FailureInv
  <2>3. ASSUME NEW r \in Registrar, NEW s \in Registrar, HandleENRPInitTakeover(r, s)
        PROVE  mcast' = {} /\ TakeoverNet
    <3> DEFINE t == Head(net[s][r]).target
               message == TakeoverMessage("InitTakeoverAck", t)
    <3>1. Received(r, s, "InitTakeover")
      BY Zenon, <2>3 DEF HandleENRPInitTakeover, InitTakeoverOfMe, AgreeToTakeover,
                  ContinueOwnTakeover
    <3>2. r \in running /\ t \in Registrar /\ t \notin running
      BY Zenon, <3>1, HandledMessage
    <3>3. mcast' = mcast
      BY Zenon, <2>3, <3>2 DEF HandleENRPInitTakeover, InitTakeoverOfMe, AgreeToTakeover,
                        ContinueOwnTakeover
    <3>4. message \in Message /\ message.type \in TakeoverType
      BY Zenon, <3>2, TakeoverIsMessage DEF TakeoverMessage, TakeoverType
    <3>5. \/ ReceiveAndSend(r, s, ToPeer(s, <<message>>))
          \/ ReceiveAndSend(r, s, Silence)
      BY Zenon, <2>3, <3>2 DEF HandleENRPInitTakeover, InitTakeoverOfMe, AgreeToTakeover,
                        ContinueOwnTakeover
    <3> HIDE DEF message
    <3>6. TakeoverOutput(ToPeer(s, <<message>>)) /\ ToPeer(s, <<message>>) \in Output
      BY <3>4, InToPeer, InOne, OneToPeerOutput DEF TakeoverOutput
    <3>7. TakeoverNet
      BY <2>0, <3>1, <3>5, <3>6, <1>TakeoverReceive, <1>SilentTakeoverOutput,
         SilenceOutput
    <3>8. QED
      BY Zenon, <3>3, <3>7 DEF FailureInv
  <2>4. ASSUME NEW r \in Registrar, NEW s \in Registrar,
               HandleENRPInitTakeoverAck(r, s)
        PROVE  mcast' = {} /\ TakeoverNet
    <3> DEFINE t == Head(net[s][r]).target
               message == TakeoverMessage("TakeoverServer", t)
               out == TakeoverServerToAllPeers(r, t)
    <3>1. Received(r, s, "InitTakeoverAck")
      BY Zenon, <2>4 DEF HandleENRPInitTakeoverAck, AwaitMoreAcks, FinishTakeover,
                  IgnoreAck
    <3>2. t \in Registrar
      BY Zenon, <3>1, HandledMessage
    <3>3. UNCHANGED mcast /\ (ReceiveAndSend(r, s, out) \/ ReceiveAndSend(r, s, Silence))
      BY Zenon, <2>4 DEF HandleENRPInitTakeoverAck, AwaitMoreAcks, FinishTakeover,
                  IgnoreAck
    <3>4. message \in Message /\ message.type \in TakeoverType
      BY Zenon, <3>2, TakeoverIsMessage DEF TakeoverMessage, TakeoverType
    <3>5. out = ToAll(r, message) \/ out = Silence
      BY DEF TakeoverServerToAllPeers
    <3> HIDE DEF message, out
    <3>6. TakeoverOutput(out) /\ out \in Output
      <4>1. TakeoverOutput(ToAll(r, message)) /\ ToAll(r, message) \in Output
        BY <3>4, InToAll, ToAllOutput DEF TakeoverOutput
      <4>2. QED
        BY <3>5, <4>1, <1>SilentTakeoverOutput, SilenceOutput
    <3>7. TakeoverNet
      BY Zenon, <2>0, <3>1, <3>3, <3>6, <1>TakeoverReceive, <1>SilentTakeoverOutput,
         SilenceOutput
    <3>8. QED
      BY Zenon, <3>3, <3>7 DEF FailureInv
  <2>5. ASSUME NEW r \in Registrar, NEW s \in Registrar,
               HandleENRPTakeoverServer(r, s)
        PROVE  mcast' = {} /\ TakeoverNet
    BY <2>0, <2>5, <1>TakeoverReceive, <1>SilentTakeoverOutput, SilenceOutput
       DEF HandleENRPTakeoverServer, FailureInv
  <2>6. ASSUME NEW r \in Registrar, NEW p \in Registrar, p \notin running,
               HandlePeerEvent(r, p)
        PROVE  mcast' = {} /\ TakeoverNet
    <3>1. mcast' = {}
      BY <2>6 DEF HandlePeerEvent, LastHeardTimeout, NoResponseTakeover,
                  NoResponseForget, TakeoverExpiry, FailureInv
    <3>2. CASE LastHeardTimeout(r, p)
      <4> DEFINE message == PresenceMessage(r, TRUE)
      <4>1. message \in Message
        BY Zenon, PresenceIsMessage
      <4>2. Send(r, ToPeer(p, <<message>>))
        BY <3>2 DEF LastHeardTimeout
      <4> HIDE DEF message
      <4>3. \A d \in running : \A m \in Message : ~InSeq(m, ToPeer(p, <<message>>)[d])
        BY <2>0, <2>6 DEF ToPeer, Silence, InSeq
      <4>4. ToPeer(p, <<message>>) \in Output
        BY Zenon, <4>1, OneToPeerOutput
      <4>5. QED
        BY <2>0, <3>1, <4>2, <4>3, <4>4, <1>TakeoverSend
    <3>3. CASE NoResponseTakeover(r, p)
      <4> DEFINE message == TakeoverMessage("InitTakeover", p)
      <4>1. message \in Message /\ message.type \in TakeoverType
        BY TakeoverIsMessage DEF TakeoverMessage, TakeoverType
      <4>2. Send(r, ToAll(r, message))
        BY <3>3 DEF NoResponseTakeover, StartTakeover
      <4> HIDE DEF message
      <4>3. ToAll(r, message) \in Output
        BY <4>1, ToAllOutput
      <4>4. \A d \in running : \A m \in Message :
              InSeq(m, ToAll(r, message)[d]) => m.type \in TakeoverType
        BY Zenon, <2>0, <4>1, InToAll
      <4>5. QED
        BY Zenon, <2>0, <3>1, <4>2, <4>3, <4>4, <1>TakeoverSend
    <3>4. CASE NoResponseForget(r, p) \/ TakeoverExpiry(r, p)
      BY <3>1, <3>4, <1>LessNet DEF NoResponseForget, TakeoverExpiry
    <3>5. QED
      BY <2>6, <3>2, <3>3, <3>4 DEF HandlePeerEvent
  <2>7. ASSUME NEW r \in Registrar, NEW e \in PoolElement, Orphaned(e),
               PoolElementTimeout(r, e)
        PROVE  mcast' = {} /\ TakeoverNet
    <3>1. Send(r, Silence) /\ UNCHANGED mcast
      BY Zenon, <2>7 DEF PoolElementTimeout, RemovalUpdate, Orphaned
    <3>2. \A d \in running : \A m \in Message :
            InSeq(m, Silence[d]) => m.type \in TakeoverType
      BY <2>0, InSilence
    <3>3. QED
      BY Zenon, <2>0, <3>1, <3>2, SilenceOutput, <1>TakeoverSend DEF FailureInv
  <2>8. ASSUME NEW r \in Registrar, NEW e \in PoolElement,
               HandleASAPEndpointKeepAliveAck(r, e)
        PROVE  mcast' = {} /\ TakeoverNet
    BY Zenon, <2>8, <1>LessNet DEF HandleASAPEndpointKeepAliveAck, FailureInv
  <2>9. QED
    BY ZenonT(40), <2>1, <2>2, <2>3, <2>4, <2>5, <2>6, <2>7, <2>8 DEF FailureStep

\* At the start nothing is under way.
<1>InitFailure.
 Init => FailureInv
  BY Zenon, InSilence DEF Init, FailureInv, InNet
<1>1. Init => FailuresInv
  BY InitInv, InitTakeoverInv, <1>InitFailure DEF FailuresInv
<1>2. FailuresInv /\ [Next]_vars => FailuresInv' /\ [FailureStep]_vars
  <2> SUFFICES ASSUME FailuresInv, [Next]_vars
               PROVE  FailuresInv' /\ [FailureStep]_vars
    OBVIOUS
  <2>0. IInv /\ TakeoverInv /\ FailureInv
    BY DEF FailuresInv
  <2>1. IInv'
    BY <2>0, NextInv
  <2>2. CASE UNCHANGED vars
    <3>1. TakeoverInv'
      BY ZenonT(40), <2>0, <2>1, <2>2, StutterTakeover
    <3>2. FailureInv'
      BY <2>0, <2>2 DEF FailureInv, InNet, vars
    <3>3. QED
      BY <2>1, <2>2, <3>1, <3>2 DEF FailuresInv
  <2>3. CASE Next
    <3>1. FailureStep
      BY <2>0, <2>3, <1>NextFailure
    <3>2. FailureInv'
      BY <2>0, <3>1, <1>FailureKept
    <3>3. TakeoverInv'
      BY <2>0, <2>1, <2>3, <3>1, <1>FailureOrderly, NextTakeover
    <3>4. QED
      BY <2>1, <3>1, <3>2, <3>3 DEF FailuresInv
  <2>4. QED
    BY <2>2, <2>3
<1>3. QED
  BY <1>1, <1>2, PTL DEF Spec

\* If there are only failures, no PE gets two homes, whichever registrars fail and
\* whatever is lost (registrarHandleENRPInitTakeover,
\* registrarHandleENRPInitTakeoverAck).
THEOREM OneOwnerFailures ==
  ASSUME OnlyFailures
  PROVE  Spec => []OneOwner
  <1>1. FailuresInv => OneOwner
    BY TakeoverOneOwner DEF FailuresInv
  <1>2. QED
    BY <1>1, FailuresInvariance, PTL

-----------------------------------------------------------------------------
(* Refinement *)

\* The owner of a PE is the registrar that considers itself to be its home.
OwnerFacts ==
  /\ UNDEFINED \notin running
  /\ \A e \in PoolElement :
       /\ \A r \in running : pes[r][e].home = r <=> Owner(e) = r
       /\ Owner(e) \in running \cup {UNDEFINED}

\* The takeover procedure implements Ownership if there are only failures: a PE
\* changes its home only after it has failed, to one registrar that is up, and all
\* PEs of the failed one that it knows together (registrarFinishTakeover).
THEOREM TakeoverImplementsOwnership ==
  ASSUME OnlyFailures
  PROVE  Spec => ImplementsOwnership

<1>OwnerIs.
 OneOwner /\ IInv => OwnerFacts
  <2> SUFFICES ASSUME OneOwner, IInv, NEW e \in PoolElement
               PROVE  /\ UNDEFINED \notin running
                      /\ \A r \in running : pes[r][e].home = r <=> Owner(e) = r
                      /\ Owner(e) \in running \cup {UNDEFINED}
    BY RegistrarAssumption DEF OwnerFacts, IInv, RestInv, UNDEFINED
  <2>0. UNDEFINED \notin running
    BY Zenon, RegistrarAssumption DEF IInv, RestInv, UNDEFINED
  <2>1. CASE \E r \in running : pes[r][e].home = r
    <3> DEFINE h == CHOOSE r \in running : pes[r][e].home = r
    <3>1. h \in running /\ pes[h][e].home = h
      BY ZenonT(40), <2>1
    <3>2. Owner(e) = h
      BY Zenon, <2>1 DEF Owner
    <3> HIDE DEF h
    <3>3. QED
      BY ZenonT(40), <2>0, <3>1, <3>2 DEF OneOwner
  <2>2. CASE ~\E r \in running : pes[r][e].home = r
    <3>1. Owner(e) = UNDEFINED
      BY Zenon, <2>2 DEF Owner
    <3>2. QED
      BY Zenon, <2>0, <2>2, <3>1
  <2>3. QED
    BY Zenon, <2>1, <2>2

\* A step of the registrars that changes no owner is a stuttering step.
<1>OwnersKept.
  ASSUME OwnerFacts, OwnerFacts', UNCHANGED running,
         \A r \in running, e \in PoolElement :
           pes'[r][e].home = r <=> pes[r][e].home = r
  PROVE  UNCHANGED <<running, [e \in PoolElement |-> Owner(e)]>>
  <2> USE <1>OwnersKept
  <2>1. ASSUME NEW e \in PoolElement PROVE Owner(e)' = Owner(e)
    BY DEF OwnerFacts
  <2>2. QED
    BY Zenon, <2>1

\* The failure of a registrar leaves its PEs without an owner.
<1>CrashOwners.
  ASSUME NEW r \in Registrar, Crash(r), IInv, OwnerFacts, OwnerFacts'
  PROVE  Abstract!Fail(r)
  <2> USE <1>CrashOwners
  <2>1. r \in running /\ running' = running \ {r}
    BY Zenon DEF Crash
  <2>2. ASSUME NEW q \in running', NEW e \in PoolElement
        PROVE  pes'[q][e] = pes[q][e]
    BY Zenon DEF Crash, IInv, PEsInv, RestInv
  <2>3. ASSUME NEW e \in PoolElement
        PROVE  Owner(e)' = IF Owner(e) = r THEN UNDEFINED ELSE Owner(e)
    <3>1. ASSUME NEW q \in running' PROVE Owner(e)' = q <=> Owner(e) = q
      <4>1. q \in running /\ pes'[q][e] = pes[q][e]
        BY Zenon, <2>1, <2>2
      <4>2. QED
        BY ZenonT(40), <4>1 DEF OwnerFacts
    <3>2. /\ Owner(e) \in running \cup {UNDEFINED}
          /\ Owner(e)' \in running' \cup {UNDEFINED}
          /\ UNDEFINED \notin running
      BY Zenon DEF OwnerFacts
    <3>3. QED
      BY Zenon, <2>1, <3>1, <3>2
  <2>4. QED
    BY Zenon, <2>1, <2>3 DEF Abstract!Fail

\* The PEs of a registrar that is taken over have no owner until one of the others
\* becomes their owner.
<1>FinishOwners.
  ASSUME NEW r \in Registrar, NEW s \in Registrar, FinishTakeover(r, s),
         IInv, TakeoverInv, OwnerFacts, OwnerFacts'
  PROVE  Abstract!Adopt(r, OwnedBy(r, Head(net[s][r]).target))
  <2> USE <1>FinishOwners
  <2> DEFINE t == Head(net[s][r]).target
             S == OwnedBy(r, t)
             hs == TakenOverPEs(r, t)
  <2>0. Received(r, s, "InitTakeoverAck")
    BY Zenon DEF FinishTakeover
  <2>1. r \in running /\ t \in Registrar /\ t \notin running
    BY Zenon, <2>0, HandledMessage
  <2>2. /\ UNCHANGED running /\ peers[r][t].TakeoverProcess
        /\ pes' = [pes EXCEPT ![r] = hs]
    BY DEF FinishTakeover
  <2>3. ASSUME NEW e \in PoolElement
        PROVE  hs[e].home = IF e \in S THEN r ELSE pes[r][e].home
    <3>1. pes[r][e] \in PoolElementNode
      BY Zenon DEF IInv, PEsInv
    <3>2. [pes[r][e] EXCEPT !.home = r, !.TimerCode = "KEEPALIVE_TIMEOUT"].home = r
      BY <3>1 DEF PoolElementNode
    <3>3. e \in S <=> pes[r][e].home = t
      BY Zenon DEF OwnedBy
    <3>4. QED
      BY <3>2, <3>3 DEF TakenOverPEs
  <2> HIDE DEF hs
  <2>4. ASSUME NEW q \in running, NEW e \in PoolElement
        PROVE  pes'[q][e].home = IF q = r /\ e \in S THEN r ELSE pes[q][e].home
    BY Zenon, <2>2, <2>3 DEF IInv, PEsInv, RestInv
  <2>5. ASSUME NEW e \in S, NEW q \in running PROVE pes[q][e].home # q
    <3>1. PICK R \in [Registrar -> SUBSET Registrar] :
            TakeoverOrder(R) /\ Explained(R)
      BY Zenon DEF TakeoverInv, HistoryInv
    <3>2. q \in Registrar /\ e \in PoolElement /\ pes[r][e].home = t
      BY Zenon, <2>5 DEF OwnedBy, IInv, RestInv
    <3>3. R[q] = {} /\ R[t] = {}
      BY Zenon, <2>1, <2>2, <3>1, <3>2 DEF TakeoverOrder, Taken, Settled, SettledNode
    <3>4. ASSUME pes[q][e].home = q PROVE FALSE
      <4>1. Believed(e, q) /\ Believed(e, t)
        BY Zenon, <3>2, <3>4 DEF Believed
      <4>2. q = t
        BY Zenon, <2>1, <3>1, <3>2, <3>3, <4>1 DEF Explained
      <4>3. QED
        BY Zenon, <2>1, <4>2
    <3>5. QED
      BY <3>4
  <2> HIDE DEF S, t
  <2>6. ASSUME NEW e \in PoolElement
        PROVE  /\ e \in S => Owner(e) = UNDEFINED
               /\ Owner(e)' = IF e \in S THEN r ELSE Owner(e)
    <3>1. e \in S => Owner(e) = UNDEFINED
      BY Zenon, <2>5 DEF OwnerFacts
    <3>2. CASE e \in S
      <4>1. pes'[r][e].home = r /\ r \in running'
        BY Zenon, <2>1, <2>2, <2>4, <3>2
      <4>2. Owner(e)' = r
        BY Zenon, <4>1 DEF OwnerFacts
      <4>3. QED
        BY Zenon, <3>1, <3>2, <4>2
    <3>3. CASE e \notin S
      <4>1. ASSUME NEW q \in running PROVE Owner(e)' = q <=> Owner(e) = q
        <5>1. pes'[q][e].home = pes[q][e].home /\ q \in running'
          BY <2>2, <2>4, <3>3
        <5>2. QED
          BY ZenonT(40), <5>1 DEF OwnerFacts
      <4>2. /\ Owner(e) \in running \cup {UNDEFINED}
            /\ Owner(e)' \in running' \cup {UNDEFINED}
        BY Zenon DEF OwnerFacts
      <4>3. Owner(e)' = Owner(e)
        BY Zenon, <2>2, <4>1, <4>2
      <4>4. QED
        BY Zenon, <3>1, <3>3, <4>3
    <3>4. QED
      BY Zenon, <3>1, <3>2, <3>3
  <2>7. S \subseteq PoolElement
    BY DEF S, OwnedBy
  <2>8. Abstract!Adopt(r, S)
    BY Zenon, <2>1, <2>2, <2>6, <2>7 DEF Abstract!Adopt
  <2>9. QED
    BY Zenon, <2>8 DEF S, t

\* No other step changes an owner.
<1>OtherOwners.
  ASSUME FailureStep, IInv, TakeoverInv, OwnerFacts, OwnerFacts',
         \A r \in Registrar : ~Crash(r),
         \A r, s \in Registrar : ~FinishTakeover(r, s)
  PROVE  UNCHANGED <<running, [e \in PoolElement |-> Owner(e)]>>
  <2> USE <1>OtherOwners
  <2>0. running \subseteq Registrar /\ pes \in [Registrar -> [PoolElement -> PoolElementNode]]
    BY DEF IInv, RestInv, PEsInv
  <2> DEFINE Kept == /\ UNCHANGED running
                     /\ \A r \in running, e \in PoolElement :
                          pes'[r][e].home = r <=> pes[r][e].home = r
  <2>1. ASSUME NEW r \in Registrar, NEW s \in Registrar,
               \/ HandleENRPInitTakeover(r, s)
               \/ HandleENRPInitTakeoverAck(r, s)
               \/ HandlePeerEvent(r, s)
               \/ LoseAssociation(r, s)
        PROVE  Kept
    <3>1. UNCHANGED <<running, pes>>
      BY Zenon, <2>1
         DEF HandleENRPInitTakeover, InitTakeoverOfMe, AgreeToTakeover,
             ContinueOwnTakeover, HandleENRPInitTakeoverAck, AwaitMoreAcks,
             IgnoreAck, HandlePeerEvent, LastHeardTimeout, NoResponseTakeover,
             NoResponseForget, TakeoverExpiry, LoseAssociation
    <3>2. QED
      BY Zenon, <3>1
  <2>2. ASSUME NEW r \in Registrar, NEW s \in Registrar,
               HandleENRPTakeoverServer(r, s)
        PROVE  Kept
    <3> DEFINE m == Head(net[s][r])
               t == m.target
               hs == UpdateOwnership(pes[r], t, s)
    <3>1. Received(r, s, "TakeoverServer")
      BY Zenon, <2>2 DEF HandleENRPTakeoverServer
    <3>2. /\ r \in running /\ s # r /\ t \in Registrar /\ m \in Message
          /\ m.type = "TakeoverServer" /\ InNet(m, s, r)
      BY Zenon, <3>1, HandledMessage
    <3>3. t \notin running
      <4>1. PICK R \in [Registrar -> SUBSET Registrar] :
              TakeoverOrder(R) /\ Announced(R)
        BY Zenon DEF TakeoverInv, HistoryInv
      <4>2. R[t] # {}
        BY ZenonT(40), <3>2, <4>1 DEF Announced
      <4>3. QED
        BY Zenon, <3>2, <4>1, <4>2 DEF TakeoverOrder, Taken
    <3>4. UNCHANGED running /\ pes' = [pes EXCEPT ![r] = hs]
      BY Zenon, <2>2 DEF HandleENRPTakeoverServer
    <3>5. ASSUME NEW e \in PoolElement
          PROVE  hs[e].home = IF pes[r][e].home = t THEN s ELSE pes[r][e].home
      BY <2>0 DEF UpdateOwnership, PoolElementNode
    <3> HIDE DEF m, t, hs
    <3>6. ASSUME NEW q \in running, NEW e \in PoolElement
          PROVE  pes'[q][e].home = q <=> pes[q][e].home = q
      <4>1. CASE q = r
        <5>1. pes'[q][e].home = hs[e].home
          BY <2>0, <3>4, <4>1
        <5>2. QED
          BY ZenonT(40), <3>2, <3>3, <3>5, <4>1, <5>1
      <4>2. CASE q # r
        BY Zenon, <2>0, <3>4, <4>2
      <4>3. QED
        BY Zenon, <4>1, <4>2
    <3>7. QED
      BY <3>4, <3>6
  <2>3. ASSUME NEW r \in Registrar, NEW e \in PoolElement, Orphaned(e),
               PoolElementTimeout(r, e)
        PROVE  Kept
    <3>1. UNCHANGED running /\ RemovePEs(r, {e})
      BY Zenon, <2>3 DEF PoolElementTimeout
    <3>2. ASSUME NEW q \in running, NEW x \in PoolElement
          PROVE  pes'[q][x].home = q <=> pes[q][x].home = q
      <4>1. CASE q = r /\ x = e
        <5>1. pes'[q][x].home = UNDEFINED
          BY ZenonT(40), <2>0, <3>1, <4>1 DEF RemovePEs, NoPE
        <5>2. pes[q][x].home # q
          BY <2>3, <4>1 DEF Orphaned
        <5>3. QED
          BY ZenonT(40), <5>1, <5>2 DEF OwnerFacts
      <4>2. CASE ~(q = r /\ x = e)
        BY <2>0, <3>1, <4>2 DEF RemovePEs
      <4>3. QED
        BY Zenon, <4>1, <4>2
    <3>3. QED
      BY Zenon, <3>1, <3>2
  <2>4. ASSUME NEW r \in Registrar, NEW e \in PoolElement,
               HandleASAPEndpointKeepAliveAck(r, e)
        PROVE  Kept
    <3> DEFINE code == IF e \in Registered(r) THEN "KEEPALIVE_TRANSMISSION"
                                              ELSE pes[r][e].TimerCode
               node == [pes[r][e] EXCEPT !.TimerCode = code]
    <3>1. node.home = pes[r][e].home
      BY <2>0 DEF PoolElementNode
    <3>2. UNCHANGED running /\ pes' = [pes EXCEPT ![r][e] = node]
      BY Zenon, <2>0, <2>4 DEF HandleASAPEndpointKeepAliveAck
    <3> HIDE DEF node
    <3>3. QED
      BY <2>0, <3>1, <3>2
  <2>5. Kept
    BY ZenonT(40), <2>1, <2>2, <2>3, <2>4 DEF FailureStep
  <2>6. QED
    BY Zenon, <2>5, <1>OwnersKept
<1>1. Init /\ FailuresInv => Abstract!Init
  <2> SUFFICES ASSUME FailuresInv PROVE Abstract!Init
    OBVIOUS
  <2>1. OwnerFacts
    BY TakeoverOneOwner, <1>OwnerIs DEF FailuresInv
  <2>2. running \subseteq Registrar
    BY DEF FailuresInv, IInv, RestInv
  <2>3. QED
    BY <2>1, <2>2 DEF OwnerFacts, Abstract!Init
<1>2. FailuresInv => OneOwner /\ IInv
  BY TakeoverOneOwner DEF FailuresInv
<1>3. FailuresInv => OwnerFacts
  BY <1>2, <1>OwnerIs
<1>4. ASSUME FailuresInv, OwnerFacts, OwnerFacts', [FailureStep]_vars
      PROVE  [Abstract!Next]_<<running, [e \in PoolElement |-> Owner(e)]>>
  <2>0. IInv /\ TakeoverInv
    BY <1>4 DEF FailuresInv
  <2>1. ASSUME NEW r \in Registrar, Crash(r) PROVE Abstract!Next
    BY <1>4, <2>0, <2>1, <1>CrashOwners DEF Abstract!Next
  <2>2. ASSUME NEW r \in Registrar, NEW s \in Registrar, FinishTakeover(r, s)
        PROVE  Abstract!Next
    <3> DEFINE S == OwnedBy(r, Head(net[s][r]).target)
    <3>1. Abstract!Adopt(r, S)
      BY Zenon, <1>4, <2>0, <2>2, <1>FinishOwners
    <3>2. S \in SUBSET PoolElement
      BY DEF OwnedBy
    <3> HIDE DEF S
    <3>3. QED
      BY ZenonT(40), <3>1, <3>2 DEF Abstract!Next
  <2>3. CASE /\ FailureStep
             /\ \A r \in Registrar : ~Crash(r)
             /\ \A r, s \in Registrar : ~FinishTakeover(r, s)
    BY Zenon, <1>4, <2>0, <2>3, <1>OtherOwners
  <2>4. CASE UNCHANGED vars
    <3>1. UNCHANGED <<running, pes>>
      BY <2>4 DEF vars
    <3>2. QED
      BY <1>4, <3>1, <1>OwnersKept
  <2>5. QED
    BY <1>4, <2>1, <2>2, <2>3, <2>4
<1>5. QED
  BY <1>1, <1>3, <1>4, FailuresInvariance, PTL
     DEF Spec, ImplementsOwnership, Abstract!Spec

=============================================================================
