----------------------------- MODULE SyncProofs -----------------------------
(***************************************************************************)
(* The synchronizations of the handlespaces, proved for any number of      *)
(* registrars and PEs: between two registrars that are up, the requests    *)
(* and responses under way are counted.                                    *)
(***************************************************************************)
EXTENDS RegistrarProofs, FiniteSetTheorems

-----------------------------------------------------------------------------
(* Synchronizations.  Between two registrars that are up, the requests and  *)
(* responses under way are counted.                                         *)

\* The number of messages of a type in a sequence.
Count(q, type) == Cardinality({i \in DOMAIN q : q[i].type = type})

TableType == {"HandleTableRequest", "HandleTableResponse"}

\* The messages of r's synchronization with s that are under way.
Talk(r, s) ==
  Pending(r, s, "HandleTableRequest") + Pending(s, r, "HandleTableResponse")

\* r, which is up, knows its peer s, which is up, and does not take it over.  One
\* message is under way exactly while r has noted the synchronization.
PairOK(r, s) ==
  /\ peers[r][s].known
  /\ ~peers[r][s].TakeoverProcess
  /\ Talk(r, s) = IF "HTSYNC" \in peers[r][s].Status THEN 1 ELSE 0

SyncInv ==
  /\ \A r \in running : ~startup[r]
  /\ \A r \in running : "HTSYNC" \notin peers[r][r].Status
  /\ \A r, s \in running : r # s => PairOK(r, s)

-----------------------------------------------------------------------------
(* Counting *)

\* There are finitely many messages in a sequence.
LEMMA CountType ==
  ASSUME NEW q \in Seq(Message), NEW type
  PROVE  /\ IsFiniteSet({i \in DOMAIN q : q[i].type = type})
         /\ Count(q, type) \in Nat
  <1>1. DOMAIN q = 1 .. Len(q) /\ Len(q) \in Nat
    OBVIOUS
  <1>2. IsFiniteSet(DOMAIN q)
    BY <1>1, FS_Interval
  <1>3. IsFiniteSet({i \in DOMAIN q : q[i].type = type})
    BY <1>2, FS_Subset
  <1>4. QED
    BY <1>3, FS_CardinalityType DEF Count

\* No message of the type.
LEMMA CountNone ==
  ASSUME NEW q, NEW type, \A i \in DOMAIN q : q[i].type # type
  PROVE  Count(q, type) = 0
  <1>1. {i \in DOMAIN q : q[i].type = type} = {}
    OBVIOUS
  <1>2. QED
    BY <1>1, FS_EmptySet DEF Count

\* A single message.
LEMMA CountOne ==
  ASSUME NEW m, NEW type
  PROVE  Count(<<m>>, type) = IF m.type = type THEN 1 ELSE 0
  <1>1. DOMAIN <<m>> = {1} /\ <<m>>[1] = m
    OBVIOUS
  <1>2. CASE m.type = type
    <2>1. {i \in DOMAIN <<m>> : <<m>>[i].type = type} = {1}
      BY <1>1, <1>2
    <2>2. QED
      BY Zenon, <1>2, <2>1, FS_Singleton DEF Count
  <1>3. CASE m.type # type
    BY <1>1, <1>3, CountNone
  <1>4. QED
    BY <1>2, <1>3

\* Two sequences, one after the other.
LEMMA CountConcat ==
  ASSUME NEW p \in Seq(Message), NEW q \in Seq(Message), NEW type
  PROVE  Count(p \o q, type) = Count(p, type) + Count(q, type)
  <1> DEFINE A == {i \in DOMAIN p : p[i].type = type}
             B == {i \in DOMAIN q : q[i].type = type}
             C == {i \in DOMAIN (p \o q) : (p \o q)[i].type = type}
             n == Len(p)
             D == {i \in C : i > n}
             f == [i \in B |-> i + n]
  <1>1. /\ n \in Nat /\ Len(q) \in Nat
        /\ DOMAIN p = 1 .. n /\ DOMAIN q = 1 .. Len(q)
        /\ DOMAIN (p \o q) = 1 .. (n + Len(q))
    OBVIOUS
  <1>2. /\ \A i \in 1 .. n : (p \o q)[i] = p[i]
        /\ \A i \in 1 .. Len(q) : (p \o q)[i + n] = q[i]
    OBVIOUS
  <1>3. IsFiniteSet(A) /\ IsFiniteSet(B)
    BY Zenon, CountType
  <1> HIDE DEF n
  <1>4. C = A \cup D /\ A \cap D = {}
    BY <1>1, <1>2
  <1>5. \A i \in B : i + n \in D
    BY <1>1, <1>2
  <1>6. \A j \in D : j - n \in B /\ (j - n) + n = j
    <2> SUFFICES ASSUME NEW j \in D PROVE j - n \in B /\ (j - n) + n = j
      OBVIOUS
    <2>1. j - n \in 1 .. Len(q) /\ (j - n) + n = j
      BY <1>1
    <2>2. q[j - n] = (p \o q)[j]
      BY <1>2, <2>1
    <2>3. QED
      BY Zenon, <1>1, <2>1, <2>2
  <1>7. B \subseteq Int
    BY <1>1
  <1> HIDE DEF A, B, C, D
  <1>8. f \in Bijection(B, D)
    <2>1. f \in [B -> D]
      BY <1>5
    <2>2. \A i, j \in B : f[i] = f[j] => i = j
      BY <1>1, <1>7
    <2>3. \A j \in D : \E i \in B : f[i] = j
      BY <1>6
    <2>4. QED
      BY Zenon, <2>1, <2>2, <2>3 DEF Bijection, Injection, Surjection, IsInjective
  <1>9. IsFiniteSet(D) /\ Cardinality(D) = Cardinality(B)
    BY <1>3, <1>8, FS_Bijection DEF ExistsBijection
  <1>10. Cardinality(C) = Cardinality(A) + Cardinality(D) - Cardinality({})
    BY <1>3, <1>4, <1>9, FS_Union
  <1>11. Cardinality(A) \in Nat /\ Cardinality(B) \in Nat
    BY <1>3, FS_CardinalityType
  <1>12. Cardinality(C) = Cardinality(A) + Cardinality(B)
    BY <1>9, <1>10, <1>11, FS_EmptySet
  <1>13. QED
    BY Zenon, <1>12 DEF Count, A, B, C

-----------------------------------------------------------------------------
(* Counting what is under way *)

\* What r sends is added to what is under way.
LEMMA PendingSent ==
  ASSUME NEW r \in Registrar, NEW out \in Output, NetInv, RestInv,
         Send(r, out), NEW a \in running, NEW b \in running, NEW type
  PROVE  Pending(a, b, type)'
           = Pending(a, b, type) + (IF a = r THEN Count(out[b], type) ELSE 0)
  <1>1. a \in Registrar /\ b \in Registrar
    BY DEF RestInv
  <1>2. /\ net[a][b] \in Seq(Message) /\ net \in [Registrar -> Output]
        /\ out[b] \in Seq(Message)
    BY <1>1 DEF NetInv, Output
  <1>3. net'[a][b] = IF a = r THEN net[a][b] \o out[b] ELSE net[a][b]
    BY <1>1, <1>2 DEF Send, Output
  <1>4. Count(net[a][b], type) \in Nat
    BY Zenon, <1>2, CountType
  <1>5. Count(net'[a][b], type)
          = Count(net[a][b], type) + (IF a = r THEN Count(out[b], type) ELSE 0)
    <2>1. CASE a = r
      BY <1>2, <1>3, <2>1, CountConcat
    <2>2. CASE a # r
      BY <1>3, <1>4, <2>2
    <2>3. QED
      BY <2>1, <2>2
  <1>6. QED
    BY <1>5 DEF Pending, Count

\* The numbers are numbers.
LEMMA PendingType ==
  ASSUME NEW a \in running, NEW b \in running, NEW type, NetInv, RestInv
  PROVE  Pending(a, b, type) \in Nat
  <1>1. net[a][b] \in Seq(Message)
    BY DEF NetInv, RestInv
  <1>2. QED
    BY Zenon, <1>1, CountType DEF Pending, Count

-----------------------------------------------------------------------------
(* Steps that do not belong to a synchronization *)

\* Messages none of which belongs to a synchronization.
Mute(q) == \A type \in TableType : Count(q, type) = 0

MuteOutput(out) == out \in Output /\ \A d \in Registrar : Mute(out[d])

\* No synchronization gets or loses a message.
TalkKept == \A a, b \in running : a # b => Talk(a, b)' = Talk(a, b)

\* A peer that is known and not taken over stays so, with the same note about a
\* synchronization; no other entry gets such a note.
EntryKept(node, new) ==
  /\ node.known /\ ~node.TakeoverProcess =>
       /\ new.known
       /\ ~new.TakeoverProcess
       /\ "HTSYNC" \in new.Status <=> "HTSYNC" \in node.Status
  /\ "HTSYNC" \in new.Status => "HTSYNC" \in node.Status

PeersKept == \A a, b \in running' : EntryKept(peers[a][b], peers'[a][b])

\* An empty sequence.
LEMMA MuteEmpty ==
 Mute(<<>>)
  BY CountNone DEF Mute

\* A message that does not belong to a synchronization.
LEMMA MuteOne ==
  ASSUME NEW m, m.type \notin TableType
  PROVE  Mute(<<m>>)
  BY CountOne DEF Mute

\* Sending nothing.
LEMMA MuteSilence ==
 MuteOutput(Silence)
  BY Zenon, SilenceOutput, MuteEmpty DEF MuteOutput, Silence

\* Sending such messages to one registrar.
LEMMA MuteToPeer ==
  ASSUME NEW d \in Registrar, NEW q \in Seq(Message), Mute(q)
  PROVE  MuteOutput(ToPeer(d, q))
  <1>1. \A x \in Registrar : ToPeer(d, q)[x] = IF x = d THEN q ELSE <<>>
    BY DEF ToPeer, Silence
  <1>2. QED
    BY Zenon, <1>1, MuteEmpty, ToPeerOutput DEF MuteOutput

\* Sending such a message to all peers.
LEMMA MuteToAll ==
  ASSUME NEW r, NEW m \in Message, m.type \notin TableType
  PROVE  MuteOutput(ToAll(r, m))
  <1>1. \A x \in Registrar : ToAll(r, m)[x] = <<m>> \/ ToAll(r, m)[x] = <<>>
    BY DEF ToAll
  <1>2. QED
    BY Zenon, <1>1, MuteEmpty, MuteOne, ToAllOutput DEF MuteOutput

\* r sends such messages.
LEMMA MuteSend ==
  ASSUME NEW r \in Registrar, NEW out, MuteOutput(out), NetInv, RestInv,
         Send(r, out)
  PROVE  TalkKept
  <1>1. ASSUME NEW a \in running, NEW b \in running, NEW type \in TableType
        PROVE  Pending(a, b, type)' = Pending(a, b, type)
    <2>1. out \in Output /\ Count(out[b], type) = 0
      BY DEF MuteOutput, Mute, RestInv
    <2>2. Pending(a, b, type)'
            = Pending(a, b, type) + (IF a = r THEN Count(out[b], type) ELSE 0)
      BY <2>1, PendingSent
    <2>3. Pending(a, b, type) \in Nat
      BY PendingType
    <2>4. QED
      BY <2>1, <2>2, <2>3
  <1>2. QED
    BY <1>1 DEF TalkKept, Talk, TableType

\* An entry that does not change is kept.
LEMMA SameEntries ==
 UNCHANGED peers => PeersKept
  BY DEF PeersKept, EntryKept

\* Only one entry changes.
LEMMA OneEntryKept ==
  ASSUME NEW r \in Registrar, NEW p \in Registrar, NEW node, PeersInv, RestInv,
         UNCHANGED running, peers' = [peers EXCEPT ![r][p] = node],
         p \in running => EntryKept(peers[r][p], node)
  PROVE  PeersKept
  <1> SUFFICES ASSUME NEW a \in running, NEW b \in running
               PROVE  EntryKept(peers[a][b], peers'[a][b])
    BY DEF PeersKept
  <1>1. a \in Registrar /\ b \in Registrar
    BY DEF RestInv
  <1>2. CASE a = r /\ b = p
    <2>1. peers'[a][b] = node
      BY ZenonT(40), <1>1, <1>2 DEF PeersInv
    <2>2. QED
      BY Zenon, <1>2, <2>1
  <1>3. CASE ~(a = r /\ b = p)
    <2>1. peers'[a][b] = peers[a][b]
      BY Zenon, <1>1, <1>3 DEF PeersInv
    <2>2. QED
      BY <2>1 DEF EntryKept
  <1>4. QED
    BY Zenon, <1>2, <1>3

\* A step that does not belong to a synchronization.
LEMMA MuteStep ==
  ASSUME SyncInv, RestInv, running' \subseteq running, PeersKept, TalkKept,
         \A r \in running' : startup'[r] => startup[r]
  PROVE  SyncInv'
  <1>1. \A r \in running' : ~startup'[r]
    BY DEF SyncInv
  <1>2. \A r \in running' : "HTSYNC" \notin peers'[r][r].Status
    BY Zenon DEF SyncInv, PeersKept, EntryKept
  <1>3. ASSUME NEW r \in running', NEW s \in running', r # s
        PROVE  PairOK(r, s)'
    <2>1. PairOK(r, s) /\ EntryKept(peers[r][s], peers'[r][s])
      BY <1>3 DEF SyncInv, PeersKept
    <2>2. Talk(r, s)' = Talk(r, s)
      BY Zenon, <1>3 DEF TalkKept
    <2>3. QED
      BY Zenon, <2>1, <2>2 DEF PairOK, EntryKept
  <1>4. QED
    BY Zenon, <1>1, <1>2, <1>3 DEF SyncInv

-----------------------------------------------------------------------------
(* The steps *)

\* Registrars may fail, but none is started; associations between registrars that
\* are up do not fail, and no such registrar is slow to answer.
Steady ==
  \A k \in {"start", "loss", "suspect"} :
    k \notin Recurring /\ \A limit \in Bound : limit[k] = 0

-----------------------------------------------------------------------------
(* The invariant is inductive *)

\* Every message handler preserves the invariant.
LEMMA MessageSync ==
  \A r \in Registrar, s \in Registrar :
      /\ IInv
      /\ SyncInv
      /\ HandleMessage(r, s)
      =>
         SyncInv'

\* Taking the first message.
<1>CountTail.
  ASSUME NEW q \in Seq(Message), NEW type, q # <<>>
  PROVE  Count(Tail(q), type)
           = Count(q, type) - (IF Head(q).type = type THEN 1 ELSE 0)
  <2> USE <1>CountTail
  <2> DEFINE h == Head(q)
             first == <<h>>
             rest == Tail(q)
  <2>1. first \in Seq(Message) /\ rest \in Seq(Message)
    OBVIOUS
  <2>2. q = first \o rest
    OBVIOUS
  <2>3. Count(first, type) = IF h.type = type THEN 1 ELSE 0
    BY Zenon, CountOne
  <2> HIDE DEF h, first, rest
  <2>4. Count(first \o rest, type) = Count(first, type) + Count(rest, type)
    BY ZenonT(40), <2>1, CountConcat
  <2>5. Count(q, type) = Count(first, type) + Count(rest, type)
    BY Zenon, <2>2, <2>4
  <2>6. Count(rest, type) \in Nat
    BY Zenon, <2>1, CountType
  <2>7. Count(rest, type) = Count(q, type) - (IF h.type = type THEN 1 ELSE 0)
    BY <2>3, <2>5, <2>6
  <2>8. QED
    BY Zenon, <2>7 DEF h, rest

\* What r takes from s is no longer under way, what it sends is.
<1>PendingReceived.
  ASSUME NEW r \in Registrar, NEW s \in Registrar, NEW taken,
         NEW out \in Output, NetInv, RestInv, Received(r, s, taken),
         ReceiveAndSend(r, s, out),
         NEW a \in running, NEW b \in running, NEW type
  PROVE  Pending(a, b, type)'
           = Pending(a, b, type) + (IF a = r THEN Count(out[b], type) ELSE 0)
               - (IF a = s /\ b = r /\ taken = type THEN 1 ELSE 0)
  <2> USE <1>PendingReceived
  <2>1. a \in Registrar /\ b \in Registrar /\ s # r
    BY Zenon DEF RestInv, Received
  <2>2. /\ net[a][b] \in Seq(Message) /\ net \in [Registrar -> Output]
        /\ net[s][r] \in Seq(Message) /\ net[s][r] # <<>>
        /\ Head(net[s][r]).type = taken
        /\ out[b] \in Seq(Message)
    BY Zenon, <2>1 DEF NetInv, Output, Received
  <2>3. /\ a = r => net'[a][b] = net[a][b] \o out[b]
        /\ a = s /\ b = r => net'[a][b] = Tail(net[a][b])
        /\ a # r /\ ~(a = s /\ b = r) => net'[a][b] = net[a][b]
    BY Zenon, <2>1, <2>2 DEF ReceiveAndSend, Output
  <2>4. Count(net[a][b], type) \in Nat /\ Count(out[b], type) \in Nat
    BY Zenon, <2>2, CountType
  <2>5. Count(net'[a][b], type)
          = Count(net[a][b], type) + (IF a = r THEN Count(out[b], type) ELSE 0)
              - (IF a = s /\ b = r /\ taken = type THEN 1 ELSE 0)
    <3>1. CASE a = r
      <4>1. Count(net[a][b] \o out[b], type)
              = Count(net[a][b], type) + Count(out[b], type)
        BY ZenonT(40), <2>2, CountConcat
      <4>2. net'[a][b] = net[a][b] \o out[b] /\ a # s
        BY Zenon, <2>1, <2>3, <3>1
      <4>3. Count(net'[a][b], type) = Count(net[a][b], type) + Count(out[b], type)
        BY <4>1, <4>2
      <4>4. QED
        BY <2>4, <3>1, <4>2, <4>3
    <3>2. CASE a = s /\ b = r
      <4>1. Count(net'[a][b], type)
              = Count(net[a][b], type) - (IF taken = type THEN 1 ELSE 0)
        BY <2>2, <2>3, <3>2, <1>CountTail
      <4>2. QED
        BY <2>1, <2>4, <3>2, <4>1
    <3>3. CASE a # r /\ ~(a = s /\ b = r)
      BY <2>3, <2>4, <3>3
    <3>4. QED
      BY <3>1, <3>2, <3>3
  <2>6. QED
    BY Zenon, <2>5 DEF Pending, Count

\* r takes a message from s and sends messages to s, and no table message to
\* another registrar: what this does to the synchronizations.
<1>TalkReceived.
  ASSUME NEW r \in Registrar, NEW s \in Registrar, NEW taken,
         NEW out \in Output, NetInv, RestInv, Received(r, s, taken),
         ReceiveAndSend(r, s, out),
         \A d \in Registrar \ {s} : \A type \in TableType : Count(out[d], type) = 0,
         NEW a \in running, NEW b \in running, a # b
  PROVE  /\ a = r /\ b = s =>
              Talk(a, b)' = Talk(a, b) + Count(out[s], "HandleTableRequest")
                - (IF taken = "HandleTableResponse" THEN 1 ELSE 0)
         /\ a = s /\ b = r =>
              Talk(a, b)' = Talk(a, b) + Count(out[s], "HandleTableResponse")
                - (IF taken = "HandleTableRequest" THEN 1 ELSE 0)
         /\ ~(a = r /\ b = s) /\ ~(a = s /\ b = r) => Talk(a, b)' = Talk(a, b)
  <2> USE <1>TalkReceived
  <2> DEFINE P == Pending(a, b, "HandleTableRequest")
             Q == Pending(b, a, "HandleTableResponse")
  <2>1. P \in Nat /\ Q \in Nat
    BY Zenon, PendingType
  <2>2. a \in Registrar /\ b \in Registrar /\ r # s
    BY DEF RestInv, Received
  <2>3. \A type \in TableType :
          /\ a # s => Count(out[a], type) = 0
          /\ b # s => Count(out[b], type) = 0
          /\ Count(out[s], type) \in Nat
    <3>1. out[s] \in Seq(Message)
      BY DEF Output
    <3>2. QED
      BY Zenon, <2>2, <3>1, CountType
  <2>4. P' = P + (IF a = r THEN Count(out[b], "HandleTableRequest") ELSE 0)
             - (IF a = s /\ b = r /\ taken = "HandleTableRequest" THEN 1 ELSE 0)
    BY <1>PendingReceived
  <2>5. Q' = Q + (IF b = r THEN Count(out[a], "HandleTableResponse") ELSE 0)
             - (IF b = s /\ a = r /\ taken = "HandleTableResponse" THEN 1 ELSE 0)
    BY <1>PendingReceived
  <2>6. Talk(a, b) = P + Q /\ Talk(a, b)' = P' + Q'
    BY Zenon DEF Talk
  <2> HIDE DEF P, Q
  <2>7. CASE a = r /\ b = s
    BY <2>1, <2>2, <2>3, <2>4, <2>5, <2>6, <2>7 DEF TableType
  <2>8. CASE a = s /\ b = r
    BY <2>1, <2>2, <2>3, <2>4, <2>5, <2>6, <2>8 DEF TableType
  <2>9. CASE ~(a = r /\ b = s) /\ ~(a = s /\ b = r)
    <3>1. a = r => b # s
      BY Zenon, <2>9
    <3>2. b = r => a # s
      BY Zenon, <2>9
    <3>3. P' = P
      BY <2>1, <2>3, <2>4, <3>1, <3>2 DEF TableType
    <3>4. Q' = Q
      BY <2>1, <2>3, <2>5, <3>1, <3>2 DEF TableType
    <3>5. QED
      BY Zenon, <2>2, <2>6, <2>9, <3>3, <3>4
  <2>10. QED
    BY Zenon, <2>7, <2>8, <2>9

\* r takes such a message and sends such messages.
<1>MuteReceive.
  ASSUME NEW r \in Registrar, NEW s \in Registrar, NEW taken, NEW out,
         MuteOutput(out), NetInv, RestInv, Received(r, s, taken),
         taken \notin TableType, ReceiveAndSend(r, s, out)
  PROVE  TalkKept
  <2> USE <1>MuteReceive
  <2>1. ASSUME NEW a \in running, NEW b \in running, NEW type \in TableType
        PROVE  Pending(a, b, type)' = Pending(a, b, type)
    <3>1. out \in Output /\ Count(out[b], type) = 0
      BY DEF MuteOutput, Mute, RestInv
    <3>2. Pending(a, b, type)'
            = Pending(a, b, type) + (IF a = r THEN Count(out[b], type) ELSE 0)
                - (IF a = s /\ b = r /\ taken = type THEN 1 ELSE 0)
      BY <3>1, <1>PendingReceived
    <3>3. Pending(a, b, type) \in Nat
      BY PendingType
    <3>4. QED
      BY <3>1, <3>2, <3>3
  <2>2. QED
    BY Zenon, <2>1 DEF TalkKept, Talk, TableType

\* What every handler of a message that does not belong to a synchronization does.
<1>MuteHandler.
  ASSUME NEW r \in Registrar, NEW s \in Registrar, NEW taken, NEW out,
         IInv, SyncInv, Received(r, s, taken), taken \notin TableType,
         MuteOutput(out), ReceiveAndSend(r, s, out),
         UNCHANGED <<running, startup>>, PeersKept
  PROVE  SyncInv'
  <2> USE <1>MuteHandler
  <2>1. TalkKept
    BY Zenon, <1>MuteReceive DEF IInv
  <2>2. QED
    BY Zenon, <2>1, MuteStep DEF IInv

\* registrarHandleENRPHandleUpdate, registrarHandleENRPTakeoverServer
<1>UpdateMessagesSync.
  ASSUME NEW r \in Registrar, NEW s \in Registrar, IInv, SyncInv,
         HandleENRPHandleUpdate(r, s) \/ HandleENRPTakeoverServer(r, s)
  PROVE  SyncInv'
  <2> USE <1>UpdateMessagesSync
  <2>1. PICK taken \in {"HandleUpdate", "TakeoverServer"} :
          /\ Received(r, s, taken)
          /\ ReceiveAndSend(r, s, Silence)
          /\ UNCHANGED <<running, startup, peers>>
    BY Zenon DEF HandleENRPHandleUpdate, AddPE, DelPE, HandleENRPTakeoverServer
  <2>2. taken \notin TableType
    BY DEF TableType
  <2>3. QED
    BY ZenonT(40), <2>1, <2>2, MuteSilence, SameEntries, <1>MuteHandler

\* registrarHandleENRPListRequest
<1>ListRequestSync.
  ASSUME NEW r \in Registrar, NEW s \in Registrar, IInv, SyncInv,
         HandleENRPListRequest(r, s)
  PROVE  SyncInv'
  <2> USE <1>ListRequestSync
  <2> DEFINE m == [type |-> "ListResponse", list |-> Peers(r)]
  <2>1. m \in Message /\ m.type \notin TableType
    BY DEF Message, Peers, TableType
  <2>2. /\ Received(r, s, "ListRequest")
        /\ ReceiveAndSend(r, s, ToPeer(s, <<m>>))
        /\ UNCHANGED <<running, startup, peers>>
    BY DEF HandleENRPListRequest
  <2> HIDE DEF m
  <2>3. MuteOutput(ToPeer(s, <<m>>))
    BY Zenon, <2>1, OneMessage, MuteOne, MuteToPeer
  <2>4. "ListRequest" \notin TableType
    BY DEF TableType
  <2>5. QED
    BY ZenonT(40), <2>2, <2>3, <2>4, SameEntries, <1>MuteHandler

\* registrarHandleENRPListResponse: the entries of known peers are kept.
<1>ListResponseSync.
  ASSUME NEW r \in Registrar, NEW s \in Registrar, IInv, SyncInv,
         HandleENRPListResponse(r, s)
  PROVE  SyncInv'
  <2> USE <1>ListResponseSync
  <2> DEFINE new == NewEntries(r, Head(net[s][r]).list)
             entries == [p \in Registrar |->
               IF p \in new
                 THEN [RegisterPeer(peers[r][p]) EXCEPT !.TimerCode = "LAST_HEARD"]
                 ELSE peers[r][p]]
             m == PresenceMessage(r, FALSE)
             out == [p \in Registrar |-> IF p \in new THEN <<m>> ELSE <<>>]
  <2>1. /\ Received(r, s, "ListResponse")
        /\ ReceiveAndSend(r, s, out)
        /\ peers' = [peers EXCEPT ![r] = entries]
        /\ UNCHANGED <<running, startup>>
    BY DEF HandleENRPListResponse
  <2>2. m \in Message /\ m.type \notin TableType
    BY Zenon, PresenceIsMessage DEF PresenceMessage, TableType
  <2>3. peers \in [Registrar -> [Registrar -> PeerListNode]]
        /\ running \subseteq Registrar
    BY DEF IInv, PeersInv, RestInv
  <2> HIDE DEF m, new
  <2>4. MuteOutput(out)
    <3>1. <<m>> \in Seq(Message) /\ <<>> \in Seq(Message)
      BY <2>2
    <3>2. QED
      BY <2>2, <3>1, MuteEmpty, MuteOne DEF MuteOutput, Output
  <2>5. ASSUME NEW p \in Registrar
        PROVE  EntryKept(peers[r][p], entries[p])
    <3> DEFINE node == RegisterPeer(peers[r][p])
               later == [node EXCEPT !.TimerCode = "LAST_HEARD"]
    <3>1. node \in PeerListNode
      <4>1. NewPeer \in PeerListNode
        BY Zenon DEF NewPeer, NoPeer, PeerListNode, PeerTimer, PeerStatus
      <4>2. QED
        BY <2>3, <4>1 DEF RegisterPeer
    <3>2. /\ later.known = node.known /\ later.Status = node.Status
          /\ later.TakeoverProcess = node.TakeoverProcess
      BY <3>1 DEF PeerListNode
    <3>3. /\ peers[r][p].known => node = peers[r][p]
          /\ ~peers[r][p].known => node.Status = {}
      BY DEF RegisterPeer, NewPeer, NoPeer
    <3>4. entries[p] = IF p \in new THEN later ELSE peers[r][p]
      OBVIOUS
    <3> HIDE DEF node, later
    <3>5. QED
      BY Zenon, <3>2, <3>3, <3>4 DEF EntryKept
  <2> HIDE DEF entries
  <2>6. PeersKept
    <3> SUFFICES ASSUME NEW a \in running, NEW b \in running
                 PROVE  EntryKept(peers[a][b], peers'[a][b])
      BY Zenon, <2>1 DEF PeersKept
    <3>1. CASE a = r
      BY ZenonT(40), <2>1, <2>3, <2>5, <3>1
    <3>2. CASE a # r
      BY Zenon, <2>1, <2>3, <3>2 DEF EntryKept
    <3>3. QED
      BY <3>1, <3>2
  <2>7. "ListResponse" \notin TableType
    BY DEF TableType
  <2> HIDE DEF out
  <2>8. QED
    BY <2>1, <2>4, <2>6, <2>7, <1>MuteHandler

\* registrarHandleENRPInitTakeover
<1>InitTakeoverSync.
  ASSUME NEW r \in Registrar, NEW s \in Registrar, IInv, SyncInv,
         HandleENRPInitTakeover(r, s)
  PROVE  SyncInv'
  <2> USE <1>InitTakeoverSync
  <2>0. /\ Received(r, s, "InitTakeover") /\ "InitTakeover" \notin TableType
        /\ UNCHANGED <<running, startup>>
    BY Zenon DEF HandleENRPInitTakeover, InitTakeoverOfMe, AgreeToTakeover,
           ContinueOwnTakeover, TableType
  <2>1. CASE InitTakeoverOfMe(r, s)
    <3>1. MuteOutput(PresenceToAllPeers(r))
      <4>1. PresenceMessage(r, FALSE) \in Message
        BY Zenon, PresenceIsMessage
      <4>2. PresenceMessage(r, FALSE).type \notin TableType
        BY DEF PresenceMessage, TableType
      <4>3. QED
        BY Zenon, <4>1, <4>2, MuteToAll DEF PresenceToAllPeers
    <3>2. PeersKept
      BY <2>1, SameEntries DEF InitTakeoverOfMe
    <3>3. QED
      BY ZenonT(40), <2>0, <2>1, <3>1, <3>2, <1>MuteHandler DEF InitTakeoverOfMe
  <2>2. CASE AgreeToTakeover(r, s)
    <3> DEFINE target == Head(net[s][r]).target
               node == AgreedPeer(peers[r][target], s)
               m == TakeoverMessage("InitTakeoverAck", target)
    <3>1. target \in Registrar
      BY Zenon, <2>0, ReceivedMessage, TargetType DEF IInv
    <3>2. peers[r][target] \in PeerListNode
      BY Zenon, <3>1 DEF IInv, PeersInv
    <3>3. EntryKept(peers[r][target], node)
      BY Zenon, <3>2 DEF EntryKept, AgreedPeer, PeerListNode
    <3>4. peers' = [peers EXCEPT ![r][target] = node]
      BY ZenonT(40), <2>2, <3>1 DEF AgreeToTakeover, IInv, PeersInv
    <3>5. ReceiveAndSend(r, s, ToPeer(s, <<m>>))
      BY Zenon, <2>2 DEF AgreeToTakeover
    <3>6. m \in Message /\ m.type \notin TableType
      BY ZenonT(40), <3>1, TakeoverIsMessage DEF TakeoverMessage, TableType
    <3> HIDE DEF m, node, target
    <3>7. MuteOutput(ToPeer(s, <<m>>))
      BY Zenon, <3>6, OneMessage, MuteOne, MuteToPeer
    <3>8. PeersKept
      BY ZenonT(40), <2>0, <3>1, <3>3, <3>4, OneEntryKept DEF IInv
    <3>9. QED
      BY ZenonT(40), <2>0, <3>5, <3>7, <3>8, <1>MuteHandler
  <2>3. CASE ContinueOwnTakeover(r, s)
    BY <2>0, <2>3, MuteSilence, SameEntries, <1>MuteHandler DEF ContinueOwnTakeover
  <2>4. QED
    BY Zenon, <2>1, <2>2, <2>3 DEF HandleENRPInitTakeover

\* registrarHandleENRPInitTakeoverAck: nobody takes over a peer that is up.
<1>InitTakeoverAckSync.
  ASSUME NEW r \in Registrar, NEW s \in Registrar, IInv, SyncInv,
         HandleENRPInitTakeoverAck(r, s)
  PROVE  SyncInv'
  <2> USE <1>InitTakeoverAckSync
  <2> DEFINE target == Head(net[s][r]).target
  <2>0. /\ Received(r, s, "InitTakeoverAck") /\ "InitTakeoverAck" \notin TableType
        /\ UNCHANGED <<running, startup>>
    BY Zenon DEF HandleENRPInitTakeoverAck, AwaitMoreAcks, FinishTakeover, IgnoreAck,
           TableType
  <2>1. target \in Registrar
    BY ZenonT(40), <2>0, ReceivedMessage, TargetType DEF IInv
  <2>2. peers[r][target] \in PeerListNode
    BY <2>1 DEF IInv, PeersInv
  <2>3. CASE AwaitMoreAcks(r, s)
    <3> DEFINE acks == AcksToGo(r, target, s)
               node == [peers[r][target] EXCEPT !.OutstandingAcks = acks]
    <3>1. EntryKept(peers[r][target], node)
      BY Zenon, <2>2 DEF EntryKept, PeerListNode
    <3>2. /\ peers' = [peers EXCEPT ![r][target] = node]
          /\ ReceiveAndSend(r, s, Silence)
      BY Zenon, <2>1, <2>3 DEF AwaitMoreAcks, IInv, PeersInv
    <3> HIDE DEF node, target
    <3>3. PeersKept
      BY ZenonT(40), <2>0, <2>1, <3>1, <3>2, OneEntryKept DEF IInv
    <3>4. QED
      BY ZenonT(40), <2>0, <3>2, <3>3, MuteSilence, <1>MuteHandler
  <2>4. CASE FinishTakeover(r, s)
    <3> DEFINE m == TakeoverMessage("TakeoverServer", target)
               out == TakeoverServerToAllPeers(r, target)
    <3>1. /\ peers[r][target].TakeoverProcess
          /\ peers' = [peers EXCEPT ![r][target] = NoPeer]
          /\ ReceiveAndSend(r, s, out)
      BY Zenon, <2>4 DEF FinishTakeover
    <3>2. EntryKept(peers[r][target], NoPeer)
      BY Zenon, <3>1 DEF EntryKept, NoPeer
    <3>3. MuteOutput(out)
      <4>1. m \in Message /\ m.type \notin TableType
        BY Zenon, <2>1, TakeoverIsMessage DEF TakeoverMessage, TableType
      <4>2. out = IF MSG_SEND_TO_ALL THEN ToAll(r, m) ELSE Silence
        BY Zenon DEF TakeoverServerToAllPeers
      <4> HIDE DEF m, out
      <4>3. QED
        BY ZenonT(40), <4>1, <4>2, MuteToAll, MuteSilence
    <3> HIDE DEF out, target
    <3>4. PeersKept
      BY ZenonT(40), <2>0, <2>1, <3>1, <3>2, OneEntryKept DEF IInv
    <3>5. QED
      BY <2>0, <3>1, <3>3, <3>4, <1>MuteHandler
  <2>5. CASE IgnoreAck(r, s)
    BY <2>0, <2>5, MuteSilence, SameEntries, <1>MuteHandler DEF IgnoreAck
  <2>6. QED
    BY <2>3, <2>4, <2>5 DEF HandleENRPInitTakeoverAck

\* What a handler of r may do to the synchronizations between r and s: r's own one
\* has one message under way exactly if it is noted afterwards, and a request of s
\* is answered.
<1>TableStep.
  ASSUME NEW r \in Registrar, NEW s \in Registrar, NEW taken, NEW out \in Output,
         NEW node, IInv, SyncInv, Received(r, s, taken),
         ReceiveAndSend(r, s, out),
         \A d \in Registrar \ {s} : Mute(out[d]),
         UNCHANGED running, \A q \in running : startup'[q] => startup[q],
         peers' = [peers EXCEPT ![r][s] = node],
         s \in running =>
           /\ node.known
           /\ ~node.TakeoverProcess
           /\ Talk(r, s) + Count(out[s], "HandleTableRequest")
                - (IF taken = "HandleTableResponse" THEN 1 ELSE 0)
              = IF "HTSYNC" \in node.Status THEN 1 ELSE 0
           /\ Count(out[s], "HandleTableResponse")
                = IF taken = "HandleTableRequest" THEN 1 ELSE 0
  PROVE  SyncInv'
  <2> USE <1>TableStep
  <2>0. /\ NetInv /\ RestInv /\ running \subseteq Registrar
        /\ peers \in [Registrar -> [Registrar -> PeerListNode]]
        /\ r \in running /\ r # s
        /\ \A d \in Registrar \ {s} : \A type \in TableType : Count(out[d], type) = 0
    BY Zenon DEF IInv, RestInv, PeersInv, Received, Mute
  <2>1. \A q \in running' : ~startup'[q]
    BY Zenon DEF SyncInv
  <2>2. \A q \in running' : peers'[q][q] = peers[q][q]
    BY Zenon, <2>0
  <2>3. ASSUME NEW a \in running, NEW b \in running, a # b
        PROVE  PairOK(a, b)'
    <3>0. a \in Registrar /\ b \in Registrar /\ PairOK(a, b)
      BY Zenon, <2>0, <2>3 DEF SyncInv
    <3>t. /\ a = r /\ b = s =>
               Talk(a, b)' = Talk(a, b) + Count(out[s], "HandleTableRequest")
                 - (IF taken = "HandleTableResponse" THEN 1 ELSE 0)
          /\ a = s /\ b = r =>
               Talk(a, b)' = Talk(a, b) + Count(out[s], "HandleTableResponse")
                 - (IF taken = "HandleTableRequest" THEN 1 ELSE 0)
          /\ ~(a = r /\ b = s) /\ ~(a = s /\ b = r) => Talk(a, b)' = Talk(a, b)
      BY <2>0, <2>3, <1>TalkReceived
    <3>1. CASE a = r /\ b = s
      <4>1. peers'[a][b] = node
        BY Zenon, <2>0, <3>1
      <4>2. Talk(a, b)' = Talk(a, b) + Count(out[s], "HandleTableRequest")
                            - (IF taken = "HandleTableResponse" THEN 1 ELSE 0)
        BY Zenon, <3>1, <3>t
      <4>3. QED
        BY Zenon, <3>1, <4>1, <4>2 DEF PairOK
    <3>2. CASE a = s /\ b = r
      <4>1. peers'[a][b] = peers[a][b]
        BY Zenon, <2>0, <3>0, <3>2
      <4>2. Talk(a, b)' = Talk(a, b) + Count(out[s], "HandleTableResponse")
                            - (IF taken = "HandleTableRequest" THEN 1 ELSE 0)
        BY Zenon, <3>2, <3>t
      <4>3. Talk(a, b) \in Nat
        BY <2>0, PendingType DEF Talk
      <4>4. Talk(a, b)' = Talk(a, b)
        BY <3>2, <4>2, <4>3
      <4>5. QED
        BY Zenon, <3>0, <4>1, <4>4 DEF PairOK
    <3>3. CASE ~(a = r /\ b = s) /\ ~(a = s /\ b = r)
      <4>1. peers'[a][b] = peers[a][b]
        BY ZenonT(40), <2>0, <3>0, <3>3
      <4>2. Talk(a, b)' = Talk(a, b)
        BY Zenon, <3>3, <3>t
      <4>3. QED
        BY <3>0, <4>1, <4>2 DEF PairOK
    <3>4. QED
      BY Zenon, <3>1, <3>2, <3>3
  <2>4. QED
    BY Zenon, <2>1, <2>2, <2>3 DEF SyncInv

\* What is known of the two before such a handler.
<1>TableFacts.
  ASSUME NEW r \in Registrar, NEW s \in Registrar, NEW taken, IInv, SyncInv,
         Received(r, s, taken)
  PROVE  /\ peers \in [Registrar -> [Registrar -> PeerListNode]]
         /\ peers[r][s] \in PeerListNode
         /\ r \in running /\ r # s /\ ~startup[r]
         /\ s \in running =>
              /\ peers[r][s].known
              /\ ~peers[r][s].TakeoverProcess
              /\ Talk(r, s) = IF "HTSYNC" \in peers[r][s].Status THEN 1 ELSE 0
              /\ taken = "HandleTableResponse" => "HTSYNC" \in peers[r][s].Status
  <2> USE <1>TableFacts
  <2>1. /\ r \in running /\ r # s /\ ~startup[r]
        /\ peers \in [Registrar -> [Registrar -> PeerListNode]]
        /\ net[s][r] \in Seq(Message) /\ net[s][r] # <<>>
        /\ Head(net[s][r]).type = taken
    BY Zenon DEF SyncInv, Received, IInv, PeersInv, NetInv
  <2>2. ASSUME s \in running PROVE PairOK(r, s)
    BY Zenon, <2>1, <2>2 DEF SyncInv
  <2>3. ASSUME s \in running, taken = "HandleTableResponse" PROVE Talk(r, s) > 0
    <3> DEFINE P == Pending(r, s, "HandleTableRequest")
               Q == Pending(s, r, "HandleTableResponse")
    <3>0. NetInv /\ RestInv
      BY Zenon DEF IInv
    <3>1. P \in Nat
      BY ZenonT(40), <2>1, <2>3, <3>0, PendingType
    <3>2. Count(Tail(net[s][r]), "HandleTableResponse")
            = Count(net[s][r], "HandleTableResponse") - 1
      BY Zenon, <2>1, <2>3, <1>CountTail
    <3>3. /\ Count(Tail(net[s][r]), "HandleTableResponse") \in Nat
          /\ Count(net[s][r], "HandleTableResponse") \in Nat
      <4>1. Tail(net[s][r]) \in Seq(Message)
        BY <2>1
      <4>2. QED
        BY Zenon, <2>1, <4>1, CountType
    <3>4. Q = Count(net[s][r], "HandleTableResponse")
      BY DEF Pending, Count
    <3> HIDE DEF P, Q
    <3>5. P + Q > 0
      BY <3>1, <3>2, <3>3, <3>4
    <3>6. QED
      BY Zenon, <3>5 DEF Talk, P, Q
  <2>4. QED
    BY <2>1, <2>2, <2>3 DEF PairOK

\* The entry a handler leaves alone.
<1>SameEntry.
  ASSUME NEW r \in Registrar, NEW s \in Registrar, UNCHANGED peers,
         peers \in [Registrar -> [Registrar -> PeerListNode]]
  PROVE  peers' = [peers EXCEPT ![r][s] = peers[r][s]]
  BY Zenon, <1>SameEntry

\* An output to one registrar.
<1>ToPeerMute.
  ASSUME NEW s \in Registrar, NEW q
  PROVE  /\ ToPeer(s, q)[s] = q
         /\ \A d \in Registrar \ {s} : Mute(ToPeer(s, q)[d])
  <2> USE <1>ToPeerMute
  <2>1. /\ ToPeer(s, q)[s] = q
        /\ \A d \in Registrar \ {s} : ToPeer(s, q)[d] = <<>>
    BY Zenon DEF ToPeer, Silence
  <2>2. QED
    BY Zenon, <2>1, MuteEmpty

\* registrarHandleENRPHandleTableRequest: every request is answered.
<1>TableRequestSync.
  ASSUME NEW r \in Registrar, NEW s \in Registrar, IInv, SyncInv,
         HandleENRPHandleTableRequest(r, s)
  PROVE  SyncInv'
  <2> USE <1>TableRequestSync
  <2>0. /\ Received(r, s, "HandleTableRequest")
        /\ UNCHANGED <<running, startup>>
    BY Zenon DEF HandleENRPHandleTableRequest, SendHandleTable, RejectHandleTable
  <2>1. \E m \in Message : m.type = "HandleTableResponse"
                           /\ ReceiveAndSend(r, s, ToPeer(s, <<m>>))
    <3>1. CASE SendHandleTable(r, s)
      <4>1. PICK n \in 1 .. MaxElementsPerHTRequest :
              LET candidates == Candidates(r, s, Head(net[s][r]).ownChildrenOnly)
                  chunk      == FirstElements(candidates, n)
                  more       == MoreToSend(candidates, n)
              IN ReceiveAndSend(r, s, ToPeer(s, <<TableResponse(r, chunk, more)>>))
        BY <3>1 DEF SendHandleTable
      <4> DEFINE candidates == Candidates(r, s, Head(net[s][r]).ownChildrenOnly)
                 chunk      == FirstElements(candidates, n)
                 more       == MoreToSend(candidates, n)
                 m          == TableResponse(r, chunk, more)
      <4>2. more \in BOOLEAN
        BY DEF MoreToSend
      <4>3. m.type = "HandleTableResponse"
        BY Zenon DEF TableResponse
      <4>4. ReceiveAndSend(r, s, ToPeer(s, <<m>>))
        BY <4>1
      <4> HIDE DEF candidates, chunk, more
      <4>5. m \in Message
        BY Zenon, <4>2, TableResponseIsMessage DEF IInv
      <4> HIDE DEF m
      <4>6. QED
        BY Zenon, <4>3, <4>4, <4>5
    <3>2. CASE RejectHandleTable(r, s)
      <4> DEFINE m == [TableResponse(r, {}, FALSE) EXCEPT !.reject = TRUE]
      <4>1. m \in Message
        BY Zenon, TableResponseIsMessage DEF IInv
      <4>2. m.type = "HandleTableResponse"
        BY DEF TableResponse
      <4>3. ReceiveAndSend(r, s, ToPeer(s, <<m>>))
        BY <3>2 DEF RejectHandleTable
      <4> HIDE DEF m
      <4>4. QED
        BY <4>1, <4>2, <4>3
    <3>3. QED
      BY Zenon, <3>1, <3>2 DEF HandleENRPHandleTableRequest
  <2>2. PICK m \in Message : m.type = "HandleTableResponse"
                             /\ ReceiveAndSend(r, s, ToPeer(s, <<m>>))
    BY <2>1
  <2> DEFINE out == ToPeer(s, <<m>>)
  <2>3. /\ out \in Output /\ \A d \in Registrar \ {s} : Mute(out[d])
        /\ out[s] = <<m>>
    BY Zenon, OneToPeerOutput, <1>ToPeerMute
  <2>4. /\ Count(out[s], "HandleTableRequest") = 0
        /\ Count(out[s], "HandleTableResponse") = 1
    BY <2>2, <2>3, CountOne
  <2>5. \E node : /\ peers' = [peers EXCEPT ![r][s] = node]
                  /\ node.known = peers[r][s].known
                  /\ node.TakeoverProcess = peers[r][s].TakeoverProcess
                  /\ node.Status = peers[r][s].Status
    <3>0. peers[r][s] \in PeerListNode
          /\ peers \in [Registrar -> [Registrar -> PeerListNode]]
      BY Zenon, <2>0, <1>TableFacts
    <3>1. CASE SendHandleTable(r, s)
      <4>1. PICK last : peers' = [peers EXCEPT ![r][s].UserData = last]
        BY Zenon, <3>1 DEF SendHandleTable
      <4> DEFINE node == [peers[r][s] EXCEPT !.UserData = last]
      <4>2. peers' = [peers EXCEPT ![r][s] = node]
        BY <3>0, <4>1
      <4>3. /\ node.known = peers[r][s].known
            /\ node.TakeoverProcess = peers[r][s].TakeoverProcess
            /\ node.Status = peers[r][s].Status
        BY <3>0 DEF PeerListNode
      <4> HIDE DEF node
      <4>4. QED
        BY Zenon, <4>2, <4>3
    <3>2. CASE RejectHandleTable(r, s)
      BY ZenonT(40), <3>0, <3>2, <1>SameEntry DEF RejectHandleTable
    <3>3. QED
      BY Zenon, <3>1, <3>2 DEF HandleENRPHandleTableRequest
  <2>6. PICK node : /\ peers' = [peers EXCEPT ![r][s] = node]
                    /\ node.known = peers[r][s].known
                    /\ node.TakeoverProcess = peers[r][s].TakeoverProcess
                    /\ node.Status = peers[r][s].Status
    BY Zenon, <2>5
  <2>7. ReceiveAndSend(r, s, out)
    BY <2>2
  <2> HIDE DEF out
  <2>8. s \in running =>
           /\ node.known
           /\ ~node.TakeoverProcess
           /\ Talk(r, s) + 0 - 0 = IF "HTSYNC" \in node.Status THEN 1 ELSE 0
    BY <2>0, <2>6, <1>TableFacts
  <2>9. QED
    BY ZenonT(40), <2>0, <2>3, <2>4, <2>6, <2>7, <2>8, <1>TableStep

\* registrarHandleENRPHandleTableResponse: the next chunk is requested, or the note
\* is removed.
<1>TableResponseSync.
  ASSUME NEW r \in Registrar, NEW s \in Registrar, IInv, SyncInv,
         HandleENRPHandleTableResponse(r, s)
  PROVE  SyncInv'
  <2> USE <1>TableResponseSync
  <2>0. /\ Received(r, s, "HandleTableResponse")
        /\ UNCHANGED running
        /\ \A q \in running : startup'[q] => startup[q]
    BY Zenon DEF HandleENRPHandleTableResponse, RequestNextChunk,
           CompleteSynchronization, SynchronizationRejected, IgnoreTable, IInv,
           RestInv
  <2>1. /\ peers \in [Registrar -> [Registrar -> PeerListNode]]
        /\ peers[r][s] \in PeerListNode
        /\ s \in running =>
              /\ peers[r][s].known
              /\ ~peers[r][s].TakeoverProcess
              /\ Talk(r, s) = 1
              /\ "HTSYNC" \in peers[r][s].Status
    BY Zenon, <2>0, <1>TableFacts
  <2>2. /\ Silence \in Output /\ \A d \in Registrar : Mute(Silence[d])
        /\ Count(Silence[s], "HandleTableRequest") = 0
        /\ Count(Silence[s], "HandleTableResponse") = 0
    BY Zenon, MuteSilence DEF MuteOutput, Mute, TableType
  <2>3. CASE RequestNextChunk(r, s)
    <3> DEFINE own == "MENTOR" \notin peers[r][s].Status
    <3>1. own \in BOOLEAN
      OBVIOUS
    <3>2. ReceiveAndSend(r, s, ToPeer(s, <<TableRequest(own)>>)) /\ UNCHANGED peers
      BY Zenon, <2>3 DEF RequestNextChunk
    <3> HIDE DEF own
    <3> DEFINE m == TableRequest(own)
               out == ToPeer(s, <<m>>)
    <3>3. m \in Message /\ m.type = "HandleTableRequest"
      BY Zenon, <3>1, TableRequestIsMessage DEF TableRequest
    <3> HIDE DEF m
    <3>4. /\ out \in Output /\ \A d \in Registrar \ {s} : Mute(out[d])
          /\ out[s] = <<m>>
      BY Zenon, <3>3, OneToPeerOutput, <1>ToPeerMute
    <3>5. /\ Count(out[s], "HandleTableRequest") = 1
          /\ Count(out[s], "HandleTableResponse") = 0
      BY <3>3, <3>4, CountOne
    <3>6. peers' = [peers EXCEPT ![r][s] = peers[r][s]]
      BY Zenon, <2>1, <3>2, <1>SameEntry
    <3>7. ReceiveAndSend(r, s, out)
      BY Zenon, <3>2 DEF m
    <3> HIDE DEF out
    <3>8. s \in running => Talk(r, s) + Count(out[s], "HandleTableRequest") - 1
                            = IF "HTSYNC" \in peers[r][s].Status THEN 1 ELSE 0
      BY <2>1, <3>5
    <3>9. QED
      BY ZenonT(40), <2>0, <2>1, <3>4, <3>5, <3>6, <3>7, <3>8, <1>TableStep
  <2>4. CASE CompleteSynchronization(r, s) \/ SynchronizationRejected(r, s)
    <3> DEFINE node == [peers[r][s] EXCEPT !.Status = @ \ {"MENTOR", "HTSYNC"}]
    <3>1. /\ ReceiveAndSend(r, s, Silence)
          /\ peers' = [peers EXCEPT ![r][s] = node]
      BY Zenon, <2>1, <2>4 DEF CompleteSynchronization, SynchronizationRejected
    <3>2. /\ node.known = peers[r][s].known
          /\ node.TakeoverProcess = peers[r][s].TakeoverProcess
          /\ "HTSYNC" \notin node.Status
      BY Zenon, <2>1 DEF PeerListNode
    <3> HIDE DEF node
    <3>3. s \in running => Talk(r, s) + Count(Silence[s], "HandleTableRequest") - 1
                            = IF "HTSYNC" \in node.Status THEN 1 ELSE 0
      BY <2>1, <2>2, <3>2
    <3>4. QED
      BY Zenon, <2>0, <2>1, <2>2, <3>1, <3>2, <3>3, <1>TableStep
  <2>5. CASE IgnoreTable(r, s)
    <3>1. s \notin running /\ UNCHANGED peers /\ ReceiveAndSend(r, s, Silence)
      BY <2>1, <2>5 DEF IgnoreTable
    <3>2. peers' = [peers EXCEPT ![r][s] = peers[r][s]]
      BY Zenon, <2>1, <3>1, <1>SameEntry
    <3>3. QED
      BY ZenonT(40), <2>0, <2>2, <3>1, <3>2, <1>TableStep
  <2>6. QED
    BY Zenon, <2>3, <2>4, <2>5 DEF HandleENRPHandleTableResponse

\* A message that is sent or not.
<1>CountIf.
  ASSUME NEW condition \in BOOLEAN, NEW m \in Message, NEW type
  PROVE  /\ If(condition, <<m>>) \in Seq(Message)
         /\ Count(If(condition, <<m>>), type)
              = IF condition /\ m.type = type THEN 1 ELSE 0
  <2> USE <1>CountIf
  <2>1. CASE condition
    BY Zenon, <2>1, OneMessage, CountOne DEF If
  <2>2. CASE ~condition
    <3>1. If(condition, <<m>>) = <<>>
      BY Zenon, <2>2 DEF If
    <3>2. Count(<<>>, type) = 0
      BY CountNone
    <3>3. QED
      BY <2>2, <3>1, <3>2
  <2>3. QED
    BY Zenon, <2>1, <2>2

\* After the startup phase, a peer is only sent a Presence at its first sign of
\* life.
<1>MuteGreet.
  ASSUME NEW r \in Registrar, NEW s \in Registrar, IInv, ~startup[r]
  PROVE  GreetPeer(r, s) \in Seq(Message) /\ Mute(GreetPeer(r, s))
  <2> USE <1>MuteGreet
  <2> DEFINE m == PresenceMessage(r, TRUE)
             new == ~peers[r][s].known
             q == If(new, <<m>>)
  <2>1. m \in Message /\ m.type \notin TableType
    BY Zenon, PresenceIsMessage DEF PresenceMessage, TableType
  <2>2. new \in BOOLEAN
    OBVIOUS
  <2>3. GreetPeer(r, s) = q \o <<>>
    BY DEF GreetPeer, BecomesMentor, If
  <2> HIDE DEF m, new
  <2>4. q \in Seq(Message) /\ Mute(q)
    BY <2>1, <2>2, <1>CountIf DEF Mute
  <2> HIDE DEF q
  <2>5. GreetPeer(r, s) = q
    BY <2>3, <2>4
  <2>6. QED
    BY Zenon, <2>4, <2>5

\* A sign of life keeps the entry of a peer and its note.
<1>HeardKept.
  ASSUME NEW r \in Registrar, NEW s \in Registrar, NEW status, IInv, ~startup[r]
  PROVE  LET node == peers[r][s]
             new  == HeardPeer(r, s, status)
         IN /\ new.known /\ ~new.TakeoverProcess /\ new.Status = status
            /\ node.known => StatusAfterMentorQuery(r, s) = node.Status
            /\ StatusAfterMentorQuery(r, s) \subseteq node.Status
  <2> USE <1>HeardKept
  <2>1. peers[r][s] \in PeerListNode /\ NewPeer \in PeerListNode
    BY ZenonT(40) DEF IInv, PeersInv, NewPeer, NoPeer, PeerListNode, PeerTimer, PeerStatus
  <2>2. RegisterPeer(peers[r][s]) \in PeerListNode
    BY <2>1 DEF RegisterPeer
  <2>3. RegisterPeer(peers[r][s]).known
    BY DEF RegisterPeer, NewPeer, NoPeer
  <2>4. StatusAfterMentorQuery(r, s) = RegisterPeer(peers[r][s]).Status
    BY DEF StatusAfterMentorQuery, BecomesMentor
  <2>5. /\ peers[r][s].known => RegisterPeer(peers[r][s]) = peers[r][s]
        /\ ~peers[r][s].known => RegisterPeer(peers[r][s]).Status = {}
    BY DEF RegisterPeer, NewPeer, NoPeer
  <2> DEFINE reg == RegisterPeer(peers[r][s])
  <2>6. HeardPeer(r, s, status) =
          [reg EXCEPT !.Status = status, !.TimerCode = "LAST_HEARD",
             !.TakeoverRegistrarID = UNDEFINED,
             !.TakeoverProcess = FALSE, !.OutstandingAcks = {}]
    BY DEF HeardPeer
  <2> HIDE DEF reg
  <2>7. /\ HeardPeer(r, s, status).known = reg.known
        /\ ~HeardPeer(r, s, status).TakeoverProcess
        /\ HeardPeer(r, s, status).Status = status
    BY <2>2, <2>6 DEF PeerListNode, reg
  <2>8. QED
    BY ZenonT(40), <2>3, <2>4, <2>5, <2>7 DEF reg

\* A Presence that was multicast.
<1>MulticastPresenceSync.
  ASSUME NEW r \in Registrar, NEW s \in Registrar, IInv, SyncInv,
         HandleMulticastPresence(r, s)
  PROVE  SyncInv'
  <2> USE <1>MulticastPresenceSync
  <2> DEFINE status == StatusAfterMentorQuery(r, s)
             node == HeardPeer(r, s, status)
             out == ToPeer(s, GreetPeer(r, s))
  <2>1. /\ r \in running /\ ~startup[r] /\ UNCHANGED <<running, startup>>
        /\ peers' = [peers EXCEPT ![r][s] = node]
        /\ Send(r, out)
    BY Zenon DEF HandleMulticastPresence, SyncInv
  <2>2. EntryKept(peers[r][s], node)
    BY <2>1, <1>HeardKept DEF EntryKept
  <2>3. MuteOutput(out)
    BY Zenon, <2>1, <1>MuteGreet, MuteToPeer
  <2> HIDE DEF node, out
  <2>4. PeersKept
    BY Zenon, <2>1, <2>2, OneEntryKept DEF IInv
  <2>5. TalkKept
    BY <2>1, <2>3, MuteSend DEF IInv
  <2>6. QED
    BY <2>1, <2>4, <2>5, MuteStep DEF IInv

\* registrarHandleENRPPresence: the audit starts a synchronization with a request,
\* and only if none is noted.
<1>PresenceSync.
  ASSUME NEW r \in Registrar, NEW s \in Registrar, IInv, SyncInv,
         HandleENRPPresence(r, s)
  PROVE  SyncInv'
  <2> USE <1>PresenceSync
  <2> DEFINE m == Head(net[s][r])
             before == StatusAfterMentorQuery(r, s)
             sync == HandleTableOutdated(r, s, m.checksum)
             list == PeerListOutdated(r, s)
             status == before \cup {x \in {"HTSYNC"} : sync}
                              \cup {x \in {"LISTSYNC"} : list}
             node == HeardPeer(r, s, status)
             q1 == GreetPeer(r, s)
             q2 == If(sync, <<TableRequest(TRUE)>>)
             q3 == If(list, <<[type |-> "ListRequest"]>>)
             q4 == If(m.reply, <<PresenceMessage(r, FALSE)>>)
             q == q1 \o q2 \o q3 \o q4
             out == ToPeer(s, q)
  <2>0. Received(r, s, "Presence")
    BY DEF HandleENRPPresence
  <2>1. /\ peers' = [peers EXCEPT ![r][s] = node]
        /\ ReceiveAndSend(r, s, out)
        /\ UNCHANGED <<running, startup>>
    BY Zenon DEF HandleENRPPresence
  <2>2. /\ ~startup[r]
        /\ s \in running =>
              /\ peers[r][s].known
              /\ Talk(r, s) = IF "HTSYNC" \in peers[r][s].Status THEN 1 ELSE 0
    BY Zenon, <2>0, <1>TableFacts
  <2>3. sync \in BOOLEAN /\ list \in BOOLEAN /\ m.reply \in BOOLEAN
    <3>1. m.reply \in BOOLEAN
      BY Zenon, <2>0, ReceivedMessage, PresenceType DEF IInv
    <3>2. QED
      BY Zenon, <3>1 DEF HandleTableOutdated, PeerListOutdated
  <2>4. sync => "HTSYNC" \notin before
    BY Zenon DEF HandleTableOutdated
  <2>5. "HTSYNC" \in status <=> sync \/ "HTSYNC" \in before
    BY Zenon
  <2>6. node.known /\ ~node.TakeoverProcess /\ node.Status = status
    BY Zenon, <2>2, <1>HeardKept
  <2>7. s \in running => before = peers[r][s].Status
    BY Zenon, <2>2, <1>HeardKept
  <2>8. /\ q1 \in Seq(Message) /\ Mute(q1)
        /\ q2 \in Seq(Message)
        /\ Count(q2, "HandleTableRequest") = IF sync THEN 1 ELSE 0
        /\ Count(q2, "HandleTableResponse") = 0
        /\ q3 \in Seq(Message) /\ Mute(q3)
        /\ q4 \in Seq(Message) /\ Mute(q4)
    <3> DEFINE m2 == TableRequest(TRUE)
               m3 == [type |-> "ListRequest"]
               m4 == PresenceMessage(r, FALSE)
    <3>1. /\ m2 \in Message /\ m2.type = "HandleTableRequest"
          /\ m3 \in Message /\ m3.type \notin TableType
          /\ m4 \in Message /\ m4.type \notin TableType
      <4>1. m2 \in Message /\ m2.type = "HandleTableRequest"
        BY Zenon, TableRequestIsMessage DEF TableRequest
      <4>2. m3 \in Message /\ m3.type \notin TableType
        BY DEF Message, TableType
      <4>3. m4 \in Message /\ m4.type \notin TableType
        BY Zenon, PresenceIsMessage DEF PresenceMessage, TableType
      <4>4. QED
        BY Zenon, <4>1, <4>2, <4>3
    <3>2. q1 \in Seq(Message) /\ Mute(q1)
      BY Zenon, <2>2, <1>MuteGreet
    <3>3. q2 = If(sync, <<m2>>) /\ q3 = If(list, <<m3>>) /\ q4 = If(m.reply, <<m4>>)
      BY Zenon
    <3> HIDE DEF m2, m3, m4, sync, list, m, q1, q2, q3, q4
    <3>4. q3 \in Seq(Message) /\ Mute(q3)
      BY ZenonT(40), <2>3, <3>1, <3>3, <1>CountIf DEF Mute
    <3>5. q4 \in Seq(Message) /\ Mute(q4)
      BY ZenonT(40), <2>3, <3>1, <3>3, <1>CountIf DEF Mute
    <3>6. /\ q2 \in Seq(Message)
          /\ Count(q2, "HandleTableRequest") = IF sync THEN 1 ELSE 0
          /\ Count(q2, "HandleTableResponse") = 0
      BY Zenon, <2>3, <3>1, <3>3, <1>CountIf
    <3>7. QED
      BY ZenonT(40), <3>2, <3>4, <3>5, <3>6
  <2> HIDE DEF m, before, sync, list, status, node, q1, q2, q3, q4
  <2>9. /\ q \in Seq(Message)
        /\ Count(q, "HandleTableRequest") = IF sync THEN 1 ELSE 0
        /\ Count(q, "HandleTableResponse") = 0
    <3> DEFINE q12 == q1 \o q2
               q123 == q12 \o q3
    <3>1. q12 \in Seq(Message) /\ q123 \in Seq(Message) /\ q \in Seq(Message)
      BY <2>8
    <3>2. ASSUME NEW type \in TableType PROVE Count(q, type) = Count(q2, type)
      <4>1. /\ Count(q1, type) = 0 /\ Count(q3, type) = 0 /\ Count(q4, type) = 0
            /\ Count(q2, type) \in Nat
        BY Zenon, <2>8, CountType DEF Mute
      <4>2. Count(q12, type) = Count(q1, type) + Count(q2, type)
        BY <2>8, CountConcat
      <4>3. q = q123 \o q4
        OBVIOUS
      <4> HIDE DEF q12
      <4>4. Count(q123, type) = Count(q12, type) + Count(q3, type)
        BY <2>8, <3>1, CountConcat
      <4> HIDE DEF q123, q
      <4>5. Count(q, type) = Count(q123, type) + Count(q4, type)
        BY <2>8, <3>1, <4>3, CountConcat
      <4>6. QED
        BY <4>1, <4>2, <4>4, <4>5
    <3> HIDE DEF q
    <3>3. QED
      BY ZenonT(40), <2>8, <3>1, <3>2 DEF TableType
  <2> HIDE DEF q
  <2>10. /\ out \in Output /\ out[s] = q
         /\ \A d \in Registrar \ {s} : Mute(out[d])
    BY Zenon, <2>9, ToPeerOutput, <1>ToPeerMute
  <2> HIDE DEF out
  <2>11. s \in running => Talk(r, s) + Count(out[s], "HandleTableRequest") - 0
                          = IF "HTSYNC" \in node.Status THEN 1 ELSE 0
    BY <2>2, <2>3, <2>4, <2>5, <2>6, <2>7, <2>9, <2>10
  <2>12. QED
    BY Zenon, <2>0, <2>1, <2>6, <2>9, <2>10, <2>11, <1>TableStep
<1> SUFFICES ASSUME NEW r \in Registrar, NEW s \in Registrar, IInv, SyncInv,
                    HandleMessage(r, s)
             PROVE  SyncInv'
  BY Zenon
<1> QED
  BY ZenonT(40), <1>MulticastPresenceSync, <1>PresenceSync, <1>UpdateMessagesSync, <1>ListRequestSync,
  <1>ListResponseSync, <1>TableRequestSync, <1>TableResponseSync, <1>InitTakeoverSync,
  <1>InitTakeoverAckSync DEF HandleMessage

\* Every step preserves the invariant.
LEMMA NextSync ==
  ASSUME Steady, IInv, SyncInv, [Next]_vars
  PROVE  SyncInv'

\* One after the other.
<1>MuteConcat.
  ASSUME NEW p \in Seq(Message), NEW q \in Seq(Message), Mute(p), Mute(q)
  PROVE  Mute(p \o q)
  BY <1>MuteConcat, CountConcat DEF Mute

\* registrarSendENRPHandleUpdate
<1>MuteUpdate.
  ASSUME NEW r \in Registrar, NEW e \in PoolElement, NEW home \in Registrar,
         NEW action \in {"ADD_PE", "DEL_PE"}
  PROVE  MuteOutput(HandleUpdate(r, e, home, action))
  <2> USE <1>MuteUpdate
  <2> DEFINE message == HandleUpdateMessage(e, home, action)
             better  == UsefulPeer(r, Peers(r), e)
             second  == [message EXCEPT !.suggested = TRUE]
             all     == ToAll(r, message)
             one     == ToPeer(better, <<second>>)
  <2>1. message \in Message /\ second \in Message
    BY Zenon, UpdateIsMessage
  <2>2. message.type \notin TableType /\ second.type \notin TableType
    BY DEF HandleUpdateMessage, TableType
  <2> HIDE DEF message, second
  <2>3. MuteOutput(all)
    BY <2>1, <2>2, MuteToAll
  <2>4. ASSUME better # UNDEFINED PROVE MuteOutput(Then(all, one))
    <3>1. better \in Registrar
      <4>1. Peers(r) \in SUBSET Registrar
        BY Zenon DEF Peers
      <4>2. QED
        BY Zenon, <2>4, <4>1, UsefulPeerAssumption
    <3>2. MuteOutput(one)
      BY ZenonT(40), <2>1, <2>2, <3>1, OneMessage, MuteOne, MuteToPeer
    <3> HIDE DEF all, one
    <3>3. ASSUME NEW d \in Registrar PROVE Mute(all[d] \o one[d])
      <4>1. all[d] \in Seq(Message) /\ one[d] \in Seq(Message)
        BY Zenon, <2>3, <3>2 DEF MuteOutput, Output
      <4>2. QED
        BY <2>3, <3>2, <4>1, <1>MuteConcat DEF MuteOutput
    <3>4. Then(all, one) \in Output
      BY Zenon, <2>3, <3>2, ThenOutput DEF MuteOutput
    <3>5. QED
      BY <3>3, <3>4 DEF MuteOutput, Then
  <2>5. QED
    BY Zenon, <2>3, <2>4 DEF HandleUpdate, message, second

\* Nothing is sent or received.
<1>SameTalk.
 UNCHANGED net => TalkKept
  BY DEF TalkKept, Talk, Pending

\* These events do not happen.
<1>NeverSpent.
  ASSUME Steady, RestInv, NEW k \in {"start", "loss", "suspect"}
  PROVE  ~Spend(k)
  <2> USE <1>NeverSpent
  <2>1. ASSUME Spend(k) PROVE FALSE
    <3>1. k \notin Recurring
      BY DEF Steady
    <3>2. spent \in [EventKind -> Nat] /\ k \in EventKind
      BY DEF RestInv, EventKind
    <3>3. spent' = [spent EXCEPT ![k] = @ + 1]
      BY Zenon, <2>1, <3>1 DEF Spend
    <3>4. PICK limit \in Bound : \A j \in EventKind : spent'[j] <= limit[j]
      BY Zenon, <2>1, <3>1 DEF Spend
    <3>5. spent'[k] = spent[k] + 1 /\ spent[k] \in Nat
      BY Zenon, <3>2, <3>3
    <3>6. limit[k] = 0 /\ spent'[k] <= limit[k]
      BY Zenon, <3>2, <3>4 DEF Steady
    <3>7. QED
      BY <3>5, <3>6
  <2>2. QED
    BY Zenon, <2>1

\* A registrar fails: the synchronizations of the others go on.
<1>CrashSync.
  ASSUME NEW r \in Registrar, Crash(r), IInv, SyncInv
  PROVE  SyncInv'
  <2> USE <1>CrashSync
  <2>1. running' \subseteq running /\ r \notin running'
    BY Zenon DEF Crash
  <2>2. running' \subseteq Registrar
    BY Zenon, <2>1 DEF IInv, RestInv
  <2>3. \A a, b \in running' :
          /\ peers'[a][b] = peers[a][b]
          /\ net'[a][b] = net[a][b]
          /\ startup'[a] = startup[a]
    BY Zenon, <2>1, <2>2 DEF Crash, IInv, PeersInv, NetInv, RestInv
  <2>4. \A a, b \in running' : Talk(a, b)' = Talk(a, b)
    BY Zenon, <2>3 DEF Talk, Pending
  <2>5. QED
    BY <2>1, <2>3, <2>4 DEF SyncInv, PairOK

\* registrarHandleENRPAnnounceTimer
<1>AnnounceSync.
  ASSUME NEW r \in Registrar, HandleENRPAnnounceTimer(r), IInv, SyncInv
  PROVE  SyncInv'
  <2> USE <1>AnnounceSync
  <2>1. MuteOutput(PresenceToAllPeers(r))
    <3>1. PresenceMessage(r, FALSE) \in Message
      BY Zenon, PresenceIsMessage
    <3>2. PresenceMessage(r, FALSE).type \notin TableType
      BY DEF PresenceMessage, TableType
    <3>3. QED
      BY Zenon, <3>1, <3>2, MuteToAll DEF PresenceToAllPeers
  <2>2. TalkKept
    BY <2>1, MuteSend DEF HandleENRPAnnounceTimer, IInv
  <2>3. PeersKept
    BY Zenon, SameEntries DEF HandleENRPAnnounceTimer
  <2>4. UNCHANGED running /\ \A q \in running : startup'[q] => startup[q]
    BY Zenon DEF HandleENRPAnnounceTimer, IInv, RestInv
  <2>5. QED
    BY <2>2, <2>3, <2>4, MuteStep DEF IInv

\* registrarHandlePeerEvent: only a peer that is down is suspected.
<1>PeerEventSync.
  ASSUME NEW r \in Registrar, NEW p \in Registrar, Steady,
         HandlePeerEvent(r, p), IInv, SyncInv
  PROVE  SyncInv'
  <2> USE <1>PeerEventSync
  <2>0. /\ PeersInv /\ NetInv /\ RestInv
        /\ peers \in [Registrar -> [Registrar -> PeerListNode]]
        /\ peers[r][p] \in PeerListNode
        /\ UNCHANGED <<running, startup>>
    BY Zenon DEF IInv, PeersInv, HandlePeerEvent, LastHeardTimeout, NoResponseTakeover,
           NoResponseForget, TakeoverExpiry
  <2>1. CASE LastHeardTimeout(r, p)
    <3> DEFINE node == [peers[r][p] EXCEPT !.TimerCode = "NO_RESPONSE"]
               m == PresenceMessage(r, TRUE)
    <3>1. m \in Message /\ m.type \notin TableType
      BY Zenon, PresenceIsMessage DEF PresenceMessage, TableType
    <3>2. Send(r, ToPeer(p, <<m>>)) /\ peers' = [peers EXCEPT ![r][p] = node]
      BY <2>0, <2>1 DEF LastHeardTimeout
    <3>3. EntryKept(peers[r][p], node)
      BY <2>0 DEF EntryKept, PeerListNode
    <3> HIDE DEF m, node
    <3>4. PeersKept
      BY Zenon, <2>0, <3>2, <3>3, OneEntryKept
    <3>5. TalkKept
      BY ZenonT(40), <2>0, <3>1, <3>2, OneMessage, MuteOne, MuteToPeer, MuteSend
    <3>6. QED
      BY Zenon, <2>0, <3>4, <3>5, MuteStep
  <2>2. CASE NoResponseTakeover(r, p)
    <3> DEFINE m == TakeoverMessage("InitTakeover", p)
               acks == OutstandingAcksFor(r, p)
               node == [peers[r][p] EXCEPT !.TakeoverProcess = TRUE,
                          !.OutstandingAcks = acks, !.TimerCode = "TAKEOVER_EXPIRY"]
    <3>1. p \notin running
      BY Zenon, <2>0, <2>2, <1>NeverSpent DEF NoResponseTakeover, PeerTimerExpires
    <3>2. m \in Message /\ m.type \notin TableType
      BY Zenon, TakeoverIsMessage DEF TakeoverMessage, TableType
    <3>3. Send(r, ToAll(r, m)) /\ peers' = [peers EXCEPT ![r][p] = node]
      BY Zenon, <2>0, <2>2 DEF NoResponseTakeover, StartTakeover
    <3> HIDE DEF m, node
    <3>4. PeersKept
      BY Zenon, <2>0, <3>1, <3>3, OneEntryKept
    <3>5. TalkKept
      BY Zenon, <2>0, <3>2, <3>3, MuteToAll, MuteSend
    <3>6. QED
      BY <2>0, <3>4, <3>5, MuteStep
  <2>3. CASE NoResponseForget(r, p)
    <3>1. p \notin running
      BY Zenon, <2>0, <2>3, <1>NeverSpent DEF NoResponseForget, PeerTimerExpires
    <3>2. peers' = [peers EXCEPT ![r][p] = NoPeer] /\ UNCHANGED net
      BY Zenon, <2>3 DEF NoResponseForget
    <3>3. PeersKept
      BY Zenon, <2>0, <3>1, <3>2, OneEntryKept
    <3>4. QED
      BY Zenon, <2>0, <3>2, <3>3, <1>SameTalk, MuteStep
  <2>4. CASE TakeoverExpiry(r, p)
    <3>1. peers' = [peers EXCEPT ![r][p] = NoPeer] /\ UNCHANGED net
      BY <2>4 DEF TakeoverExpiry
    <3>2. peers[r][p].TakeoverProcess
      BY Zenon, <2>0, <2>4 DEF TakeoverExpiry, PeersInv, PeerListOK, PeerOK
    <3>3. EntryKept(peers[r][p], NoPeer)
      BY Zenon, <3>2 DEF EntryKept, NoPeer
    <3>4. PeersKept
      BY ZenonT(40), <2>0, <3>1, <3>3, OneEntryKept
    <3>5. QED
      BY <2>0, <3>1, <3>4, <1>SameTalk, MuteStep
  <2>5. QED
    BY Zenon, <2>1, <2>2, <2>3, <2>4 DEF HandlePeerEvent

\* The handlers of the PEs leave the peer list alone and send updates only.
<1>UpdateSync.
  ASSUME NEW r \in Registrar, NEW out, IInv, SyncInv,
         UNCHANGED <<running, startup, peers>>,
         UNCHANGED net \/ (MuteOutput(out) /\ Send(r, out))
  PROVE  SyncInv'
  <2> USE <1>UpdateSync
  <2>1. TalkKept
    BY <1>SameTalk, MuteSend DEF IInv
  <2>2. QED
    BY <2>1, SameEntries, MuteStep DEF IInv

\* The removal of a PE.
<1>MuteRemoval.
  ASSUME NEW r \in Registrar, NEW e \in PoolElement
  PROVE  MuteOutput(RemovalUpdate(r, e))
  BY Zenon, <1>MuteRemoval, <1>MuteUpdate, MuteSilence DEF RemovalUpdate

\* registrarHandleASAPRegistration, registrarHandleASAPDeregistration,
\* registrarHandlePoolElementEvent, registrarHandleASAPEndpointKeepAliveAck,
\* registrarHandleASAPEndpointUnreachable
<1>PESync.
  ASSUME NEW r \in Registrar, NEW e \in PoolElement, IInv, SyncInv,
         \/ \E a \in Association : HandleASAPRegistration(r, e, a)
         \/ HandleASAPDeregistration(r, e)
         \/ HandlePoolElementEvent(r, e)
         \/ HandleASAPEndpointKeepAliveAck(r, e)
         \/ HandleASAPEndpointUnreachable(r, e)
  PROVE  SyncInv'
  <2> USE <1>PESync
  <2>0. /\ MuteOutput(HandleUpdate(r, e, r, "ADD_PE"))
        /\ MuteOutput(HandleUpdate(r, e, r, "DEL_PE"))
        /\ MuteOutput(RemovalUpdate(r, e))
    BY Zenon, <1>MuteUpdate, <1>MuteRemoval
  <2>1. UNCHANGED <<running, startup, peers>>
    BY Zenon DEF HandleASAPRegistration, HandleASAPDeregistration,
           HandlePoolElementEvent, KeepAliveTransmission, PoolElementTimeout,
           HandleASAPEndpointKeepAliveAck, HandleASAPEndpointUnreachable
  <2>2. \/ Send(r, HandleUpdate(r, e, r, "ADD_PE"))
        \/ Send(r, HandleUpdate(r, e, r, "DEL_PE"))
        \/ Send(r, RemovalUpdate(r, e))
        \/ UNCHANGED net
    BY Zenon DEF HandleASAPRegistration, HandleASAPDeregistration,
           HandlePoolElementEvent, KeepAliveTransmission, PoolElementTimeout,
           HandleASAPEndpointKeepAliveAck, HandleASAPEndpointUnreachable
  <2>3. QED
    BY Zenon, <2>0, <2>1, <2>2, <1>UpdateSync

\* registrarRemovePoolElementsOfConnection
<1>AssociationLostSync.
  ASSUME NEW r \in Registrar, NEW a \in Association, AssociationLost(r, a),
         IInv, SyncInv
  PROVE  SyncInv'
  <2> USE <1>AssociationLostSync
  <2> DEFINE own == PEsOfConnection(r, a) \cap OwnedBy(r, r)
             n == Cardinality(own)
  <2>1. PICK q \in [1 .. n -> own] :
          Send(r, [d \in Registrar |->
            IF d \in Peers(r)
              THEN [i \in 1 .. n |-> HandleUpdateMessage(q[i], r, "DEL_PE")]
              ELSE <<>>])
    BY Zenon DEF AssociationLost
  <2> DEFINE updates == [i \in 1 .. n |-> HandleUpdateMessage(q[i], r, "DEL_PE")]
             out == [d \in Registrar |-> IF d \in Peers(r) THEN updates ELSE <<>>]
  <2>2. UNCHANGED <<running, startup, peers>>
    BY DEF AssociationLost
  <2>3. n \in Nat /\ own \subseteq PoolElement
    <3>1. own \subseteq PoolElement
      BY DEF PEsOfConnection
    <3>2. QED
      BY <3>1, PoolElementAssumption
  <2> HIDE DEF n, own
  <2>4. updates \in Seq(Message)
    <3>1. \A i \in 1 .. n : HandleUpdateMessage(q[i], r, "DEL_PE") \in Message
      BY Zenon, <2>3, UpdateIsMessage
    <3>2. QED
      BY <2>3, <3>1
  <2>5. Mute(updates)
    <3>1. DOMAIN updates = 1 .. n
      OBVIOUS
    <3>2. \A i \in 1 .. n : updates[i].type = "HandleUpdate"
      BY DEF HandleUpdateMessage
    <3> HIDE DEF updates
    <3>3. QED
      BY Zenon, <3>1, <3>2, CountNone DEF Mute, TableType
  <2> HIDE DEF updates
  <2>6. MuteOutput(out)
    <3>1. <<>> \in Seq(Message)
      OBVIOUS
    <3>2. QED
      BY Zenon, <2>4, <2>5, <3>1, MuteEmpty DEF MuteOutput, Output
  <2>7. Send(r, out)
    BY <2>1 DEF updates
  <2> HIDE DEF out
  <2>8. QED
    BY ZenonT(40), <2>2, <2>6, <2>7, <1>UpdateSync
<1>1. ASSUME NEW r \in Registrar,
             Crash(r) \/ Start(r) \/ HandleENRPAnnounceTimer(r)
      PROVE  SyncInv'
  <2>1. ~Start(r)
    BY Zenon, <1>NeverSpent DEF Start, IInv
  <2>2. QED
    BY Zenon, <1>1, <2>1, <1>CrashSync, <1>AnnounceSync
<1>2. ASSUME NEW r \in Registrar, NEW s \in Registrar,
             \/ HandleMessage(r, s)
             \/ HandlePeerEvent(r, s)
             \/ LoseAssociation(r, s)
             \/ LoseMulticast(r, s)
      PROVE  SyncInv'
  <2>1. ~LoseAssociation(r, s)
    BY <1>NeverSpent DEF LoseAssociation, IInv
  <2>2. CASE LoseMulticast(r, s)
    <3>1. UNCHANGED <<running, startup, peers, net>>
      BY Zenon, <2>2 DEF LoseMulticast
    <3>2. QED
      BY Zenon, <3>1, <1>UpdateSync
  <2>3. QED
    BY ZenonT(40), <1>2, <2>1, <2>2, MessageSync, <1>PeerEventSync
<1>3. ASSUME NEW r \in Registrar, NEW e \in PoolElement,
             \/ \E a \in Association : HandleASAPRegistration(r, e, a)
             \/ HandleASAPDeregistration(r, e)
             \/ HandlePoolElementEvent(r, e)
             \/ HandleASAPEndpointKeepAliveAck(r, e)
             \/ HandleASAPEndpointUnreachable(r, e)
      PROVE  SyncInv'
  BY Zenon, <1>3, <1>PESync
<1>4. ASSUME NEW r \in Registrar, NEW a \in Association, AssociationLost(r, a)
      PROVE  SyncInv'
  BY Zenon, <1>4, <1>AssociationLostSync
<1>5. CASE UNCHANGED vars
  <2>1. UNCHANGED <<running, startup, peers, net>>
    BY Zenon, <1>5 DEF vars
  <2>2. QED
    BY ZenonT(40), <2>1, <1>SameTalk, SameEntries, MuteStep DEF IInv
<1>6. QED
  BY Zenon, <1>1, <1>2, <1>3, <1>4, <1>5 DEF Next

\* The registrars of the group know each other, and nothing is under way.
LEMMA InitSync ==
 Init => SyncInv
  <1> SUFFICES ASSUME Init PROVE SyncInv
    BY Zenon
  <1>1. running \subseteq Registrar
    BY Zenon, InitialAssumption DEF Init
  <1>2. \A r \in running : ~startup[r] /\ "HTSYNC" \notin peers[r][r].Status
    BY Zenon, <1>1 DEF Init, NoPeer
  <1>3. ASSUME NEW r \in running, NEW s \in running, r # s PROVE PairOK(r, s)
    <2>1. peers[r][s] = ConnectedPeer
      BY <1>1, <1>3 DEF Init
    <2>2. /\ ConnectedPeer.known /\ ~ConnectedPeer.TakeoverProcess
          /\ "HTSYNC" \notin ConnectedPeer.Status
      BY Zenon DEF ConnectedPeer, NewPeer, NoPeer
    <2>3. net[r][s] = <<>> /\ net[s][r] = <<>>
      BY Zenon, <1>1 DEF Init, Silence
    <2>4. /\ Pending(r, s, "HandleTableRequest") = 0
          /\ Pending(s, r, "HandleTableResponse") = 0
      <3>1. \A type : Count(<<>>, type) = 0
        BY CountNone
      <3>2. QED
        BY Zenon, <2>3, <3>1 DEF Pending, Count
    <2>5. QED
      BY <2>1, <2>2, <2>4 DEF PairOK, Talk
  <1>4. QED
    BY Zenon, <1>2, <1>3 DEF SyncInv

\* A registrar that has noted a synchronization with a peer that is up gets the
\* peer's next HandleTableResponse, whatever PEs do, whichever registrars fail and
\* are taken over, and however the Presences, requests and chunks of several
\* registrars interleave (registrarHandleENRPPresence,
\* registrarHandleENRPHandleTableRequest, registrarHandleENRPHandleTableResponse).
THEOREM SyncAlwaysUnderWay ==
  ASSUME Steady
  PROVE  Spec => []SyncUnderWay
  <1>1. Init => IInv /\ SyncInv
    BY Zenon, InitInv, InitSync
  <1>2. IInv /\ SyncInv /\ [Next]_vars => (IInv /\ SyncInv)'
    BY ZenonT(40), NextInv, NextSync
  <1>3. SyncInv => SyncUnderWay
    BY DEF SyncInv, PairOK, Talk, SyncUnderWay
  <1>4. QED
    BY <1>1, <1>2, <1>3, PTL DEF Spec

=============================================================================
