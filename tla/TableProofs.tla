----------------------------- MODULE TableProofs -----------------------------
(***************************************************************************)
(* The table of the registrars and the table of the pool users.            *)
(*                                                                         *)
(* An association that a hunt has opened is not forgotten: proved for any  *)
(* number of registrars, hunts and losses.                                 *)
(*                                                                         *)
(* The handle resolutions and failure reports of a pool user are permitted *)
(* up to the rate that is configured: proved for any pool users, hash      *)
(* values, bucket sizes and times.                                         *)
(***************************************************************************)
EXTENDS RegistrarTable, PoolUserRate, WellFoundedInduction, TLAPS

-----------------------------------------------------------------------------
(* Numbers *)

\* A set of numbers that is not empty has a smallest one: what is false of some
\* number is false of a smallest one, which is how the recursions are followed.
LEMMA SmallestNumber ==
  ASSUME NEW C, C \subseteq Nat, C # {}
  PROVE  \E n \in C : \A m \in C : n <= m
<1>1. PICK n \in C : \A m \in C : ~(<<m, n>> \in OpToRel(<, Nat))
  BY Zenon, NatLessThanWellFounded, WFMin
<1>2. \A m \in C : ~(m < n)
  BY Zenon, <1>1 DEF OpToRel
<1> QED
  BY <1>2

-----------------------------------------------------------------------------
(* The registrar table: events of the hunt socket *)

HuntEvents == [type : {"up", "cannot start", "lost", "data"}, peer : Peer]

Among(e, events) == \E i \in DOMAIN events : events[i] = e

\* Of an association, the first event is that it is up, and the last one that it is
\* lost, when they are there.
InOrder(events) ==
  \A i, j \in DOMAIN events :
    i < j /\ events[i].peer = events[j].peer =>
      events[i].type # "lost" /\ events[j].type # "up"

KeptStep(kept, events, p, n) ==
  IF n = 0 THEN <<>>
  ELSE IF events[n].peer = p THEN kept[n - 1]
  ELSE Append(kept[n - 1], events[n])

\* The first n events are taken or left, one after the other.
Taking(kept, events, p, n) == kept = [k \in 0 .. n |-> KeptStep(kept, events, p, k)]

Kept(events, p) == CHOOSE kept : Taking(kept, events, p, Len(events))

LEMMA WithoutIsKept ==
  ASSUME NEW events, NEW p
  PROVE  EventsWithout(events, p) = Kept(events, p)[Len(events)]
  BY DEF EventsWithout, Kept, Taking, KeptStep

LEMMA TakingUpTo ==
  ASSUME NEW events, NEW p, NEW n \in Nat
  PROVE  \E kept : Taking(kept, events, p, n)
<1> DEFINE Good(k) == \E kept : Taking(kept, events, p, k)
           C == {k \in Nat : ~Good(k)}
<1> SUFFICES ASSUME C # {} PROVE FALSE
  OBVIOUS
<1>1. PICK k \in C : \A m \in C : k <= m
  BY Zenon, SmallestNumber
<1>2. CASE k = 0
  <2> DEFINE g == [i \in 0 .. 0 |-> <<>>]
  <2>1. g = [i \in 0 .. 0 |-> KeptStep(g, events, p, i)]
    BY DEF KeptStep
  <2> QED
    BY <1>1, <1>2, <2>1 DEF Taking
<1>3. CASE k # 0
  <2>1. k - 1 \in Nat /\ Good(k - 1)
    BY <1>1, <1>3
  <2>2. PICK g : g = [i \in 0 .. k - 1 |-> KeptStep(g, events, p, i)]
    BY <2>1 DEF Taking
  <2> DEFINE h == [i \in 0 .. k |-> IF i = k THEN KeptStep(g, events, p, k) ELSE g[i]]
  <2>3. \A i \in 0 .. k : h[i] = KeptStep(g, events, p, i)
    BY <2>1, <2>2
  <2>4. \A i \in 0 .. k : i # 0 => i - 1 \in 0 .. k - 1 /\ h[i - 1] = g[i - 1]
    BY <2>1
  <2>5. \A i \in 0 .. k : KeptStep(g, events, p, i) = KeptStep(h, events, p, i)
    BY <2>4 DEF KeptStep
  <2>6. h = [i \in 0 .. k |-> KeptStep(h, events, p, i)]
    BY <2>3, <2>5
  <2> QED
    BY Zenon, <1>1, <2>6 DEF Taking
<1> QED
  BY <1>2, <1>3

\* What is left without the events of one association are the events of the other
\* ones, in the order in which they were.
LEMMA WithoutIs ==
  ASSUME NEW events \in Seq(HuntEvents), InOrder(events), NEW p
  PROVE  /\ EventsWithout(events, p) \in Seq(HuntEvents)
         /\ InOrder(EventsWithout(events, p))
         /\ \A e : Among(e, EventsWithout(events, p)) <=> Among(e, events) /\ e.peer # p
<1> DEFINE f == Kept(events, p)
           Right(n) == /\ f[n] \in Seq(HuntEvents)
                       /\ InOrder(f[n])
                       /\ \A e : Among(e, f[n]) <=> \E i \in 1 .. n : e = events[i] /\ e.peer # p
           C == {n \in 0 .. Len(events) : ~Right(n)}
<1>1. Len(events) \in Nat /\ DOMAIN events = 1 .. Len(events)
  OBVIOUS
<1>2. f = [k \in 0 .. Len(events) |-> KeptStep(f, events, p, k)]
  <2>1. \E kept : Taking(kept, events, p, Len(events))
    BY <1>1, TakingUpTo
  <2> QED
    BY Zenon, <2>1 DEF Kept, Taking
<1> HIDE DEF f
<1>3. \A k \in 0 .. Len(events) : f[k] = KeptStep(f, events, p, k)
  BY <1>2
<1>4. C = {}
  <2> SUFFICES ASSUME C # {} PROVE FALSE
    BY Zenon
  <2> HIDE DEF Right
  <2>0. C \subseteq Nat
    BY <1>1
  <2>1. PICK n \in C : \A m \in C : n <= m
    BY Zenon, <2>0, SmallestNumber
  <2>2. n \in 0 .. Len(events) /\ ~Right(n)
    BY <2>1
  <2>3. CASE n = 0
    <3>1. f[0] = <<>>
      BY <1>1, <1>3 DEF KeptStep
    <3> QED
      BY <2>2, <2>3, <3>1 DEF InOrder, Among, Right
  <2>4. CASE n # 0
    <3> DEFINE s == f[n - 1]
               v == events[n]
    <3>1. n - 1 \in 0 .. Len(events) /\ n \in 1 .. Len(events) /\ n \in Nat /\ n - 1 \in Nat
      BY <1>1, <2>2, <2>4
    <3>2. Right(n - 1)
      BY <2>1, <3>1
    <3> USE DEF Right
    <3>3. f[n] = IF v.peer = p THEN s ELSE Append(s, v)
      BY Zenon, <1>3, <2>2, <2>4 DEF KeptStep
    <3>4. v \in HuntEvents
      BY <3>1
    <3>5. s \in Seq(HuntEvents) /\ InOrder(s)
      BY <3>2
    <3>6. \A e : Among(e, s) <=> \E i \in 1 .. n - 1 : e = events[i] /\ e.peer # p
      BY <3>2
    <3>7. CASE v.peer = p
      <4>1. \A e : (\E i \in 1 .. n : e = events[i] /\ e.peer # p)
                     <=> (\E i \in 1 .. n - 1 : e = events[i] /\ e.peer # p)
        BY <3>1, <3>7
      <4> HIDE DEF s, v
      <4>2. f[n] = s
        BY <3>3, <3>7
      <4> QED
        BY <2>2, <3>5, <3>6, <4>1, <4>2
    <3>8. CASE v.peer # p
      <4> HIDE DEF s
      <4>1. \A e : (\E i \in 1 .. n : e = events[i] /\ e.peer # p)
                     <=> e = v \/ (\E i \in 1 .. n - 1 : e = events[i] /\ e.peer # p)
        BY <3>1, <3>8
      <4> DEFINE t == Append(s, v)
      <4>2. f[n] = t
        BY <3>3, <3>8
      <4>a. \A i \in 1 .. n - 1 : i \in DOMAIN events /\ n \in DOMAIN events /\ i < n
        BY <1>1, <3>1
      <4>b. \A i \in DOMAIN s : s[i].peer = v.peer => s[i].type # "lost" /\ v.type # "up"
        <5> TAKE i \in DOMAIN s
        <5>1. PICK k \in 1 .. n - 1 : s[i] = events[k]
          BY Zenon, <3>6 DEF Among
        <5> QED
          BY <4>a, <5>1 DEF InOrder
      <4> HIDE DEF v
      <4>3. t \in Seq(HuntEvents) /\ DOMAIN t = DOMAIN s \cup {Len(s) + 1}
            /\ t[Len(s) + 1] = v /\ (\A i \in DOMAIN s : t[i] = s[i] /\ i \in Nat /\ i <= Len(s)) /\ Len(s) \in Nat
        BY <3>4, <3>5
      <4> HIDE DEF t
      <4>4. \A e : Among(e, t) <=> Among(e, s) \/ e = v
        BY <4>3 DEF Among
      <4>5. InOrder(t)
        <5> SUFFICES ASSUME NEW i \in DOMAIN t, NEW j \in DOMAIN t, i < j, t[i].peer = t[j].peer
                     PROVE  t[i].type # "lost" /\ t[j].type # "up"
          BY DEF InOrder
        <5>1. i \in DOMAIN s
          BY <4>3
        <5>2. CASE j \in DOMAIN s
          BY <3>5, <4>3, <5>1, <5>2 DEF InOrder
        <5>3. CASE j = Len(s) + 1
          BY Zenon, <4>3, <4>b, <5>1, <5>3
        <5> QED
          BY <4>3, <5>2, <5>3
      <4> QED
        BY <2>2, <3>6, <4>1, <4>2, <4>3, <4>4, <4>5
    <3> QED
      BY <3>7, <3>8
  <2> QED
    BY <2>3, <2>4
<1>5. Right(Len(events))
  <2> HIDE DEF Right
  <2> QED
    BY <1>1, <1>4
<1>6. EventsWithout(events, p) = f[Len(events)]
  BY WithoutIsKept DEF f
<1>7. \A e : (\E i \in 1 .. Len(events) : e = events[i] /\ e.peer # p) <=> Among(e, events) /\ e.peer # p
  BY <1>1 DEF Among
<1> QED
  BY <1>5, <1>6, <1>7

-----------------------------------------------------------------------------
(* The registrar table: associations *)

EventOf(type, p) == [type |-> type, peer |-> p]

\* What the list, the states of the associations, the connection and the unread
\* events have to do with each other.
Sound(list, states, c, events) ==
  /\ list \subseteq Peer
  /\ states \in [Peer -> {"none", "connecting", "up", "peeled off"}]
  /\ c \in Peer \cup {0}
  /\ events \in Seq(HuntEvents) /\ InOrder(events)
  /\ \A i \in DOMAIN events : events[i].peer # c
  /\ \A p \in Peer :
       /\ states[p] = "peeled off" <=> c = p
       /\ states[p] = "up" => p \in list \/ Among(EventOf("up", p), events)
       /\ p \in list => states[p] = "up" \/ Among(EventOf("lost", p), events)
       /\ Among(EventOf("up", p), events) =>
            states[p] = "up" \/ Among(EventOf("lost", p), events)
       /\ Among(EventOf("lost", p), events) => states[p] \in {"none", "connecting"}

\* And a hunt goes on only as long as there is no connection.
TableInv ==
  /\ Sound(assocIDList, assoc, connection, huntSocket)
  /\ hunt # "idle" => connection = 0

LEMMA SoundAssociationsKept == TableInv => AssociationsKept
<1>1. \A type, p : Pending(type, p) <=> Among(EventOf(type, p), huntSocket)
  BY DEF Pending, Among, EventOf
<1> QED
  BY Zenon, <1>1 DEF TableInv, Sound, AssociationsKept

\* An event of a queue, and one that comes behind them.
LEMMA EventType ==
  ASSUME NEW events \in Seq(HuntEvents), NEW i \in DOMAIN events
  PROVE  events[i] \in HuntEvents
  OBVIOUS

LEMMA AppendEvent ==
  ASSUME NEW events \in Seq(HuntEvents), NEW v \in HuntEvents
  PROVE  /\ Append(events, v) \in Seq(HuntEvents)
         /\ DOMAIN Append(events, v) = DOMAIN events \cup {Len(events) + 1}
         /\ Append(events, v)[Len(events) + 1] = v
         /\ Len(events) \in Nat
         /\ \A i \in DOMAIN events : Append(events, v)[i] = events[i] /\ i \in Nat /\ i <= Len(events)
  OBVIOUS

\* The head of a queue and the rest of it.
LEMMA HeadAndTail ==
  ASSUME NEW events \in Seq(HuntEvents), events # <<>>, InOrder(events)
  PROVE  /\ Head(events) \in HuntEvents /\ Tail(events) \in Seq(HuntEvents)
         /\ InOrder(Tail(events))
         /\ \A e : Among(e, events) <=> e = Head(events) \/ Among(e, Tail(events))
         /\ \A e : Among(e, Tail(events)) /\ e.peer = Head(events).peer =>
              e.type # "up" /\ Head(events).type # "lost"
<1> DEFINE t == Tail(events)
<1>1. /\ Head(events) = events[1] /\ Head(events) \in HuntEvents /\ t \in Seq(HuntEvents)
      /\ Len(events) \in Nat \ {0} /\ Len(t) = Len(events) - 1
      /\ DOMAIN events = 1 .. Len(events) /\ DOMAIN t = 1 .. Len(t)
      /\ \A i \in DOMAIN t : t[i] = events[i + 1]
  OBVIOUS
<1> HIDE DEF t
<1>2. /\ \A i \in DOMAIN t : i + 1 \in DOMAIN events /\ i + 1 > 1
      /\ \A i \in DOMAIN events : i = 1 \/ i - 1 \in DOMAIN t
      /\ 1 \in DOMAIN events
      /\ \A i, j \in DOMAIN t : i < j => i + 1 < j + 1
      /\ \A i \in DOMAIN events : (i - 1) + 1 = i
  BY <1>1
<1>3. InOrder(t)
  BY <1>1, <1>2 DEF InOrder
<1>4. \A e : Among(e, events) <=> e = Head(events) \/ Among(e, t)
  <2> TAKE e
  <2>1. ASSUME Among(e, events) PROVE e = Head(events) \/ Among(e, t)
    <3>1. PICK i \in DOMAIN events : events[i] = e
      BY <2>1 DEF Among
    <3>2. CASE i = 1
      BY <1>1, <3>1, <3>2
    <3>3. CASE i - 1 \in DOMAIN t
      <4>1. t[i - 1] = e
        BY <1>1, <1>2, <3>1, <3>3
      <4> QED
        BY <3>3, <4>1 DEF Among
    <3> QED
      BY <1>2, <3>2, <3>3
  <2>2. ASSUME Among(e, t) PROVE Among(e, events)
    BY <1>1, <1>2, <2>2 DEF Among
  <2>3. ASSUME e = Head(events) PROVE Among(e, events)
    BY <1>1, <1>2, <2>3 DEF Among
  <2> QED
    BY <2>1, <2>2, <2>3
<1>5. \A e : Among(e, t) /\ e.peer = Head(events).peer =>
        e.type # "up" /\ Head(events).type # "lost"
  <2> SUFFICES ASSUME NEW e, Among(e, t), e.peer = Head(events).peer
               PROVE  e.type # "up" /\ Head(events).type # "lost"
    OBVIOUS
  <2>1. PICK i \in DOMAIN t : t[i] = e
    BY DEF Among
  <2>2. i + 1 \in DOMAIN events /\ 1 < i + 1 /\ events[i + 1] = e /\ 1 \in DOMAIN events
    BY <1>1, <1>2, <2>1
  <2> QED
    BY <1>1, <2>2 DEF InOrder
<1> QED
  BY <1>1, <1>3, <1>4, <1>5 DEF t

\* The next event is read: an association that is up comes into the list, one that
\* is lost is removed.
LEMMA ReadSound ==
  ASSUME NEW list, NEW states, NEW c, NEW events, Sound(list, states, c, events),
         events # <<>>
  PROVE  /\ Head(events) \in HuntEvents
         /\ Sound(CASE Head(events).type = "up" -> list \cup {Head(events).peer}
                    [] Head(events).type = "lost" -> list \ {Head(events).peer}
                    [] OTHER -> list,
                  states, c, Tail(events))
<1> DEFINE e == Head(events)
           t == Tail(events)
<1>1. events \in Seq(HuntEvents) /\ InOrder(events)
  BY Zenon DEF Sound
<1>2. e \in HuntEvents /\ t \in Seq(HuntEvents) /\ InOrder(t)
  BY <1>1, HeadAndTail
<1>3. \A x : Among(x, events) <=> x = e \/ Among(x, t)
  BY <1>1, HeadAndTail
<1>4. \A x : Among(x, t) /\ x.peer = e.peer => x.type # "up" /\ e.type # "lost"
  BY <1>1, HeadAndTail
<1> DEFINE new == CASE e.type = "up" -> list \cup {e.peer}
                    [] e.type = "lost" -> list \ {e.peer}
                    [] OTHER -> list
<1>5. /\ new \subseteq Peer
      /\ \A p \in Peer : p # e.peer => (p \in new <=> p \in list)
      /\ e.type = "up" => e.peer \in new
      /\ e.type = "lost" => e.peer \notin new
      /\ e.type \notin {"up", "lost"} => new = list
  BY Zenon, <1>2 DEF Sound, HuntEvents
<1>6. e.peer \in Peer /\ e.peer # 0 /\ e = EventOf(e.type, e.peer)
  BY Zenon, <1>2, RegistrarTableAssumption DEF HuntEvents, EventOf
<1> HIDE DEF e, t, new
<1>7. \A i \in DOMAIN t : t[i].peer # c
  <2>1. \A x : Among(x, events) => x.peer # c
    BY Zenon DEF Among, Sound
  <2> QED
    BY <1>3, <2>1 DEF Among
<1>8. ASSUME NEW p \in Peer
      PROVE  /\ states[p] = "peeled off" <=> c = p
             /\ states[p] = "up" => p \in new \/ Among(EventOf("up", p), t)
             /\ p \in new => states[p] = "up" \/ Among(EventOf("lost", p), t)
             /\ Among(EventOf("up", p), t) => states[p] = "up" \/ Among(EventOf("lost", p), t)
             /\ Among(EventOf("lost", p), t) => states[p] \in {"none", "connecting"}
  <2>0. /\ states[p] = "peeled off" <=> c = p
        /\ states[p] = "up" => p \in list \/ Among(EventOf("up", p), events)
        /\ p \in list => states[p] = "up" \/ Among(EventOf("lost", p), events)
        /\ Among(EventOf("up", p), events) => states[p] = "up" \/ Among(EventOf("lost", p), events)
        /\ Among(EventOf("lost", p), events) => states[p] \in {"none", "connecting"}
    BY Zenon DEF Sound
  <2>1. /\ EventOf("up", p).type = "up" /\ EventOf("up", p).peer = p
        /\ EventOf("lost", p).type = "lost" /\ EventOf("lost", p).peer = p
    BY DEF EventOf
  <2>2. CASE p # e.peer
    BY Zenon, <1>3, <1>5, <2>0, <2>1, <2>2
  <2>3. CASE p = e.peer /\ e.type = "up"
    <3>1. e = EventOf("up", p) /\ EventOf("lost", p) # e
      BY Zenon, <1>6, <2>1, <2>3
    <3> QED
      BY Zenon, <1>3, <1>5, <2>0, <2>3, <3>1
  <2>4. CASE p = e.peer /\ e.type = "lost"
    <3>1. e = EventOf("lost", p)
      BY <1>6, <2>4
    <3>2. ~Among(EventOf("up", p), t) /\ ~Among(EventOf("lost", p), t)
      BY Zenon, <1>4, <2>1, <2>4
    <3> QED
      BY Zenon, <1>3, <1>5, <2>0, <2>4, <3>1, <3>2
  <2>5. CASE p = e.peer /\ e.type \notin {"up", "lost"}
    BY Zenon, <1>3, <1>5, <2>0, <2>1, <2>5
  <2> QED
    BY Zenon, <2>2, <2>3, <2>4, <2>5
<1>9. Sound(new, states, c, t)
  BY Zenon, <1>2, <1>5, <1>7, <1>8 DEF Sound
<1> QED
  BY <1>2, <1>9 DEF e, t, new

\* An association is taken from the list: it becomes the connection, or is broken.
LEMMA PeelSound ==
  ASSUME NEW list, NEW states, NEW events, Sound(list, states, 0, events),
         NEW p \in Peer, NEW c, NEW after,
         IF states[p] = "up" THEN c = p /\ after = [states EXCEPT ![p] = "peeled off"]
                             ELSE c = 0 /\ after = states
  PROVE  Sound(list \ {p}, after, c, EventsWithout(events, c))
<1> DEFINE w == EventsWithout(events, c)
<1>1. /\ w \in Seq(HuntEvents) /\ InOrder(w)
      /\ \A e : Among(e, w) <=> Among(e, events) /\ e.peer # c
  BY Zenon, WithoutIs DEF Sound
<1>2. \A q \in Peer, type \in {"up", "lost"} : EventOf(type, q).peer = q /\ q # 0
  BY Zenon, RegistrarTableAssumption DEF EventOf
<1> HIDE DEF w
<1>3. \A i \in DOMAIN w : w[i].peer # c
  BY Zenon, <1>1 DEF Among
<1>4. \A q \in Peer, type \in {"up", "lost"} : q # c =>
        (Among(EventOf(type, q), w) <=> Among(EventOf(type, q), events))
  BY Zenon, <1>1, <1>2
<1>5. \A q \in Peer, type \in {"up", "lost"} : q = c => ~Among(EventOf(type, q), w)
  BY Zenon, <1>1, <1>2
<1>6. /\ list \subseteq Peer
      /\ states \in [Peer -> {"none", "connecting", "up", "peeled off"}]
      /\ \A q \in Peer :
           /\ states[q] # "peeled off"
           /\ states[q] = "up" => q \in list \/ Among(EventOf("up", q), events)
           /\ q \in list => states[q] = "up" \/ Among(EventOf("lost", q), events)
           /\ Among(EventOf("up", q), events) => states[q] = "up" \/ Among(EventOf("lost", q), events)
           /\ Among(EventOf("lost", q), events) => states[q] \in {"none", "connecting"}
  BY Zenon, <1>2 DEF Sound
<1>7. /\ c \in Peer \cup {0}
      /\ after \in [Peer -> {"none", "connecting", "up", "peeled off"}]
      /\ \A q \in Peer : after[q] = IF q = c THEN "peeled off" ELSE states[q]
      /\ c = p \/ (c = 0 /\ states[p] # "up")
  <2>1. p # 0 /\ 0 \notin Peer /\ states \in [Peer -> {"none", "connecting", "up", "peeled off"}]
    BY Zenon, <1>2, <1>6
  <2>2. CASE states[p] = "up"
    <3>1. c = p /\ after = [states EXCEPT ![p] = "peeled off"]
      BY Zenon, <2>2
    <3> QED
      BY Zenon, <2>1, <3>1
  <2>3. CASE states[p] # "up"
    <3>1. c = 0 /\ after = states
      BY Zenon, <2>3
    <3> QED
      BY Zenon, <2>1, <2>3, <3>1
  <2> QED
    BY Zenon, <2>2, <2>3
<1>8. ASSUME NEW q \in Peer
      PROVE  /\ after[q] = "peeled off" <=> c = q
             /\ after[q] = "up" => q \in list \ {p} \/ Among(EventOf("up", q), w)
             /\ q \in list \ {p} => after[q] = "up" \/ Among(EventOf("lost", q), w)
             /\ Among(EventOf("up", q), w) => after[q] = "up" \/ Among(EventOf("lost", q), w)
             /\ Among(EventOf("lost", q), w) => after[q] \in {"none", "connecting"}
  <2>1. CASE q = c
    BY Zenon, <1>2, <1>5, <1>7, <2>1
  <2>2. CASE q # c
    BY Zenon, <1>4, <1>6, <1>7, <2>2
  <2> QED
    BY Zenon, <2>1, <2>2
<1>9. Sound(list \ {p}, after, c, w)
  BY Zenon, <1>1, <1>3, <1>6, <1>7, <1>8 DEF Sound
<1> QED
  BY Zenon, <1>9 DEF w

\* The connection ends.
LEMMA DisconnectSound ==
  ASSUME NEW list, NEW states, NEW c \in Peer, NEW events, Sound(list, states, c, events)
  PROVE  Sound(list, [states EXCEPT ![c] = "none"], 0, events)
<1> DEFINE after == [states EXCEPT ![c] = "none"]
<1>1. /\ states \in [Peer -> {"none", "connecting", "up", "peeled off"}]
      /\ events \in Seq(HuntEvents)
      /\ \A i \in DOMAIN events : events[i].peer # c
  BY Zenon DEF Sound
<1>2. \A q \in Peer : after[q] = IF q = c THEN "none" ELSE states[q]
  BY Zenon, <1>1
<1>3. after \in [Peer -> {"none", "connecting", "up", "peeled off"}]
  BY Zenon, <1>1
<1>4. \A q \in Peer : q # 0 /\ \A type : EventOf(type, q).peer = q
  BY Zenon, RegistrarTableAssumption DEF EventOf
<1>5. \A type : ~Among(EventOf(type, c), events)
  BY Zenon, <1>1, <1>4 DEF Among
<1>6. \A i \in DOMAIN events : events[i].peer # 0
  <2> TAKE i \in DOMAIN events
  <2>1. events[i] \in HuntEvents
    BY Zenon, <1>1, EventType
  <2> QED
    BY Zenon, <2>1, RegistrarTableAssumption DEF HuntEvents
<1> HIDE DEF after
<1>7. ASSUME NEW q \in Peer
      PROVE  /\ after[q] = "peeled off" <=> 0 = q
             /\ after[q] = "up" => q \in list \/ Among(EventOf("up", q), events)
             /\ q \in list => after[q] = "up" \/ Among(EventOf("lost", q), events)
             /\ Among(EventOf("up", q), events) => after[q] = "up" \/ Among(EventOf("lost", q), events)
             /\ Among(EventOf("lost", q), events) => after[q] \in {"none", "connecting"}
  <2>0. /\ states[q] = "peeled off" <=> c = q
        /\ states[q] = "up" => q \in list \/ Among(EventOf("up", q), events)
        /\ q \in list => states[q] = "up" \/ Among(EventOf("lost", q), events)
        /\ Among(EventOf("up", q), events) => states[q] = "up" \/ Among(EventOf("lost", q), events)
        /\ Among(EventOf("lost", q), events) => states[q] \in {"none", "connecting"}
    BY Zenon DEF Sound
  <2>1. CASE q = c
    BY Zenon, <1>2, <1>4, <1>5, <2>0, <2>1
  <2>2. CASE q # c
    BY Zenon, <1>2, <1>4, <2>0, <2>2
  <2> QED
    BY Zenon, <2>1, <2>2
<1>8. Sound(list, after, 0, events)
  BY Zenon, <1>3, <1>6, <1>7 DEF Sound
<1> QED
  BY <1>8 DEF after

\* What may happen to the association with p: it comes up or fails, after all its
\* events have been read; or it was up.
Notice(type, p, states, after, events) ==
  \/ /\ type = "up" /\ states[p] = "connecting" /\ after = [states EXCEPT ![p] = "up"]
     /\ \A i \in DOMAIN events : events[i].peer # p
  \/ /\ type = "cannot start" /\ states[p] = "connecting"
     /\ after = [states EXCEPT ![p] = "none"]
     /\ \A i \in DOMAIN events : events[i].peer # p
  \/ type = "lost" /\ states[p] = "up" /\ after = [states EXCEPT ![p] = "none"]
  \/ type = "data" /\ states[p] = "up" /\ after = states

\* Its event comes to the socket, behind those that are there.
LEMMA NoticeSound ==
  ASSUME NEW list, NEW states, NEW c, NEW events, Sound(list, states, c, events),
         NEW p \in Peer, NEW type, NEW after, Notice(type, p, states, after, events)
  PROVE  Sound(list, after, c, Append(events, EventOf(type, p)))
<1> DEFINE v == EventOf(type, p)
           t == Append(events, v)
<1>1. v \in HuntEvents /\ v.type = type /\ v.peer = p
  BY Zenon DEF EventOf, HuntEvents, Notice
<1>2. events \in Seq(HuntEvents) /\ InOrder(events) /\ \A i \in DOMAIN events : events[i].peer # c
  BY Zenon DEF Sound
<1>3. \A q \in Peer, y \in {"up", "lost"} : EventOf(y, q).peer = q /\ EventOf(y, q).type = y
  BY DEF EventOf
<1>0. \A y \in {"up", "lost"} : v = EventOf(y, p) <=> y = type
  BY Zenon DEF EventOf
<1> HIDE DEF v
<1>4. t \in Seq(HuntEvents) /\ DOMAIN t = DOMAIN events \cup {Len(events) + 1}
      /\ t[Len(events) + 1] = v /\ Len(events) \in Nat
      /\ \A i \in DOMAIN events : t[i] = events[i] /\ i \in Nat /\ i <= Len(events)
  BY Zenon, <1>1, <1>2, AppendEvent
<1> HIDE DEF t
<1>5. \A e : Among(e, t) <=> Among(e, events) \/ e = v
  BY Zenon, <1>4 DEF Among
<1>6. /\ list \subseteq Peer
      /\ states \in [Peer -> {"none", "connecting", "up", "peeled off"}]
      /\ c \in Peer \cup {0}
      /\ \A q \in Peer :
           /\ states[q] = "peeled off" <=> c = q
           /\ states[q] = "up" => q \in list \/ Among(EventOf("up", q), events)
           /\ q \in list => states[q] = "up" \/ Among(EventOf("lost", q), events)
           /\ Among(EventOf("up", q), events) => states[q] = "up" \/ Among(EventOf("lost", q), events)
           /\ Among(EventOf("lost", q), events) => states[q] \in {"none", "connecting"}
  BY Zenon DEF Sound
<1>7. /\ after \in [Peer -> {"none", "connecting", "up", "peeled off"}]
      /\ \A q \in Peer : q # p => after[q] = states[q]
      /\ after[p] = IF type = "up" THEN "up" ELSE IF type = "data" THEN "up" ELSE "none"
      /\ states[p] \in {"connecting", "up"} /\ p # c
  BY Zenon, <1>6 DEF Notice
<1>8. \A i \in DOMAIN t : t[i].peer # c
  BY Zenon, <1>1, <1>2, <1>4, <1>7
<1>9. \A i \in DOMAIN events : events[i].peer = p => events[i].type # "lost" /\ type # "up"
  <2> TAKE i \in DOMAIN events
  <2> SUFFICES ASSUME events[i].peer = p PROVE events[i].type # "lost" /\ type # "up"
    OBVIOUS
  <2>1. states[p] = "up" /\ type # "up"
    BY Zenon DEF Notice
  <2>2. ASSUME events[i].type = "lost" PROVE FALSE
    <3>1. events[i] = EventOf("lost", p)
      <4>1. events[i] \in HuntEvents
        BY Zenon, <1>2, EventType
      <4> QED
        BY Zenon, <2>2, <4>1 DEF HuntEvents, EventOf
    <3> QED
      BY Zenon, <1>6, <2>1, <3>1 DEF Among
  <2> QED
    BY <2>1, <2>2
<1>10. InOrder(t)
  <2> SUFFICES ASSUME NEW i \in DOMAIN t, NEW j \in DOMAIN t, i < j, t[i].peer = t[j].peer
               PROVE  t[i].type # "lost" /\ t[j].type # "up"
    BY DEF InOrder
  <2>1. i \in DOMAIN events
    <3>1. i \in Nat /\ j \in Nat /\ j <= Len(events) + 1
      BY <1>4
    <3> QED
      BY <1>4, <3>1
  <2>2. CASE j \in DOMAIN events
    BY Zenon, <1>2, <1>4, <2>1, <2>2 DEF InOrder
  <2>3. CASE j = Len(events) + 1
    BY Zenon, <1>1, <1>4, <1>9, <2>1, <2>3
  <2> QED
    BY Zenon, <1>4, <2>2, <2>3
<1>11. ASSUME NEW q \in Peer
       PROVE  /\ after[q] = "peeled off" <=> c = q
              /\ after[q] = "up" => q \in list \/ Among(EventOf("up", q), t)
              /\ q \in list => after[q] = "up" \/ Among(EventOf("lost", q), t)
              /\ Among(EventOf("up", q), t) => after[q] = "up" \/ Among(EventOf("lost", q), t)
              /\ Among(EventOf("lost", q), t) => after[q] \in {"none", "connecting"}
  <2>1. CASE q # p
    <3>1. \A y \in {"up", "lost"} : EventOf(y, q) # v
      BY <1>1, <1>3, <2>1
    <3>2. \A y \in {"up", "lost"} : Among(EventOf(y, q), t) <=> Among(EventOf(y, q), events)
      BY <1>5, <3>1
    <3> QED
      BY Zenon, <1>6, <1>7, <2>1, <3>2
  <2>2. CASE q = p /\ type \in {"up", "cannot start"}
    <3>1. \A y \in {"up", "lost"} : ~Among(EventOf(y, p), events)
      <4>1. \A i \in DOMAIN events : events[i].peer # p
        BY Zenon, <2>2 DEF Notice
      <4> QED
        BY <1>3, <4>1 DEF Among
    <3>2. p \notin list /\ states[p] = "connecting"
      BY Zenon, <1>6, <2>2, <3>1 DEF Notice
    <3>3. \A y \in {"up", "lost"} : Among(EventOf(y, p), t) <=> y = type
      BY Zenon, <1>5, <1>0, <3>1
    <3> QED
      BY Zenon, <1>7, <2>2, <3>2, <3>3
  <2>3. CASE q = p /\ type \in {"lost", "data"}
    <3>1. \A y \in {"up", "lost"} : Among(EventOf(y, p), t) <=> y = type \/ Among(EventOf(y, p), events)
      BY <1>5, <1>0
    <3>2. states[p] = "up"
      BY Zenon, <2>3 DEF Notice
    <3> QED
      BY Zenon, <1>6, <1>7, <2>3, <3>1, <3>2
  <2>4. type \in {"up", "cannot start", "lost", "data"}
    BY Zenon DEF Notice
  <2> QED
    BY Zenon, <2>1, <2>2, <2>3, <2>4
<1>12. Sound(list, after, c, t)
  BY Zenon, <1>4, <1>6, <1>7, <1>8, <1>10, <1>11 DEF Sound
<1> QED
  BY <1>12 DEF t, v

-----------------------------------------------------------------------------
(* The registrar table: its steps *)

LEMMA TableInitInv == TableInit => TableInv
<1> SUFFICES ASSUME TableInit PROVE TableInv
  OBVIOUS
<1>1. \A e : ~Among(e, huntSocket)
  BY DEF TableInit, Among
<1>2. huntSocket \in Seq(HuntEvents) /\ InOrder(huntSocket) /\ DOMAIN huntSocket = {}
  BY DEF TableInit, InOrder
<1>3. \A p \in Peer : p # 0 /\ assoc[p] = "none"
  BY RegistrarTableAssumption DEF TableInit
<1> QED
  BY <1>1, <1>2, <1>3 DEF TableInit, TableInv, Sound

\* The network.
LEMMA NetworkInv ==
  ASSUME TableInv, NEW p \in Peer,
         AssociationUp(p) \/ CannotStart(p) \/ AssociationLost(p) \/ DataOnHuntSocket(p)
  PROVE  TableInv'
<1>1. UNCHANGED <<assocIDList, connection, hunt>>
  BY Zenon DEF AssociationUp, CannotStart, AssociationLost, DataOnHuntSocket, huntVars
<1>2. \E type : /\ Notice(type, p, assoc, assoc', huntSocket)
                /\ huntSocket' = Append(huntSocket, EventOf(type, p))
  BY Zenon DEF AssociationUp, CannotStart, AssociationLost, DataOnHuntSocket, Notice,
               Quiet, NoticeOf, EventOf
<1>3. Sound(assocIDList, assoc', connection, huntSocket')
  BY <1>2, NoticeSound DEF TableInv
<1> QED
  BY <1>1, <1>3 DEF TableInv

\* asapInstanceDisconnectFromRegistrar.
LEMMA TableDisconnectInv ==
  ASSUME TableInv, TableDisconnect
  PROVE  TableInv'
<1>1. /\ connection \in Peer /\ connection' = 0
      /\ assoc' = [assoc EXCEPT ![connection] = "none"]
      /\ UNCHANGED <<assocIDList, huntSocket, hunt>>
  BY Zenon DEF TableInv, Sound, TableDisconnect, huntVars
<1>2. Sound(assocIDList, assoc', 0, huntSocket)
  BY Zenon, <1>1, DisconnectSound DEF TableInv
<1> QED
  BY Zenon, <1>1, <1>2 DEF TableInv

\* registrarTablePeelOffRegistrarAssocID, selectRegistrar: during a hunt.
LEMMA SelectSound ==
  ASSUME NEW list, NEW events, Sound(list, assoc, 0, events), connection = 0,
         \/ \E p \in Peer : PeelOff(p, list)
         \/ SelectRegistrar(list)
  PROVE  Sound(assocIDList', assoc', connection', Unread(events))
<1>1. CASE \E p \in Peer : PeelOff(p, list)
  <2>1. PICK p \in Peer : PeelOff(p, list)
    BY <1>1
  <2>2. /\ assocIDList' = list \ {p}
        /\ IF assoc[p] = "up"
             THEN connection' = p /\ assoc' = [assoc EXCEPT ![p] = "peeled off"]
             ELSE connection' = 0 /\ assoc' = assoc
    BY Zenon, <2>1 DEF PeelOff
  <2>3. Sound(list \ {p}, assoc', connection', EventsWithout(events, connection'))
    BY Zenon, <2>2, PeelSound
  <2> QED
    BY Zenon, <2>2, <2>3 DEF Unread
<1>2. CASE SelectRegistrar(list)
  <2>1. CASE list = {}
    <3>1. assocIDList' = list /\ connection' = 0 /\ assoc' = assoc
      BY Zenon, <1>2, <2>1 DEF SelectRegistrar
    <3>2. /\ EventsWithout(events, 0) \in Seq(HuntEvents) /\ InOrder(EventsWithout(events, 0))
          /\ \A e : Among(e, EventsWithout(events, 0)) <=> Among(e, events) /\ e.peer # 0
      BY Zenon, WithoutIs DEF Sound
    <3>3. \A type \in {"up", "lost"}, q \in Peer :
            Among(EventOf(type, q), EventsWithout(events, 0)) <=> Among(EventOf(type, q), events)
      <4>1. \A type \in {"up", "lost"}, q \in Peer : EventOf(type, q).peer # 0
        BY Zenon, RegistrarTableAssumption DEF EventOf
      <4> QED
        BY <3>2, <4>1
    <3>4. \A i \in DOMAIN EventsWithout(events, 0) : EventsWithout(events, 0)[i].peer # 0
      BY Zenon, <3>2 DEF Among
    <3>5. Sound(list, assoc, 0, EventsWithout(events, 0))
      BY Zenon, <3>2, <3>3, <3>4 DEF Sound
    <3> QED
      BY <3>1, <3>5 DEF Unread
  <2>2. CASE list # {}
    <3>1. \E p \in list : PeelOff(p, list)
      BY Zenon, <1>2, <2>2 DEF SelectRegistrar
    <3>2. list \subseteq Peer
      BY Zenon DEF Sound
    <3> QED
      BY <1>1, <3>1, <3>2
  <2> QED
    BY <2>1, <2>2
<1> QED
  BY <1>1, <1>2

\* registrarTableGetRegistrar begins.
LEMMA GetRegistrarInv ==
  ASSUME TableInv, GetRegistrar
  PROVE  TableInv'
<1>1. connection = 0 /\ SelectRegistrar(assocIDList) /\ huntSocket' = Unread(huntSocket)
  BY DEF GetRegistrar
<1>2. Sound(assocIDList, assoc, 0, huntSocket)
  BY <1>1 DEF TableInv
<1>3. Sound(assocIDList', assoc', connection', huntSocket')
  BY <1>1, <1>2, SelectSound
<1>4. connection' # 0 => hunt' = "idle"
  BY DEF GetRegistrar, LeaveHunt
<1> QED
  BY <1>3, <1>4 DEF TableInv

\* A notification or data wakes up the hunt.
LEMMA HuntEventInv ==
  ASSUME TableInv, HuntEvent
  PROVE  TableInv'
<1> DEFINE event == Head(huntSocket)
           list == AssocIDsAfter(event)
<1>1. /\ connection = 0 /\ huntSocket # <<>>
      /\ IF event.type = "data" THEN PeelOff(event.peer, assocIDList)
                                ELSE SelectRegistrar(list)
      /\ \/ huntSocket' = Unread(Tail(huntSocket))
         \/ event.type = "data" /\ huntSocket' = Unread(huntSocket)
      /\ connection' # 0 => hunt' = "idle"
  BY DEF HuntEvent, LeaveHunt, TableInv
<1>2. event \in HuntEvents /\ Sound(list, assoc, 0, Tail(huntSocket))
  BY Zenon, <1>1, ReadSound DEF TableInv, AssocIDsAfter
<1>3. event.peer \in Peer /\ (event.type = "data" => list = assocIDList)
  BY Zenon, <1>2 DEF HuntEvents, AssocIDsAfter
<1> HIDE DEF event, list
<1>4. (\E p \in Peer : PeelOff(p, list)) \/ SelectRegistrar(list)
  BY <1>1, <1>3
<1>5. Sound(assocIDList', assoc', connection', Unread(Tail(huntSocket)))
  BY <1>1, <1>2, <1>4, SelectSound
<1>6. event.type = "data" => Sound(assocIDList', assoc', connection', Unread(huntSocket))
  <2> HAVE event.type = "data"
  <2>1. Sound(assocIDList, assoc, 0, huntSocket)
    BY Zenon, <1>1 DEF TableInv
  <2>2. \E p \in Peer : PeelOff(p, assocIDList)
    BY <1>1, <1>3
  <2> QED
    BY <1>1, <2>1, <2>2, SelectSound
<1> QED
  BY <1>1, <1>5, <1>6 DEF TableInv

\* asapInstanceHandleRegistrarConnectionEvent, without a hunt.
LEMMA HuntSocketEventInv ==
  ASSUME TableInv, HandleHuntSocketEvent
  PROVE  TableInv'
<1> DEFINE event == Head(huntSocket)
           list == AssocIDsAfter(event)
<1>1. hunt = "idle" /\ hunt' = "idle" /\ huntSocket # <<>>
  BY Zenon DEF HandleHuntSocketEvent, huntVars
<1>2. event \in HuntEvents /\ Sound(list, assoc, connection, Tail(huntSocket))
  BY Zenon, <1>1, ReadSound DEF TableInv, AssocIDsAfter
<1>3. CASE /\ assocIDList' = list /\ huntSocket' = Tail(huntSocket)
           /\ UNCHANGED <<connection, assoc>>
  BY <1>1, <1>2, <1>3 DEF TableInv
<1>4. CASE /\ event.type = "data" /\ assoc[event.peer] = "up"
           /\ assocIDList' = assocIDList \ {event.peer}
           /\ connection' = event.peer
           /\ assoc' = [p \in Peer |-> IF p = event.peer THEN "peeled off"
                                       ELSE IF p = connection THEN "none" ELSE assoc[p]]
           /\ huntSocket' = Unread(Tail(huntSocket))
  <2>1. PICK q \in Peer : q = event.peer
    BY Zenon, <1>2 DEF HuntEvents
  <2>2. list = assocIDList
    BY Zenon, <1>4 DEF AssocIDsAfter
  <2> DEFINE t == Tail(huntSocket)
             after == IF connection = 0 THEN assoc ELSE [assoc EXCEPT ![connection] = "none"]
  <2>3. connection \in Peer \cup {0} /\ assoc \in [Peer -> {"none", "connecting", "up", "peeled off"}]
    BY Zenon DEF TableInv, Sound
  <2>4. Sound(assocIDList, after, 0, t)
    <3>1. CASE connection = 0
      BY Zenon, <1>2, <2>2, <3>1
    <3>2. CASE connection # 0
      BY Zenon, <1>2, <2>2, <2>3, <3>2, DisconnectSound
    <3> QED
      BY <3>1, <3>2
  <2>5. q # connection
    BY Zenon, <1>4, <2>1 DEF TableInv, Sound
  <2>6. after[q] = "up" /\ assoc' = [after EXCEPT ![q] = "peeled off"]
    BY Zenon, <1>4, <2>1, <2>3, <2>5, RegistrarTableAssumption
  <2> HIDE DEF after, t
  <2>7. Sound(assocIDList \ {q}, assoc', q, EventsWithout(t, q))
    BY Zenon, <2>4, <2>6, PeelSound
  <2>8. connection' = q /\ assocIDList' = assocIDList \ {q} /\ huntSocket' = EventsWithout(t, q)
    BY Zenon, <1>4, <2>1 DEF Unread, t
  <2> QED
    BY <1>1, <2>7, <2>8 DEF TableInv
<1> QED
  BY Zenon, <1>3, <1>4 DEF HandleHuntSocketEvent

\* tryNextBlock opens associations.
LEMMA HuntRoundInv ==
  ASSUME TableInv, HuntRound
  PROVE  TableInv'
<1>1. hunt = "round" /\ UNCHANGED <<assocIDList, huntSocket, connection>>
  BY DEF HuntRound
<1>2. assoc' = assoc \/ \E block : assoc' = [p \in Peer |->
               IF p \in block /\ assoc[p] = "none" THEN "connecting" ELSE assoc[p]]
  <2>1. UNCHANGED assoc \/ TryNextBlock
    BY Zenon DEF HuntRound
  <2>2. CASE TryNextBlock
    BY Zenon, <2>2 DEF TryNextBlock
  <2> QED
    BY <2>1, <2>2
<1>3. /\ assoc \in [Peer -> {"none", "connecting", "up", "peeled off"}]
      /\ connection = 0
  BY Zenon, <1>1 DEF TableInv, Sound
<1>4. /\ assoc' \in [Peer -> {"none", "connecting", "up", "peeled off"}]
      /\ \A p \in Peer : assoc'[p] = assoc[p]
                         \/ (assoc[p] = "none" /\ assoc'[p] = "connecting")
  BY Zenon, <1>2, <1>3
<1>5. Sound(assocIDList, assoc', connection, huntSocket)
  BY Zenon, <1>4 DEF TableInv, Sound
<1> QED
  BY Zenon, <1>1, <1>3, <1>5 DEF TableInv

\* The steps that do not concern associations.
LEMMA OtherTableInv ==
  ASSUME TableInv,
         \/ \E p \in Peer : GoesOutOfDate(p) \/ HandleAnnounce(p)
         \/ HuntTimeout \/ HuntInterrupted \/ HuntTimePasses
         \/ UNCHANGED tableVars
  PROVE  TableInv'
<1>1. UNCHANGED <<assocIDList, assoc, connection, huntSocket>>
  BY Zenon DEF GoesOutOfDate, HandleAnnounce, HuntTimeout, HuntInterrupted, HuntTimePasses,
               tableVars
<1>2. hunt' # "idle" => hunt # "idle"
  BY DEF GoesOutOfDate, HandleAnnounce, HuntTimeout, HuntInterrupted, HuntTimePasses,
         tableVars, huntVars, LeaveHunt
<1> QED
  BY <1>1, <1>2 DEF TableInv

LEMMA TableNextInv == TableInv /\ [TableNext]_tableVars => TableInv'
<1> SUFFICES ASSUME TableInv, [TableNext]_tableVars PROVE TableInv'
  OBVIOUS
<1>1. ASSUME NEW p \in Peer,
             \/ AssociationUp(p) \/ CannotStart(p) \/ AssociationLost(p)
             \/ DataOnHuntSocket(p)
      PROVE  TableInv'
  BY Zenon, <1>1, NetworkInv
<1>2. CASE TableDisconnect
  BY <1>2, TableDisconnectInv
<1>3. CASE GetRegistrar
  BY Zenon, <1>3, GetRegistrarInv
<1>4. CASE HuntEvent
  BY <1>4, HuntEventInv
<1>5. CASE HandleHuntSocketEvent
  BY <1>5, HuntSocketEventInv
<1>6. CASE HuntRound
  BY <1>6, HuntRoundInv
<1>7. CASE \/ \E p \in Peer : GoesOutOfDate(p) \/ HandleAnnounce(p)
           \/ HuntTimeout \/ HuntInterrupted \/ HuntTimePasses
           \/ UNCHANGED tableVars
  BY <1>7, OtherTableInv
<1> QED
  BY <1>1, <1>2, <1>3, <1>4, <1>5, <1>6, <1>7, Zenon DEF TableNext, HuntStep, Association

\* No association that has come up over the hunt socket is forgotten, and none that
\* is kept has gone without a notice of it (registrarTableHandleNotificationOnRegistrarHuntSocket,
\* registrarTablePeelOffRegistrarAssocID), for any number of registrars, any hunts
\* and any losses.
THEOREM AssociationsAlwaysKept == TableSpec => []AssociationsKept
<1>1. TableSpec => []TableInv
  BY TableInitInv, TableNextInv, PTL DEF TableSpec
<1> QED
  BY <1>1, SoundAssociationsKept, PTL

-----------------------------------------------------------------------------
(* The rate of a pool user: the times that are counted together *)

RateRequest == [user : PoolUser, kind : Kind, hash : HashValue, time : Nat]

TimesStep(times, requests, last, n) ==
  IF n = 0 THEN <<>>
  ELSE IF Together(requests[n], last) THEN Append(times[n - 1], requests[n].time)
  ELSE times[n - 1]

\* The first n requests are counted or not, one after the other.
Counting(times, requests, last, n) ==
  times = [k \in 0 .. n |-> TimesStep(times, requests, last, k)]

CountedTimes(requests, last) ==
  CHOOSE times : Counting(times, requests, last, Len(requests))

LEMMA TimesOfIsCounted ==
  ASSUME NEW requests, NEW last
  PROVE  TimesOf(requests, last) = CountedTimes(requests, last)[Len(requests)]
  BY Zenon DEF TimesOf, CountedTimes, Counting, TimesStep

\* Any number of requests can be counted.
LEMMA CountingUpTo ==
  ASSUME NEW requests, NEW last, NEW n \in Nat
  PROVE  \E times : Counting(times, requests, last, n)
<1> DEFINE Good(k) == \E times : Counting(times, requests, last, k)
           C == {k \in Nat : ~Good(k)}
<1> SUFFICES ASSUME C # {} PROVE FALSE
  OBVIOUS
<1>1. PICK k \in C : \A m \in C : k <= m
  BY Zenon, SmallestNumber
<1>2. CASE k = 0
  <2> DEFINE g == [i \in 0 .. 0 |-> <<>>]
  <2>1. g = [i \in 0 .. 0 |-> TimesStep(g, requests, last, i)]
    BY DEF TimesStep
  <2> QED
    BY <1>1, <1>2, <2>1 DEF Counting
<1>3. CASE k # 0
  <2>1. k - 1 \in Nat /\ Good(k - 1)
    BY <1>1, <1>3
  <2>2. PICK g : g = [i \in 0 .. k - 1 |-> TimesStep(g, requests, last, i)]
    BY <2>1 DEF Counting
  <2> DEFINE h == [i \in 0 .. k |->
                     IF i = k THEN TimesStep(g, requests, last, k) ELSE g[i]]
  <2>3. \A i \in 0 .. k : h[i] = TimesStep(g, requests, last, i)
    BY <2>1, <2>2
  <2>4. \A i \in 0 .. k : i # 0 => i - 1 \in 0 .. k - 1 /\ h[i - 1] = g[i - 1]
    BY <2>1
  <2>5. \A i \in 0 .. k :
          TimesStep(g, requests, last, i) = TimesStep(h, requests, last, i)
    BY Zenon, <2>4 DEF TimesStep
  <2>6. h = [i \in 0 .. k |-> TimesStep(h, requests, last, i)]
    BY <2>3, <2>5
  <2> QED
    BY Zenon, <1>1, <2>6 DEF Counting
<1> QED
  BY <1>2, <1>3

\* What the times are, request by request.
LEMMA CountedIs ==
  ASSUME NEW requests \in Seq(RateRequest), NEW last
  PROVE  \A k \in 0 .. Len(requests) :
           CountedTimes(requests, last)[k]
             = TimesStep(CountedTimes(requests, last), requests, last, k)
<1> DEFINE f == CountedTimes(requests, last)
<1>1. Len(requests) \in Nat
  OBVIOUS
<1>2. \E times : Counting(times, requests, last, Len(requests))
  BY Zenon, <1>1, CountingUpTo
<1>3. f = [k \in 0 .. Len(requests) |-> TimesStep(f, requests, last, k)]
  BY Zenon, <1>2 DEF CountedTimes, Counting
<1> HIDE DEF f
<1>4. \A k \in 0 .. Len(requests) : f[k] = TimesStep(f, requests, last, k)
  BY Zenon, <1>3
<1> QED
  BY <1>4 DEF f

\* Without a request, there are no times.
LEMMA NoTimes ==
  ASSUME NEW requests \in Seq(RateRequest), requests = <<>>, NEW last
  PROVE  TimesOf(requests, last) = <<>>
<1> DEFINE f == CountedTimes(requests, last)
<1>1. Len(requests) = 0 /\ 0 \in 0 .. Len(requests)
  OBVIOUS
<1>2. \A k \in 0 .. Len(requests) : f[k] = TimesStep(f, requests, last, k)
  BY Zenon, CountedIs
<1>3. TimesOf(requests, last) = f[0]
  BY <1>1, TimesOfIsCounted
<1> HIDE DEF f
<1> QED
  BY <1>1, <1>2, <1>3 DEF TimesStep

\* One more request adds its time, if it is counted together with the given one.
LEMMA MoreTimes ==
  ASSUME NEW requests \in Seq(RateRequest), NEW r \in RateRequest, NEW last
  PROVE  TimesOf(Append(requests, r), last)
           = IF Together(r, last) THEN Append(TimesOf(requests, last), r.time)
                                  ELSE TimesOf(requests, last)
<1> DEFINE more == Append(requests, r)
           n == Len(requests)
           f == CountedTimes(requests, last)
           g == CountedTimes(more, last)
           C == {k \in 0 .. n : g[k] # f[k]}
<1>1. /\ n \in Nat /\ more \in Seq(RateRequest) /\ Len(more) = n + 1
      /\ more[n + 1] = r /\ \A k \in 1 .. n : more[k] = requests[k]
  OBVIOUS
<1>2. \A k \in 0 .. n : f[k] = TimesStep(f, requests, last, k)
  BY Zenon, CountedIs
<1> HIDE DEF more, n
<1>3. \A k \in 0 .. n + 1 : g[k] = TimesStep(g, more, last, k)
  BY Zenon, <1>1, CountedIs
<1>4. TimesOf(requests, last) = f[n] /\ TimesOf(more, last) = g[n + 1]
  BY Zenon, <1>1, TimesOfIsCounted DEF n
<1> HIDE DEF f, g
<1>5. C = {}
  <2> SUFFICES ASSUME C # {} PROVE FALSE
    BY Zenon
  <2>1. C \subseteq Nat
    BY <1>1
  <2>2. PICK k \in C : \A m \in C : k <= m
    BY Zenon, <2>1, SmallestNumber
  <2>3. k \in 0 .. n /\ k \in 0 .. n + 1 /\ g[k] # f[k]
    BY <1>1, <2>2
  <2>4. CASE k = 0
    BY Zenon, <1>2, <1>3, <2>3, <2>4 DEF TimesStep
  <2>5. CASE k # 0
    <3>1. k \in 1 .. n /\ k - 1 \in 0 .. n /\ k - 1 < k
      BY <1>1, <2>3, <2>5
    <3>2. g[k - 1] = f[k - 1]
      BY <2>2, <3>1
    <3>3. f[k] = TimesStep(f, requests, last, k) /\ g[k] = TimesStep(g, more, last, k)
      BY Zenon, <1>2, <1>3, <2>3
    <3> QED
      BY <1>1, <2>3, <2>5, <3>1, <3>2, <3>3 DEF TimesStep
  <2> QED
    BY Zenon, <2>4, <2>5
<1>6. g[n] = f[n]
  BY <1>1, <1>5
<1>7. g[n + 1] = TimesStep(g, more, last, n + 1) /\ n + 1 # 0 /\ (n + 1) - 1 = n
  BY <1>1, <1>3
<1>8. g[n + 1] = IF Together(r, last) THEN Append(f[n], r.time) ELSE f[n]
  BY Zenon, <1>1, <1>6, <1>7 DEF TimesStep
<1> QED
  BY <1>4, <1>8 DEF more

-----------------------------------------------------------------------------
(* The last ones of them *)

\* The last elements of a sequence are elements of it, and the last one is.
LEMMA LastOfFacts ==
  ASSUME NEW t \in Seq(Nat), NEW n \in Nat \ {0}
  PROVE  /\ LastOf(t, n) \in Seq(Nat)
         /\ Len(LastOf(t, n)) = IF Len(t) > n THEN n ELSE Len(t)
         /\ t # <<>> => LastOf(t, n)[Len(LastOf(t, n))] = t[Len(t)]
<1> DEFINE skipped == IF Len(t) > n THEN Len(t) - n ELSE 0
           len == Len(t) - skipped
<1>1. /\ Len(t) \in Nat /\ skipped \in Nat /\ len \in Nat
      /\ len = IF Len(t) > n THEN n ELSE Len(t)
      /\ \A i \in 1 .. len : skipped + i \in 1 .. Len(t)
  OBVIOUS
<1>2. LastOf(t, n) = [i \in 1 .. len |-> t[skipped + i]]
  BY Zenon DEF LastOf
<1>3. \A i \in 1 .. len : t[skipped + i] \in Nat
  <2> HIDE DEF skipped, len
  <2> QED
    BY <1>1
<1>4. t # <<>> => Len(t) > 0
  OBVIOUS
<1>5. len > 0 => len \in 1 .. len /\ skipped + len = Len(t)
  BY <1>1
<1> HIDE DEF skipped, len
<1>6. LastOf(t, n) \in Seq(Nat) /\ Len(LastOf(t, n)) = len
  BY <1>1, <1>2, <1>3
<1>7. t # <<>> => LastOf(t, n)[len] = t[Len(t)]
  BY <1>1, <1>2, <1>4, <1>5
<1> QED
  BY <1>1, <1>6, <1>7

\* timeStampHashTableAddTimeStamp: if the last elements are in the bucket, and the
\* time stamp is not from before them, then they are in it afterwards, too.
LEMMA AddToLast ==
  ASSUME NEW t \in Seq(Nat), NEW time \in Nat, \A i \in DOMAIN t : t[i] <= time,
         MaxEntries \in Nat \ {0}
  PROVE  AddTimeStamp(LastOf(t, MaxEntries), time)
           = LastOf(Append(t, time), MaxEntries)
<1> DEFINE n == MaxEntries
           L == Len(t)
           bucket == LastOf(t, n)
           more == Append(t, time)
           s1 == IF L > n THEN L - n ELSE 0
           s2 == IF L + 1 > n THEN L + 1 - n ELSE 0
<1>1. /\ L \in Nat /\ more \in Seq(Nat) /\ Len(more) = L + 1 /\ more[L + 1] = time
      /\ \A i \in 1 .. L : more[i] = t[i]
  OBVIOUS
<1>2. bucket = [i \in 1 .. L - s1 |-> t[s1 + i]]
  BY DEF LastOf
<1> HIDE DEF L, more
<1>3. LastOf(more, n) = [i \in 1 .. L + 1 - s2 |-> more[s2 + i]]
  BY <1>1 DEF LastOf
<1> USE DEF L
<1>4. bucket \in Seq(Nat) /\ Len(bucket) = IF L > n THEN n ELSE L
  BY LastOfFacts
<1>5. ~(bucket # <<>> /\ bucket[Len(bucket)] > time)
  <2> SUFFICES ASSUME bucket # <<>> PROVE bucket[Len(bucket)] <= time
    <3>1. bucket # <<>> => bucket[Len(bucket)] \in Nat
      BY <1>4
    <3> QED
      BY <3>1
  <2>1. L # 0
    BY <1>1, <1>4
  <2>2. t # <<>> /\ L \in DOMAIN t
    BY <1>1, <2>1
  <2> QED
    BY Zenon, <2>2, LastOfFacts
<1> HIDE DEF L, bucket, more
<1>6. CASE L < n
  <2>1. AddTimeStamp(bucket, time) = Append(bucket, time)
    BY <1>1, <1>4, <1>5, <1>6 DEF AddTimeStamp
  <2>2. bucket = t
    BY <1>1, <1>2, <1>6 DEF L
  <2>3. LastOf(more, n) = more
    BY <1>1, <1>3, <1>6
  <2> QED
    BY <2>1, <2>2, <2>3 DEF bucket, more
<1>7. CASE ~(L < n)
  <2>1. AddTimeStamp(bucket, time) = Append(Tail(bucket), time)
    BY <1>1, <1>4, <1>5, <1>7 DEF AddTimeStamp
  <2>2. Len(bucket) = n /\ n \in Nat /\ n > 0
    BY <1>1, <1>4, <1>7
  <2>3. /\ Tail(bucket) \in Seq(Nat) /\ Len(Tail(bucket)) = n - 1
        /\ \A i \in 1 .. n - 1 : Tail(bucket)[i] = bucket[i + 1]
    BY <1>4, <2>2
  <2>4. s1 = L - n /\ s2 = L + 1 - n
    BY <1>1, <1>7, <2>2
  <2>5. \A i \in 1 .. n : bucket[i] = t[L - n + i]
    BY <1>1, <1>2, <2>2, <2>4
  <2>6. \A i \in 1 .. n : LastOf(more, n)[i] = more[L + 1 - n + i]
    BY <1>1, <1>3, <2>2, <2>4
  <2> DEFINE new == Append(Tail(bucket), time)
  <2>7. /\ new \in Seq(Nat) /\ Len(new) = n /\ new[n] = time
        /\ \A i \in 1 .. n - 1 : new[i] = bucket[i + 1]
    BY <2>2, <2>3
  <2> HIDE DEF new
  <2>8. ASSUME NEW i \in 1 .. n PROVE new[i] = LastOf(more, n)[i]
    <3>1. CASE i = n
      <4>1. L + 1 - n + n = L + 1 /\ n \in 1 .. n
        BY <1>1, <2>2
      <4> QED
        BY Zenon, <1>1, <2>6, <2>7, <3>1, <4>1
    <3>2. CASE i # n
      <4>1. i \in 1 .. n - 1 /\ i + 1 \in 1 .. n /\ L - n + (i + 1) = L + 1 - n + i
            /\ L + 1 - n + i \in 1 .. L
        BY <1>1, <1>7, <2>2, <3>2
      <4>2. new[i] = t[L + 1 - n + i]
        BY Zenon, <2>5, <2>7, <4>1
      <4>3. LastOf(more, n)[i] = t[L + 1 - n + i]
        BY Zenon, <1>1, <2>6, <4>1
      <4> QED
        BY Zenon, <4>2, <4>3
    <3> QED
      BY Zenon, <3>1, <3>2
  <2>9. LastOf(more, n) \in Seq(Nat) /\ Len(LastOf(more, n)) = n
    BY <1>1, <1>7, <2>2, LastOfFacts
  <2>10. new = LastOf(more, n)
    BY <2>7, <2>8, <2>9
  <2> QED
    BY <2>1, <2>10 DEF new, bucket, more
<1> QED
  BY <1>6, <1>7 DEF bucket, more

-----------------------------------------------------------------------------
(* The invariant *)

\* The bucket of a request, if it has been made.
BucketFor(k) ==
  IF k.user \in DOMAIN poolUsers
    THEN IF poolUsers[k.user][k.kind] = <<>>
           THEN <<>>
           ELSE poolUsers[k.user][k.kind][BucketOf(k.hash)]
    ELSE <<>>

HashTable == [0 .. Buckets - 1 -> Seq(Nat)]

RateTypes ==
  /\ clock \in Nat
  /\ noted \in Seq(RateRequest)
  /\ permitted \in BOOLEAN
  /\ DOMAIN poolUsers \subseteq PoolUser
  /\ poolUsers \in [DOMAIN poolUsers -> [Kind -> {<<>>} \cup HashTable]]

\* The times that are counted together are numbers, and, if the clock has been
\* running forward, the last ones of them are in the bucket.
RateInv ==
  /\ RateTypes
  /\ \A k \in RateRequest : TimesOf(noted, k) \in Seq(Nat)
  /\ ClockForward =>
       \A k \in RateRequest :
         /\ \A i \in DOMAIN TimesOf(noted, k) :
              noted # <<>> /\ TimesOf(noted, k)[i] <= noted[Len(noted)].time
         /\ BucketFor(k) = LastOf(TimesOf(noted, k), MaxEntries)
  /\ ClockForward /\ noted # <<>> =>
       permitted = WithinThreshold(GetRate(LastTimes(MaxEntries)))

\* A table is not the empty one.
LEMMA TableThere ==
  ASSUME NEW table \in HashTable
  PROVE  table # <<>>
<1>1. 0 \in 0 .. Buckets - 1
  BY PoolUserRateAssumption
<1>2. 0 \in DOMAIN table
  BY <1>1 DEF HashTable
<1>3. 0 \notin DOMAIN <<>>
  OBVIOUS
<1> QED
  BY <1>2, <1>3

\* The bucket of a hash value is one of the table.
LEMMA BucketThere ==
  ASSUME NEW hash \in HashValue
  PROVE  BucketOf(hash) \in 0 .. Buckets - 1
  BY PoolUserRateAssumption DEF BucketOf

\* A time stamp is added to a bucket of numbers.
LEMMA AddType ==
  ASSUME NEW bucket \in Seq(Nat), NEW time \in Nat
  PROVE  AddTimeStamp(bucket, time) \in Seq(Nat)
<1>1. bucket # <<>> => Tail(bucket) \in Seq(Nat)
  OBVIOUS
<1>2. CASE bucket = <<>>
  <2>1. Len(bucket) < MaxEntries
    BY <1>2, PoolUserRateAssumption
  <2> QED
    BY <1>2, <2>1 DEF AddTimeStamp
<1>3. CASE bucket # <<>>
  BY <1>1, <1>3 DEF AddTimeStamp
<1> QED
  BY <1>2, <1>3

\* poolUserNodeNoteHandleResolution, poolUserNodeNoteEndpointUnreachable: the time
\* stamp goes to the bucket of the request, and only there.
LEMMA NoteIs ==
  ASSUME NEW node \in [Kind -> {<<>>} \cup HashTable], NEW kind \in Kind,
         NEW hash \in HashValue, clock \in Nat
  PROVE  LET new    == Note(node, kind, hash)
             before == IF node[kind] = <<>> THEN <<>> ELSE node[kind][BucketOf(hash)]
         IN /\ new \in [Kind -> {<<>>} \cup HashTable]
            /\ new[kind] \in HashTable
            /\ new[kind][BucketOf(hash)] = AddTimeStamp(before, clock)
            /\ \A b \in 0 .. Buckets - 1 : b # BucketOf(hash) =>
                 new[kind][b] = IF node[kind] = <<>> THEN <<>> ELSE node[kind][b]
            /\ \A k \in Kind : k # kind => new[k] = node[k]
<1> DEFINE table == IF node[kind] = <<>> THEN TimeStampHashTableNew ELSE node[kind]
           b0 == BucketOf(hash)
           later == [table EXCEPT ![b0] = AddTimeStamp(@, clock)]
           new == [node EXCEPT ![kind] = later]
           before == IF node[kind] = <<>> THEN <<>> ELSE node[kind][b0]
<1>1. b0 \in 0 .. Buckets - 1
  BY BucketThere
<1>2. <<>> \in Seq(Nat)
  OBVIOUS
<1>3. table \in HashTable
  BY <1>2 DEF HashTable, TimeStampHashTableNew
<1>4. \A b \in 0 .. Buckets - 1 :
        table[b] = IF node[kind] = <<>> THEN <<>> ELSE node[kind][b]
  BY Zenon DEF TimeStampHashTableNew
<1> HIDE DEF table
<1>5. table[b0] \in Seq(Nat) /\ table[b0] = before
  BY Zenon, <1>1, <1>3, <1>4 DEF HashTable
<1>6. AddTimeStamp(table[b0], clock) \in Seq(Nat)
  BY Zenon, <1>5, AddType
<1>7. /\ later \in HashTable
      /\ later[b0] = AddTimeStamp(before, clock)
      /\ \A b \in 0 .. Buckets - 1 : b # b0 => later[b] = table[b]
  BY <1>1, <1>3, <1>5, <1>6 DEF HashTable
<1>8. Note(node, kind, hash) = new
  BY DEF Note, table
<1> HIDE DEF later, b0, before
<1>9. /\ new \in [Kind -> {<<>>} \cup HashTable]
      /\ new[kind] = later
      /\ \A k \in Kind : k # kind => new[k] = node[k]
  BY Zenon, <1>7
<1> QED
  BY Zenon, <1>4, <1>7, <1>8, <1>9 DEF b0, before

\* registrarPoolUserHasPermissionFor: what becomes of the bucket of any request.
LEMMA PermissionBuckets ==
  ASSUME NEW user \in PoolUser, NEW kind \in Kind, NEW hash \in HashValue,
         HasPermissionFor(user, kind, hash), RateTypes
  PROVE  LET r == [user |-> user, kind |-> kind, hash |-> hash, time |-> clock]
         IN /\ r \in RateRequest
            /\ DOMAIN poolUsers' \subseteq PoolUser
            /\ poolUsers' \in [DOMAIN poolUsers' -> [Kind -> {<<>>} \cup HashTable]]
            /\ permitted' = WithinThreshold(GetRate(AddTimeStamp(BucketFor(r), clock)))
            /\ \A k \in RateRequest :
                 BucketFor(k)' = IF Together(r, k)
                                   THEN AddTimeStamp(BucketFor(k), clock)
                                   ELSE BucketFor(k)
<1> DEFINE r == [user |-> user, kind |-> kind, hash |-> hash, time |-> clock]
           node == PoolUserNode(user)
           new == Note(node, kind, hash)
           b0 == BucketOf(hash)
           before == IF node[kind] = <<>> THEN <<>> ELSE node[kind][b0]
           later == AddTimeStamp(before, clock)
<1>0. clock \in Nat
  BY Zenon DEF RateTypes
<1>1. r \in RateRequest
  BY Zenon, <1>0 DEF RateRequest
<1>2. node \in [Kind -> {<<>>} \cup HashTable]
  BY Zenon DEF PoolUserNode, PoolUserNodeNew, RateTypes
<1>3. /\ poolUsers' = [u \in DOMAIN poolUsers \cup {user} |->
                         IF u = user THEN new ELSE poolUsers[u]]
      /\ permitted' = WithinThreshold(GetRate(new[kind][b0]))
  BY Zenon DEF HasPermissionFor
<1>4. /\ new \in [Kind -> {<<>>} \cup HashTable]
      /\ new[kind] \in HashTable
      /\ new[kind][b0] = later
      /\ \A b \in 0 .. Buckets - 1 : b # b0 =>
           new[kind][b] = IF node[kind] = <<>> THEN <<>> ELSE node[kind][b]
      /\ \A k \in Kind : k # kind => new[k] = node[k]
  BY Zenon, <1>0, <1>2, NoteIs
<1>5. \A k \in RateRequest : k.user = user =>
        BucketFor(k) = IF node[k.kind] = <<>> THEN <<>>
                       ELSE node[k.kind][BucketOf(k.hash)]
  BY DEF BucketFor, PoolUserNode, PoolUserNodeNew, RateRequest
<1>6. before = BucketFor(r)
  BY Zenon, <1>1, <1>5
<1>7. new[kind] # <<>>
  BY Zenon, <1>4, TableThere
<1> HIDE DEF node, new, before
<1>8. DOMAIN poolUsers' = DOMAIN poolUsers \cup {user}
  BY Zenon, <1>3
<1>9. /\ DOMAIN poolUsers' \subseteq PoolUser
      /\ poolUsers' \in [DOMAIN poolUsers' -> [Kind -> {<<>>} \cup HashTable]]
  BY Zenon, <1>3, <1>4, <1>8 DEF RateTypes
<1>10. ASSUME NEW k \in RateRequest
       PROVE  BucketFor(k)' = IF Together(r, k)
                                THEN AddTimeStamp(BucketFor(k), clock)
                                ELSE BucketFor(k)
  <2>0. /\ k.kind \in Kind /\ k.hash \in HashValue
        /\ BucketOf(k.hash) \in 0 .. Buckets - 1
    BY Zenon, BucketThere DEF RateRequest
  <2>1. Together(r, k) <=> k.user = user /\ k.kind = kind /\ BucketOf(k.hash) = b0
    BY Zenon DEF Together
  <2>2. CASE k.user # user
    <3>1. BucketFor(k)' = BucketFor(k)
      BY Zenon, <1>3, <1>8, <2>2 DEF BucketFor
    <3> QED
      BY Zenon, <2>1, <2>2, <3>1
  <2>3. CASE k.user = user
    <3>1. BucketFor(k)' = IF new[k.kind] = <<>> THEN <<>>
                          ELSE new[k.kind][BucketOf(k.hash)]
      BY Zenon, <1>3, <1>8, <2>3 DEF BucketFor
    <3>2. BucketFor(k) = IF node[k.kind] = <<>> THEN <<>>
                         ELSE node[k.kind][BucketOf(k.hash)]
      BY Zenon, <1>5, <2>3
    <3>3. CASE k.kind # kind
      BY Zenon, <1>4, <2>0, <2>1, <3>1, <3>2, <3>3
    <3>4. CASE k.kind = kind /\ BucketOf(k.hash) # b0
      BY Zenon, <1>4, <1>7, <2>0, <2>1, <3>1, <3>2, <3>4
    <3>5. CASE k.kind = kind /\ BucketOf(k.hash) = b0
      <4>1. BucketFor(k) = before
        BY Zenon, <3>2, <3>5 DEF before
      <4>2. BucketFor(k)' = later
        BY Zenon, <1>4, <1>7, <3>1, <3>5
      <4> QED
        BY Zenon, <2>1, <2>3, <3>5, <4>1, <4>2
    <3> QED
      BY Zenon, <3>3, <3>4, <3>5
  <2> QED
    BY <2>2, <2>3
<1> QED
  BY Zenon, <1>1, <1>3, <1>4, <1>6, <1>9, <1>10

\* Requests that are not the last one do not come after it.
LEMMA ForwardBefore ==
  ASSUME NEW requests \in Seq(RateRequest), NEW r \in RateRequest,
         noted = requests, noted' = Append(requests, r), ClockForward'
  PROVE  /\ ClockForward
         /\ requests # <<>> => requests[Len(requests)].time <= r.time
<1> DEFINE n == Len(requests)
           more == Append(requests, r)
<1>1. /\ n \in Nat /\ DOMAIN requests = 1 .. n /\ DOMAIN more = 1 .. n + 1
      /\ more[n + 1] = r /\ \A k \in 1 .. n : more[k] = requests[k]
      /\ requests # <<>> => n > 0
  OBVIOUS
<1>2. \A i, j \in DOMAIN more : i < j => more[i].time <= more[j].time
  BY Zenon DEF ClockForward
<1> HIDE DEF more, n
<1>3. \A i, j \in 1 .. n : i < j => requests[i].time <= requests[j].time
  <2> SUFFICES ASSUME NEW i \in 1 .. n, NEW j \in 1 .. n, i < j
               PROVE  requests[i].time <= requests[j].time
    BY Zenon
  <2>1. i \in DOMAIN more /\ j \in DOMAIN more
    BY <1>1
  <2> QED
    BY Zenon, <1>1, <1>2, <2>1
<1>4. requests # <<>> => requests[n].time <= r.time
  <2> SUFFICES ASSUME requests # <<>> PROVE requests[n].time <= r.time
    BY Zenon
  <2>1. n \in DOMAIN more /\ n + 1 \in DOMAIN more /\ n < n + 1 /\ n \in 1 .. n
    BY <1>1
  <2> QED
    BY Zenon, <1>1, <1>2, <2>1
<1> QED
  BY Zenon, <1>1, <1>3, <1>4 DEF ClockForward, n

\* In the beginning, nothing is counted.
LEMMA RateInvInit ==
  ASSUME RateInit
  PROVE  RateInv
<1>1. noted = <<>> /\ noted \in Seq(RateRequest) /\ DOMAIN poolUsers = {}
  BY DEF RateInit
<1>2. RateTypes
  BY <1>1 DEF RateInit, RateTypes
<1>3. \A k \in RateRequest : TimesOf(noted, k) = <<>>
  BY Zenon, <1>1, NoTimes
<1>4. LastOf(<<>>, MaxEntries) = <<>>
  <2>1. LastOf(<<>>, MaxEntries) \in Seq(Nat) /\ Len(LastOf(<<>>, MaxEntries)) = 0
    <3>1. <<>> \in Seq(Nat) /\ Len(<<>>) = 0 /\ MaxEntries \in Nat \ {0}
      BY PoolUserRateAssumption
    <3> DEFINE e == <<>>
    <3> HIDE DEF e
    <3>2. LastOf(e, MaxEntries) \in Seq(Nat)
          /\ Len(LastOf(e, MaxEntries)) = IF Len(e) > MaxEntries THEN MaxEntries ELSE Len(e)
      BY Zenon, <3>1, LastOfFacts DEF e
    <3>3. ~(0 > MaxEntries)
      BY <3>1
    <3> QED
      BY <3>1, <3>2, <3>3 DEF e
  <2> DEFINE l == LastOf(<<>>, MaxEntries)
  <2> HIDE DEF l
  <2>2. l \in Seq(Nat) /\ Len(l) = 0
    BY <2>1 DEF l
  <2>3. l = <<>>
    BY <2>2
  <2> QED
    BY <2>3 DEF l
<1>5. \A k \in RateRequest : BucketFor(k) = <<>>
  BY <1>1 DEF BucketFor
<1>6. <<>> \in Seq(Nat) /\ DOMAIN <<>> = {}
  OBVIOUS
<1> QED
  BY Zenon, <1>1, <1>2, <1>3, <1>4, <1>5, <1>6 DEF RateInv

\* registrarPoolUserHasPermissionFor keeps the count of the requests.
LEMMA RateInvPermission ==
  ASSUME NEW user \in PoolUser, NEW kind \in Kind, NEW hash \in HashValue,
         HasPermissionFor(user, kind, hash), RateInv
  PROVE  RateInv'
<1>r. PICK r : r = [user |-> user, kind |-> kind, hash |-> hash, time |-> clock]
  BY Zenon
<1>0. RateTypes /\ clock \in Nat /\ noted \in Seq(RateRequest)
  BY DEF RateInv, RateTypes
<1>1. noted' = Append(noted, r) /\ clock' = clock /\ r.time = clock
  BY <1>r DEF HasPermissionFor
<1>2. /\ r \in RateRequest
      /\ DOMAIN poolUsers' \subseteq PoolUser
      /\ poolUsers' \in [DOMAIN poolUsers' -> [Kind -> {<<>>} \cup HashTable]]
      /\ permitted' = WithinThreshold(GetRate(AddTimeStamp(BucketFor(r), clock)))
      /\ \A k \in RateRequest :
           BucketFor(k)' = IF Together(r, k)
                             THEN AddTimeStamp(BucketFor(k), clock)
                             ELSE BucketFor(k)
  BY Zenon, <1>0, <1>r, PermissionBuckets
<1>3. Together(r, r)
  BY Zenon DEF Together
<1>4. /\ noted' \in Seq(RateRequest) /\ noted' # <<>>
      /\ Len(noted') = Len(noted) + 1 /\ noted'[Len(noted')] = r
  BY <1>0, <1>1, <1>2
<1>5. permitted' \in BOOLEAN
  BY Zenon, <1>2 DEF WithinThreshold
<1>6. RateTypes'
  BY Zenon, <1>0, <1>1, <1>2, <1>4, <1>5 DEF RateTypes
<1>7. \A k \in RateRequest : TimesOf(noted, k) \in Seq(Nat)
  BY Zenon DEF RateInv
<1>8. \A k \in RateRequest :
        TimesOf(noted', k) = IF Together(r, k) THEN Append(TimesOf(noted, k), clock)
                             ELSE TimesOf(noted, k)
  <2> SUFFICES ASSUME NEW k \in RateRequest
               PROVE  TimesOf(noted', k)
                        = IF Together(r, k) THEN Append(TimesOf(noted, k), clock)
                          ELSE TimesOf(noted, k)
    OBVIOUS
  <2> QED
    BY Zenon, <1>0, <1>1, <1>2, MoreTimes
<1>9. \A k \in RateRequest : TimesOf(noted', k) \in Seq(Nat)
  <2> SUFFICES ASSUME NEW k \in RateRequest PROVE TimesOf(noted', k) \in Seq(Nat)
    OBVIOUS
  <2>1. PICK t : t = TimesOf(noted, k)
    OBVIOUS
  <2>2. t \in Seq(Nat) /\ Append(t, clock) \in Seq(Nat)
    BY <1>0, <1>7, <2>1
  <2> QED
    BY Zenon, <1>8, <2>1, <2>2
<1>10. ASSUME ClockForward'
       PROVE  /\ \A k \in RateRequest :
                   /\ \A i \in DOMAIN TimesOf(noted', k) :
                        TimesOf(noted', k)[i] <= r.time
                   /\ BucketFor(k)' = LastOf(TimesOf(noted', k), MaxEntries)
              /\ permitted' = WithinThreshold(GetRate(
                                LastOf(TimesOf(noted', r), MaxEntries)))
  <2>1. ClockForward /\ (noted # <<>> => noted[Len(noted)].time <= clock)
    BY Zenon, <1>0, <1>1, <1>2, <1>10, ForwardBefore
  <2>2. \A k \in RateRequest :
          /\ \A i \in DOMAIN TimesOf(noted, k) :
               noted # <<>> /\ TimesOf(noted, k)[i] <= noted[Len(noted)].time
          /\ BucketFor(k) = LastOf(TimesOf(noted, k), MaxEntries)
    BY Zenon, <2>1 DEF RateInv
  <2>3. \A k \in RateRequest : \A i \in DOMAIN TimesOf(noted, k) :
          TimesOf(noted, k)[i] <= clock
    <3> SUFFICES ASSUME NEW k \in RateRequest, NEW i \in DOMAIN TimesOf(noted, k)
                 PROVE  TimesOf(noted, k)[i] <= clock
      BY Zenon
    <3>1. noted # <<>> /\ TimesOf(noted, k)[i] <= noted[Len(noted)].time
      BY <2>2
    <3>2. TimesOf(noted, k)[i] \in Nat
      BY <1>7
    <3>3. noted[Len(noted)].time \in Nat
      <4>1. noted[Len(noted)] \in RateRequest
        BY <1>0, <3>1
      <4> QED
        BY Zenon, <4>1 DEF RateRequest
    <3>4. noted[Len(noted)].time <= clock
      BY Zenon, <2>1, <3>1
    <3> QED
      BY <1>0, <3>1, <3>2, <3>3, <3>4
  <2>4. ASSUME NEW k \in RateRequest
        PROVE  /\ \A i \in DOMAIN TimesOf(noted', k) : TimesOf(noted', k)[i] <= r.time
               /\ BucketFor(k)' = LastOf(TimesOf(noted', k), MaxEntries)
    <3>1. CASE ~Together(r, k)
      BY Zenon, <1>1, <1>2, <1>8, <2>2, <2>3, <3>1
    <3>2. CASE Together(r, k)
      <4>1. PICK t : t = TimesOf(noted, k)
        OBVIOUS
      <4>2. t \in Seq(Nat) /\ \A i \in DOMAIN t : t[i] <= clock
        BY Zenon, <1>7, <2>3, <4>1
      <4>3. TimesOf(noted', k) = Append(t, clock)
        BY Zenon, <1>8, <3>2, <4>1
      <4>4. \A i \in DOMAIN Append(t, clock) : Append(t, clock)[i] <= clock
        BY <1>0, <4>2
      <4>5. AddTimeStamp(LastOf(t, MaxEntries), clock) = LastOf(Append(t, clock), MaxEntries)
        BY Zenon, <1>0, <4>2, AddToLast, PoolUserRateAssumption
      <4> QED
        BY Zenon, <1>1, <1>2, <2>2, <3>2, <4>1, <4>3, <4>4, <4>5
    <3> QED
      BY Zenon, <3>1, <3>2
  <2>5. permitted' = WithinThreshold(GetRate(BucketFor(r)'))
    BY Zenon, <1>2, <1>3
  <2>6. BucketFor(r)' = LastOf(TimesOf(noted', r), MaxEntries)
    BY Zenon, <1>2, <2>4
  <2> QED
    BY Zenon, <2>4, <2>5, <2>6
<1> QED
  <2>1. LastTimes(MaxEntries)' = LastOf(TimesOf(noted', r), MaxEntries)
    BY Zenon, <1>4 DEF LastTimes
  <2> QED
    BY Zenon, <1>4, <1>6, <1>9, <1>10, <2>1 DEF RateInv

\* The clock changes nothing that is counted.
LEMMA RateInvClock ==
  ASSUME ClockChanges, RateInv
  PROVE  RateInv'
<1>1. clock' \in Nat
  BY DEF ClockChanges, RateInv, RateTypes
<1>2. noted' = noted /\ poolUsers' = poolUsers /\ permitted' = permitted
  BY DEF ClockChanges
<1>3. RateTypes'
  BY Zenon, <1>1, <1>2 DEF RateInv, RateTypes
<1>4. ClockForward' <=> ClockForward
  BY Zenon, <1>2 DEF ClockForward
<1>5. \A k \in RateRequest : BucketFor(k)' = BucketFor(k)
  BY <1>2 DEF BucketFor
<1>6. LastTimes(MaxEntries)' = LastTimes(MaxEntries)
  BY <1>2 DEF LastTimes
<1> QED
  BY Zenon, <1>2, <1>3, <1>4, <1>5, <1>6 DEF RateInv

LEMMA RateInvariance ==
  RateSpec => []RateInv
<1>1. RateInit => RateInv
  BY RateInvInit
<1>2. RateInv /\ [RateNext]_rateVars => RateInv'
  <2> SUFFICES ASSUME RateInv, [RateNext]_rateVars PROVE RateInv'
    OBVIOUS
  <2>1. CASE \E user \in PoolUser, kind \in Kind, hash \in HashValue :
               HasPermissionFor(user, kind, hash)
    BY <2>1, RateInvPermission
  <2>2. CASE ClockChanges
    BY ZenonT(40), <2>2, RateInvClock
  <2>3. CASE UNCHANGED rateVars
    <3>1. /\ noted' = noted /\ poolUsers' = poolUsers /\ permitted' = permitted
          /\ clock' = clock
      BY <2>3 DEF rateVars
    <3>2. RateTypes'
      BY <3>1 DEF RateInv, RateTypes
    <3>3. ClockForward' <=> ClockForward
      BY Zenon, <3>1 DEF ClockForward
    <3>4. \A k \in RateRequest : BucketFor(k)' = BucketFor(k)
      BY <3>1 DEF BucketFor
    <3>5. LastTimes(MaxEntries)' = LastTimes(MaxEntries)
      BY Zenon, <3>1 DEF LastTimes
    <3> QED
      BY <3>1, <3>2, <3>3, <3>4, <3>5 DEF RateInv
  <2> QED
    BY <2>1, <2>2, <2>3 DEF RateNext
<1> QED
  BY <1>1, <1>2, PTL DEF RateSpec

-----------------------------------------------------------------------------
(* The rate that is computed *)

\* n intervals that are each long enough are long enough together.
LEMMA PatientTimes ==
  ASSUME NEW times \in Seq(Nat), NEW gap \in Nat, NEW rate \in Nat,
         \A i \in 2 .. Len(times) : (times[i] - times[i - 1]) * rate >= gap
  PROVE  \A i \in 1 .. Len(times) : (times[i] - times[1]) * rate >= (i - 1) * gap
<1> DEFINE Late(i) == (times[i] - times[1]) * rate >= (i - 1) * gap
           C == {i \in 1 .. Len(times) : ~Late(i)}
<1> SUFFICES ASSUME C # {} PROVE FALSE
  BY Zenon
<1>1. C \subseteq Nat
  OBVIOUS
<1>2. PICK i \in C : \A m \in C : i <= m
  <2> HIDE DEF C
  <2> QED
    BY Zenon, <1>1, SmallestNumber
<1>3. i \in 1 .. Len(times) /\ ~Late(i)
  BY <1>2
<1>4. i # 1
  <2> SUFFICES ASSUME i = 1 PROVE FALSE
    BY Zenon
  <2>1. times[1] \in Nat
    BY <1>3
  <2>2. times[1] - times[1] = 0 /\ (i - 1) = 0
    BY <2>1
  <2>3. 0 * rate = 0 /\ 0 * gap = 0
    OBVIOUS
  <2> QED
    BY <1>3, <2>2, <2>3
<1>5. i \in 2 .. Len(times) /\ i - 1 \in 1 .. Len(times) /\ i - 1 < i
  BY <1>3, <1>4
<1>6. Late(i - 1)
  BY <1>2, <1>5
<1>7. PICK a \in Nat : a = times[i]
  BY <1>5
<1>8. PICK b \in Nat : b = times[i - 1]
  BY <1>5
<1>9. PICK c \in Nat : c = times[1]
  BY <1>5
<1>10. (a - b) * rate >= gap /\ (b - c) * rate >= (i - 1 - 1) * gap
  BY Zenon, <1>5, <1>6, <1>7, <1>8, <1>9
<1>11. ~((a - c) * rate >= (i - 1) * gap)
  BY Zenon, <1>3, <1>7, <1>9
<1>12. (a - c) * rate = (a - b) * rate + (b - c) * rate
  OBVIOUS
<1>13. (i - 1) * gap = (i - 1 - 1) * gap + gap
  BY <1>5
<1>14. /\ (a - c) * rate \in Int /\ (a - b) * rate \in Int /\ (b - c) * rate \in Int
       /\ (i - 1) * gap \in Int /\ (i - 1 - 1) * gap \in Int
  BY <1>5
<1> DEFINE x == (a - c) * rate
           y == (a - b) * rate
           z == (b - c) * rate
           u == (i - 1) * gap
           v == (i - 1 - 1) * gap
<1> HIDE DEF x, y, z, u, v
<1>15. /\ x \in Int /\ y \in Int /\ z \in Int /\ u \in Int /\ v \in Int
       /\ y >= gap /\ z >= v /\ ~(x >= u) /\ x = y + z /\ u = v + gap
  BY Zenon, <1>10, <1>11, <1>12, <1>13, <1>14 DEF x, y, z, u, v
<1> QED
  BY <1>15

\* timeStampHashTableGetRate: n entries over n - 1 intervals that are each twice as
\* long as the threshold demands.
LEMMA PatientWithin ==
  ASSUME NEW times \in Seq(Nat),
         \A i \in 2 .. Len(times) : (times[i] - times[i - 1]) * MaxRate >= 2 * RateTime
  PROVE  WithinThreshold(GetRate(times))
<1>1. MaxRate \in Nat \ {0} /\ RateTime \in Nat \ {0} /\ 2 * RateTime \in Nat
  BY PoolUserRateAssumption
<1>2. CASE ~(Len(times) > 1)
  <2>1. GetRate(times) = [entries |-> 0, duration |-> 1]
    BY <1>2 DEF GetRate
  <2>2. 0 * RateTime <= MaxRate * 1
    BY <1>1
  <2> QED
    BY <2>1, <2>2 DEF WithinThreshold
<1>3. CASE Len(times) > 1
  <2>1. PICK n \in Nat : n = Len(times)
    OBVIOUS
  <2>2. n > 1 /\ n \in 1 .. Len(times) /\ 1 \in 1 .. Len(times)
    BY <1>3, <2>1
  <2>3. PICK d \in Int : d = times[n] - times[1]
    BY <2>2
  <2>4. d * MaxRate >= (n - 1) * (2 * RateTime)
    <3>1. \A i \in 1 .. Len(times) :
            (times[i] - times[1]) * MaxRate >= (i - 1) * (2 * RateTime)
      <4> DEFINE gap == 2 * RateTime
      <4>1. gap \in Nat /\ MaxRate \in Nat
        BY <1>1
      <4>2. \A i \in 2 .. Len(times) : (times[i] - times[i - 1]) * MaxRate >= gap
        BY Zenon
      <4> HIDE DEF gap
      <4>3. \A i \in 1 .. Len(times) : (times[i] - times[1]) * MaxRate >= (i - 1) * gap
        BY Zenon, <4>1, <4>2, PatientTimes
      <4> QED
        BY <4>3 DEF gap
    <3> QED
      BY Zenon, <2>2, <2>3, <3>1
  <2>5. (n - 1) * (2 * RateTime) = n * RateTime + (n - 2) * RateTime
    BY <1>1
  <2>6. (n - 2) * RateTime >= 0 /\ n * RateTime > 0
    <3>1. n - 2 \in Nat /\ RateTime \in Nat
      BY <1>1, <2>2
    <3>2. \A a, b \in Nat : a * b >= 0
      OBVIOUS
    <3>3. \A a, b \in Nat : a > 0 /\ b > 0 => a * b > 0
      OBVIOUS
    <3>4. RateTime > 0 /\ n > 0
      BY <1>1, <2>2
    <3> QED
      BY <3>1, <3>2, <3>3, <3>4
  <2>7. /\ d * MaxRate \in Int /\ n * RateTime \in Int /\ (n - 2) * RateTime \in Int
        /\ d * MaxRate = MaxRate * d
    BY <1>1
  <2>8. n * RateTime <= MaxRate * d /\ d * MaxRate > 0
    <3> DEFINE x == d * MaxRate
               y == n * RateTime
               z == (n - 2) * RateTime
               w == (n - 1) * (2 * RateTime)
    <3> HIDE DEF x, y, z, w
    <3>1. x \in Int /\ y \in Int /\ z \in Int /\ x >= w /\ w = y + z /\ z >= 0 /\ y > 0
      BY Zenon, <2>4, <2>5, <2>6, <2>7 DEF x, y, z, w
    <3>2. y <= x /\ x > 0
      BY <3>1
    <3> QED
      BY Zenon, <2>7, <3>2 DEF x, y
  <2>9. d > 0
    <3>1. \A a \in Int, b \in Nat : a * b > 0 => a > 0
      OBVIOUS
    <3> QED
      BY Zenon, <1>1, <2>8, <3>1
  <2>10. GetRate(times) = [entries |-> n, duration |-> d]
    BY Zenon, <1>3, <2>1, <2>3 DEF GetRate
  <2> QED
    BY <2>8, <2>9, <2>10 DEF WithinThreshold
<1> QED
  BY <1>2, <1>3

\* A full bucket that was filled faster than the threshold allows.
LEMMA BurstExceeds ==
  ASSUME NEW times \in Seq(Nat), Len(times) = MaxEntries, MaxEntries > 1,
         (times[MaxEntries] - times[1]) * MaxRate < MaxEntries * RateTime
  PROVE  ~WithinThreshold(GetRate(times))
<1>1. MaxEntries \in Nat /\ MaxRate \in Nat /\ RateTime \in Nat
  BY PoolUserRateAssumption
<1>2. MaxEntries \in 1 .. Len(times) /\ 1 \in 1 .. Len(times)
  BY <1>1
<1>3. PICK d \in Int : d = times[MaxEntries] - times[1]
  BY <1>2
<1>4. GetRate(times) = [entries |-> MaxEntries, duration |-> d]
  BY Zenon, <1>3 DEF GetRate
<1>5. /\ d * MaxRate = MaxRate * d /\ d * MaxRate \in Int /\ MaxEntries * RateTime \in Int
      /\ d * MaxRate < MaxEntries * RateTime
  BY <1>1, <1>3
<1>6. ~(MaxEntries * RateTime <= MaxRate * d)
  BY <1>5
<1> QED
  BY <1>4, <1>6 DEF WithinThreshold

\* registrarPoolUserHasPermissionFor, for any pool users, hash values, threshold, and
\* sizes of the table and its buckets: a pool user that leaves twice the time of the
\* threshold between its requests is never refused, and the last one of a bucketful
\* of requests that came faster than the threshold always is, as long as the clock is
\* not set back between requests.
THEOREM RateAlwaysEnforced ==
  RateSpec => []RateEnforced
<1>1. RateInv => RateEnforced
  <2> SUFFICES ASSUME RateInv, noted # <<>>, ClockForward
               PROVE  LET times == LastTimes(MaxEntries)
                          patient == \A i \in 2 .. Len(times) :
                            (times[i] - times[i - 1]) * MaxRate >= 2 * RateTime
                          burst == /\ Len(times) = MaxEntries /\ MaxEntries > 1
                                   /\ (times[MaxEntries] - times[1]) * MaxRate
                                        < MaxEntries * RateTime
                      IN  (patient => permitted) /\ (burst => ~permitted)
    BY DEF RateEnforced
  <2>1. PICK times : times = LastTimes(MaxEntries)
    BY Zenon
  <2>2. permitted = WithinThreshold(GetRate(times))
    BY Zenon, <2>1 DEF RateInv
  <2>3. times \in Seq(Nat)
    <3>1. noted[Len(noted)] \in RateRequest
      BY DEF RateInv, RateTypes
    <3>2. TimesOf(noted, noted[Len(noted)]) \in Seq(Nat)
      BY Zenon, <3>1 DEF RateInv
    <3> QED
      BY Zenon, <2>1, <3>2, LastOfFacts, PoolUserRateAssumption DEF LastTimes
  <2>4. (\A i \in 2 .. Len(times) : (times[i] - times[i - 1]) * MaxRate >= 2 * RateTime)
          => permitted
    BY Zenon, <2>2, <2>3, PatientWithin
  <2>5. Len(times) = MaxEntries /\ MaxEntries > 1
          /\ (times[MaxEntries] - times[1]) * MaxRate < MaxEntries * RateTime
          => ~permitted
    BY <2>2, <2>3, BurstExceeds
  <2> QED
    BY <2>1, <2>4, <2>5
<1> QED
  BY <1>1, RateInvariance, PTL
=============================================================================
