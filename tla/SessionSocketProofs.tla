------------------------ MODULE SessionSocketProofs ------------------------
(***************************************************************************)
(* Facts about the functions on struct RSerPoolSocket and about a read     *)
(* from its socket, for any number of identifiers and any size of the      *)
(* words of the bitmap.                                                    *)
(***************************************************************************)
EXTENDS Session, FiniteSetTheorems, TLAPS

-----------------------------------------------------------------------------
(* Numbers *)

\* A set of numbers that is not empty has a smallest one: what is false of some
\* number is false of a smallest one, which is how the recursions are followed.
LEMMA SmallestNumber ==
  ASSUME NEW C, C \subseteq Nat, C # {}
  PROVE  \E n \in C : \A m \in C : n <= m
<1>1. PICK n \in C : \A m \in C : ~(<<m, n>> \in OpToRel(<, Nat))
  BY Zenon, NatLessThanWellFounded, WFMin
<1>2. \A m \in C : ~(m < n)
  BY Zenon, <1>1 DEF OpToRel
<1> QED
  BY <1>2

\* Quotient and remainder.
LEMMA DivMod ==
  ASSUME NEW A \in Nat \ {0}, NEW a \in Int
  PROVE  a % A \in 0 .. A - 1 /\ a \div A \in Int /\ a = (A * (a \div A)) + (a % A)
  OBVIOUS

-----------------------------------------------------------------------------
(* identifierbitmap.c *)

Slot == 0..(Slots - 1)
Bit == 0..(SlotSize - 1)
ID == 0..(Entries - 1)

\* The bitmap b has the identifiers ids marked, and counts the others.
Bits(b, ids) ==
  /\ b = [f \in {"word", "available"} |-> b[f]]
  /\ b.word \in [Slot -> SUBSET Bit]
  /\ \A i \in Slot, j \in Bit : j \in b.word[i] <=> (i * SlotSize) + j \in ids
  /\ ids \subseteq ID
  /\ b.available = Entries - Cardinality(ids)

\* An identifier has its place in the bitmap.
LEMMA PlaceOfID ==
  \A id \in ID :
         /\ id \div SlotSize \in Slot /\ id % SlotSize \in Bit
         /\ id = ((id \div SlotSize) * SlotSize) + (id % SlotSize)

\* A larger number has no smaller quotient.
<1>QuotientGrows.
  ASSUME NEW a \in Nat, NEW b \in Nat, a <= b
  PROVE  a \div SlotSize <= b \div SlotSize
  <2> USE <1>QuotientGrows
  <2> DEFINE S == SlotSize
             d == a \div S
             e == b \div S
  <2>1. S \in Nat \ {0}
    BY BitmapAssumption
  <2>2. d \in Int /\ a % S \in 0 .. S - 1 /\ a = (S * d) + (a % S)
    BY <2>1, DivMod
  <2>3. e \in Int /\ b % S \in 0 .. S - 1 /\ b = (S * e) + (b % S)
    BY <2>1, DivMod
  <2> DEFINE m == a % S
             n == b % S
  <2> HIDE DEF S, d, e, m, n
  <2>4. SUFFICES ASSUME d >= e + 1 PROVE FALSE
    BY <2>2, <2>3 DEF d, e, S
  <2>5. S * d >= (S * e) + S
    <3>1. d - (e + 1) \in Nat
      BY <2>2, <2>3, <2>4
    <3>2. S * (d - (e + 1)) >= 0
      BY <2>1, <3>1
    <3> QED
      BY <2>1, <2>2, <2>3, <3>2
  <2>6. S * d \in Int /\ S * e \in Int
    BY <2>1, <2>2, <2>3
  <2> QED
    BY <2>1, <2>2, <2>3, <2>5, <2>6 DEF m, n
<1> SUFFICES ASSUME NEW id \in ID
             PROVE  /\ id \div SlotSize \in Slot /\ id % SlotSize \in Bit
                    /\ id = ((id \div SlotSize) * SlotSize) + (id % SlotSize)
  OBVIOUS
<1> DEFINE S == SlotSize
           X == Entries + (S - (Entries % S))
<1>1. S \in Nat \ {0} /\ Entries \in Nat
  BY BitmapAssumption
<1>2. Entries % S \in 0 .. S - 1
  BY <1>1, DivMod
<1>3. X \in Nat /\ id <= X /\ id \in Nat
  BY <1>1, <1>2 DEF ID
<1>4. id \div S <= X \div S
  BY <1>3, <1>QuotientGrows
<1>5. X \div S \in Int /\ Slots = (X \div S) + 1
  BY <1>1, <1>3, DivMod DEF Slots
<1>6. id % S \in 0 .. S - 1 /\ id \div S \in Int /\ id = (S * (id \div S)) + (id % S)
  BY <1>1, <1>3, DivMod
<1>7. id \div S >= 0
  <2> DEFINE d == id \div S
             m == id % S
  <2>1. d \in Int /\ m \in 0 .. S - 1 /\ id = (S * d) + m
    BY <1>6
  <2> HIDE DEF d, m, S
  <2>2. SUFFICES ASSUME d <= -1 PROVE FALSE
    BY <2>1 DEF d, S
  <2>3. S * d <= -S
    <3>1. -1 - d \in Nat
      BY <2>1, <2>2
    <3>2. S * (-1 - d) >= 0
      BY <1>1, <3>1
    <3> QED
      BY <1>1, <2>1, <3>2
  <2>4. S * d \in Int
    BY <1>1, <2>1
  <2> QED
    BY <1>1, <1>3, <2>1, <2>3, <2>4
<1>8. S * (id \div S) = (id \div S) * S
  BY <1>1, <1>6
<1> QED
  BY <1>4, <1>5, <1>6, <1>7, <1>8 DEF Slot, Bit

\* No two identifiers have the same place.
LEMMA PlaceUnique ==
  ASSUME NEW i \in Int, NEW k \in Int, NEW j \in Bit, NEW l \in Bit,
         (i * SlotSize) + j = (k * SlotSize) + l
  PROVE  i = k /\ j = l
<1> DEFINE S == SlotSize
<1>1. S \in Nat \ {0} /\ j \in 0 .. S - 1 /\ l \in 0 .. S - 1
  BY BitmapAssumption DEF Bit
<1>2. ASSUME NEW a \in Int, NEW b \in Int, a < b PROVE b * S >= (a * S) + S
  <2>1. b - (a + 1) \in Nat
    BY <1>2
  <2> HIDE DEF S
  <2>2. (b - (a + 1)) * S >= 0
    BY <1>1, <2>1
  <2> QED
    BY <1>1, <2>2
<1> DEFINE x == i * S
           y == k * S
<1>3. x \in Int /\ y \in Int /\ x + j = y + l
  BY <1>1
<1>4. (i < k => y >= x + S) /\ (k < i => x >= y + S)
  BY <1>2
<1>5. i = k => x = y
  OBVIOUS
<1> HIDE DEF x, y, S
<1> QED
  BY <1>1, <1>3, <1>4, <1>5

\* The marked identifiers are the allocated ones.
LEMMA BitsAllocated ==
  ASSUME NEW b, NEW ids, Bits(b, ids)
  PROVE  Allocated(b) = ids
<1>1. ASSUME NEW id \in Allocated(b) PROVE id \in ids
  <2>1. PICK i \in DOMAIN b.word : \E j \in b.word[i] : id = (i * SlotSize) + j
    BY DEF Allocated
  <2> QED
    BY <2>1 DEF Bits
<1>2. ASSUME NEW id \in ids PROVE id \in Allocated(b)
  <2> DEFINE i == id \div SlotSize
             j == id % SlotSize
  <2>1. i \in Slot /\ j \in Bit /\ id = (i * SlotSize) + j
    BY PlaceOfID DEF Bits
  <2> HIDE DEF i, j
  <2>2. j \in b.word[i] /\ i \in DOMAIN b.word
    BY <2>1 DEF Bits
  <2> QED
    BY <2>1, <2>2 DEF Allocated
<1> QED
  BY <1>1, <1>2

\* There are Entries identifiers.
LEMMA IDsFinite ==
  ASSUME NEW ids \in SUBSET ID
  PROVE  IsFiniteSet(ids) /\ Cardinality(ids) \in Nat /\ IsFiniteSet(ID) /\ Cardinality(ID) = Entries
<1>1. 0 \in Int /\ Entries - 1 \in Int /\ Entries \in Nat
  BY BitmapAssumption
<1>2. IsFiniteSet(ID) /\ Cardinality(ID) = Entries
  BY <1>1, FS_Interval DEF ID
<1> QED
  BY <1>2, FS_Subset, FS_CardinalityType

\* identifierBitmapAllocateID marks the identifier.
LEMMA MarkBits ==
  ASSUME NEW b, NEW ids, Bits(b, ids), NEW id \in ID \ ids
  PROVE  Bits(MarkID(b, id), ids \cup {id})
<1> DEFINE c == MarkID(b, id)
           x == id \div SlotSize
           y == id % SlotSize
<1>1. x \in Slot /\ y \in Bit /\ id = (x * SlotSize) + y
  BY PlaceOfID
<1>2. /\ c = [f \in {"word", "available"} |-> c[f]]
      /\ c.word = [b.word EXCEPT ![x] = @ \cup {y}]
      /\ c.available = b.available - 1
  BY Zenon DEF MarkID, Bits
<1> HIDE DEF c, x, y
<1>3. c.word \in [Slot -> SUBSET Bit]
  BY <1>1, <1>2 DEF Bits
<1>4. \A i \in Slot, j \in Bit : (i * SlotSize) + j = id <=> i = x /\ j = y
  BY <1>1, PlaceUnique DEF Slot
<1>5. \A i \in Slot, j \in Bit : j \in c.word[i] <=> j \in b.word[i] \/ (i = x /\ j = y)
  BY <1>1, <1>2 DEF Bits
<1>6. \A i \in Slot, j \in Bit : j \in c.word[i] <=> (i * SlotSize) + j \in ids \cup {id}
  BY <1>4, <1>5 DEF Bits
<1>7. c.available = Entries - Cardinality(ids \cup {id})
  <2>1. IsFiniteSet(ids) /\ Cardinality(ids) \in Nat
    BY IDsFinite DEF Bits
  <2>2. Cardinality(ids \cup {id}) = Cardinality(ids) + 1
    BY <2>1, FS_AddElement
  <2> QED
    BY <1>2, <2>1, <2>2, BitmapAssumption DEF Bits
<1>8. ids \cup {id} \subseteq ID
  BY DEF Bits
<1> QED
  BY <1>2, <1>3, <1>6, <1>7, <1>8 DEF Bits, c

\* A new bitmap has no identifier marked.
LEMMA EmptyBits ==
 Bits(EmptyBitmap, {})
<1>1. Cardinality({}) = 0
  BY FS_EmptySet
<1>2. EmptyBitmap.available = Entries /\ EmptyBitmap.word = [i \in Slot |-> {}]
  BY DEF EmptyBitmap, Slot
<1>3. EmptyBitmap = [f \in {"word", "available"} |-> EmptyBitmap[f]]
  BY Zenon DEF EmptyBitmap
<1>4. Entries = Entries - Cardinality({})
  BY <1>1, BitmapAssumption
<1> QED
  BY <1>2, <1>3, <1>4 DEF Bits

-----------------------------------------------------------------------------
(* The socket and its sessions *)

Field == {"type", "sessions", "bitmap", "connected", "sock", "preRead", "postRead", "mask",
          "partial", "waitingForFirst"}

SessionField == {"assoc", "incoming", "failed", "cookie", "echo", "pe"}

\* s is a record with the fields of a socket, r one with the fields of a session.
Shape(s) == s = [f \in Field |-> s[f]]

SessionShape(r) == r = [f \in SessionField |-> r[f]] /\ r.failed \in BOOLEAN

Notification ==
  {n \in [type : NotificationMask, what : {"add", "remove", "complete", "necessary", "shutdown"},
          session : Nat] : /\ n.what = "necessary" => n.type = "failover"
                           /\ n.type = "change" => n.what \in {"add", "remove"}}

\* Session changes are given before a read, and only then.
PostNotification == {n \in Notification : n.type # "change"}

SessionsOK(f) ==
  /\ f = [i \in DOMAIN f |-> f[i]]
  /\ DOMAIN f \subseteq ID \ {0}
  /\ \A i \in DOMAIN f : SessionShape(f[i])

QueuesOK(s) ==
  /\ s.preRead \in Seq(Notification) /\ s.postRead \in Seq(PostNotification)
  /\ s.mask \subseteq NotificationMask
  /\ s.partial \in BOOLEAN /\ s.sock \in BOOLEAN

\* The bitmap has the identifiers of the sessions marked, and 0; the connected
\* session is one of them.
SocketOK(s) ==
  /\ Shape(s)
  /\ SessionsOK(s.sessions)
  /\ QueuesOK(s)
  /\ Bits(s.bitmap, {0} \cup DOMAIN s.sessions)
  /\ s.connected \in {0} \cup DOMAIN s.sessions

\* t is s but for the fields F.
Same(s, t, F) == Shape(t) /\ \A f \in Field \ F : t[f] = s[f]

\* Changes of the queues, of the mask and of what is in the buffer.
LEMMA QueuesKeep ==
  ASSUME NEW s, SocketOK(s), NEW t, QueuesOK(t),
         Same(s, t, {"preRead", "postRead", "mask", "partial", "sock", "waitingForFirst"})
  PROVE  SocketOK(t)
  BY DEF SocketOK, Same, Field

\* Changes of one session.
LEMMA SessionKeeps ==
  ASSUME NEW s, SocketOK(s), NEW t, Same(s, t, {"sessions"}), NEW id \in DOMAIN s.sessions,
         NEW r, SessionShape(r), t.sessions = [s.sessions EXCEPT ![id] = r]
  PROVE  SocketOK(t) /\ DOMAIN t.sessions = DOMAIN s.sessions
<1>1. /\ t.bitmap = s.bitmap /\ t.connected = s.connected /\ t.preRead = s.preRead
      /\ t.postRead = s.postRead /\ t.mask = s.mask /\ t.partial = s.partial /\ t.sock = s.sock
  BY DEF Same, Field
<1>2. QueuesOK(t)
  BY <1>1 DEF SocketOK, QueuesOK
<1>3. DOMAIN t.sessions = DOMAIN s.sessions
  OBVIOUS
<1>4. SessionsOK(t.sessions)
  BY <1>3 DEF SocketOK, SessionsOK
<1> QED
  BY <1>1, <1>2, <1>3, <1>4 DEF SocketOK, Same

\* notificationQueueEnqueueNotification
LEMMA EnqueueIs ==
  ASSUME NEW s, SocketOK(s), NEW pre \in BOOLEAN, NEW n \in Notification,
         ~pre => n \in PostNotification
  PROVE  /\ SocketOK(Enqueue(s, pre, n))
         /\ Same(s, Enqueue(s, pre, n), {"preRead", "postRead"})
         /\ Enqueue(s, pre, n).preRead =
              IF pre /\ n.type \in s.mask THEN Append(s.preRead, n) ELSE s.preRead
         /\ Enqueue(s, pre, n).postRead =
              IF ~pre /\ n.type \in s.mask THEN Append(s.postRead, n) ELSE s.postRead
<1> DEFINE t == Enqueue(s, pre, n)
<1>1. /\ Same(s, t, {"preRead", "postRead"})
      /\ t.preRead = IF pre /\ n.type \in s.mask THEN Append(s.preRead, n) ELSE s.preRead
      /\ t.postRead = IF ~pre /\ n.type \in s.mask THEN Append(s.postRead, n) ELSE s.postRead
  <2>1. CASE n.type \notin s.mask
    BY <2>1 DEF SocketOK, Same, Shape, Enqueue
  <2>2. CASE n.type \in s.mask /\ pre = TRUE
    <3>1. t = [s EXCEPT !.preRead = Append(s.preRead, n)]
      BY <2>2 DEF Enqueue
    <3> QED
      BY <2>2, <3>1, Zenon DEF SocketOK, Same, Shape, Field
  <2>3. CASE n.type \in s.mask /\ pre = FALSE
    <3>1. t = [s EXCEPT !.postRead = Append(s.postRead, n)]
      BY <2>3 DEF Enqueue
    <3> QED
      BY <2>3, <3>1, Zenon DEF SocketOK, Same, Shape, Field
  <2> QED
    BY <2>1, <2>2, <2>3, Zenon
<1> HIDE DEF t
<1>2. t.mask = s.mask /\ t.partial = s.partial /\ t.sock = s.sock
  BY <1>1 DEF Same, Field
<1>3. QueuesOK(t)
  BY <1>1, <1>2 DEF SocketOK, QueuesOK
<1>4. SocketOK(t)
  BY <1>1, <1>3, QueuesKeep DEF Same
<1> QED
  BY <1>1, <1>4 DEF t

\* A notification to be given after a read goes to the end of its queue.
LEMMA EnqueuePost ==
  ASSUME NEW s, SocketOK(s), NEW n \in PostNotification
  PROVE  LET t == Enqueue(s, FALSE, n)
         IN  /\ SocketOK(t) /\ Same(s, t, {"postRead"})
             /\ t.postRead = IF n.type \in s.mask THEN Append(s.postRead, n) ELSE s.postRead
<1>1. PICK b \in BOOLEAN : b = FALSE
  BY Zenon
<1> DEFINE u == Enqueue(s, b, n)
<1>2. n \in Notification
  BY DEF PostNotification
<1>3. /\ SocketOK(u) /\ Same(s, u, {"preRead", "postRead"})
      /\ u.preRead = s.preRead
      /\ u.postRead = IF n.type \in s.mask THEN Append(s.postRead, n) ELSE s.postRead
  BY <1>1, <1>2, EnqueueIs
<1>4. u = Enqueue(s, FALSE, n)
  BY <1>1, Zenon
<1> HIDE DEF u
<1>5. Same(s, u, {"postRead"})
  BY <1>3 DEF Same, Field
<1> QED
  BY <1>3, <1>4, <1>5, Zenon

\* addSession() with a free identifier: the session is added, its identifier marked.
LEMMA AddSessionIs ==
  \A s, assoc :
  \A isIncoming \in BOOLEAN :
      /\ SocketOK(s)
      /\ {0} \cup DOMAIN s.sessions # ID
      =>
         LET t == AddSession(s, assoc, isIncoming)
             id == AllocateID(s.bitmap)
         IN  /\ SocketOK(t) /\ Same(s, t, {"sessions", "bitmap"})
             /\ id \in ID \ ({0} \cup DOMAIN s.sessions)
             /\ DOMAIN s.sessions = {} => id = 1
             /\ DOMAIN t.sessions = DOMAIN s.sessions \cup {id}
             /\ \A i \in DOMAIN s.sessions : t.sessions[i] = s.sessions[i]
             /\ t.sessions[id].assoc = assoc
             /\ t.sessions[id].failed = ~isIncoming

\* Every identifier that is not marked is one that identifierBitmapAllocateID
\* may find, and it finds the smallest one.
<1>AllocateFree.
  ASSUME NEW b, NEW ids, Bits(b, ids), NEW e \in ID \ ids
  PROVE  AllocateID(b) \in ID \ ids /\ AllocateID(b) <= e
  <2> USE <1>AllocateFree
  <2> DEFINE I == {k \in DOMAIN b.word : b.word[k] # Bit}
             i == Min(I)
             J == Bit \ b.word[i]
             j == Min(J)
             x == e \div SlotSize
             y == e % SlotSize
  <2>1. x \in Slot /\ y \in Bit /\ e = (x * SlotSize) + y
    BY PlaceOfID
  <2> HIDE DEF x, y
  <2>2. y \notin b.word[x]
    BY <2>1 DEF Bits
  <2>3. x \in I /\ I \subseteq Slot
    BY <2>1, <2>2 DEF Bits
  <2>4. i \in I /\ \A k \in I : i <= k
    <3>1. I \subseteq Nat /\ I # {}
      BY <2>3 DEF Slot
    <3>2. \E n \in I : \A m \in I : n <= m
      BY <3>1, SmallestNumber, Zenon
    <3> QED
      BY <3>2 DEF Min
  <2>5. i \in Slot /\ i <= x /\ J # {}
    BY <2>3, <2>4, Zenon DEF Bits
  <2> HIDE DEF I, i
  <2>6. j \in J /\ \A k \in J : j <= k
    <3>1. J \subseteq Nat
      BY DEF Bit
    <3>2. \E n \in J : \A m \in J : n <= m
      BY <2>5, <3>1, SmallestNumber, Zenon
    <3> QED
      BY <3>2 DEF Min
  <2>7. j \in Bit /\ j \notin b.word[i]
    BY <2>6
  <2>8. i = x => j <= y
    BY <2>1, <2>2, <2>6
  <2> HIDE DEF J, j
  <2> DEFINE id == (i * SlotSize) + j
  <2>9. id \notin ids
    BY <2>5, <2>7 DEF Bits
  <2>10. id \in Nat /\ id <= e
    <3>1. SlotSize \in Nat \ {0} /\ i \in Nat /\ x \in Nat /\ j \in 0 .. SlotSize - 1 /\ y \in Nat
      BY <2>1, <2>5, <2>7, BitmapAssumption DEF Slot, Bit
    <3>2. CASE i = x
      BY <2>1, <2>8, <3>1, <3>2
    <3>3. CASE i < x
      <4>1. x - (i + 1) \in Nat
        BY <3>1, <3>3
      <4>2. (x - (i + 1)) * SlotSize >= 0
        BY <3>1, <4>1
      <4>3. x * SlotSize >= (i * SlotSize) + SlotSize
        BY <3>1, <4>2
      <4>4. i * SlotSize \in Nat /\ x * SlotSize \in Nat
        BY <3>1
      <4> QED
        BY <2>1, <3>1, <4>3, <4>4
    <3> QED
      BY <2>5, <3>1, <3>2, <3>3
  <2>11. id \in ID
    BY <2>10, BitmapAssumption DEF ID
  <2>12. b.available # 0
    <3>1. ids \subseteq ID /\ ids # ID
      BY DEF Bits
    <3>2. IsFiniteSet(ID) /\ Cardinality(ID) = Entries
      BY IDsFinite
    <3>3. Cardinality(ids) < Cardinality(ID) /\ Cardinality(ids) \in Nat
      BY <3>1, <3>2, FS_Subset, FS_CardinalityType
    <3> QED
      BY <3>2, <3>3, BitmapAssumption DEF Bits
  <2>13. AllocateID(b) = id
    BY <2>12 DEF AllocateID, id, i, j, I, J, Bit
  <2> HIDE DEF id
  <2> QED
    BY <2>9, <2>10, <2>11, <2>13
<1> SUFFICES ASSUME NEW s, SocketOK(s), {0} \cup DOMAIN s.sessions # ID, NEW assoc,
                    NEW isIncoming \in BOOLEAN
             PROVE  LET t == AddSession(s, assoc, isIncoming)
                        id == AllocateID(s.bitmap)
                    IN  /\ SocketOK(t) /\ Same(s, t, {"sessions", "bitmap"})
                        /\ id \in ID \ ({0} \cup DOMAIN s.sessions)
                        /\ DOMAIN s.sessions = {} => id = 1
                        /\ DOMAIN t.sessions = DOMAIN s.sessions \cup {id}
                        /\ \A i \in DOMAIN s.sessions : t.sessions[i] = s.sessions[i]
                        /\ t.sessions[id].assoc = assoc
                        /\ t.sessions[id].failed = ~isIncoming
  OBVIOUS
<1> DEFINE t == AddSession(s, assoc, isIncoming)
           id == AllocateID(s.bitmap)
           ids == {0} \cup DOMAIN s.sessions
           r == [assoc |-> assoc, incoming |-> isIncoming, failed |-> ~isIncoming,
                 cookie |-> 0, echo |-> 0, pe |-> 0]
<1>1. Bits(s.bitmap, ids) /\ ids \subseteq ID
  BY DEF SocketOK, Bits
<1>2. PICK e \in ID : e \notin ids
  BY <1>1
<1>3. id \in ID \ ids
  BY <1>1, <1>2, <1>AllocateFree
<1>4. DOMAIN s.sessions = {} => id = 1
  <2> SUFFICES ASSUME DOMAIN s.sessions = {} PROVE id = 1
    OBVIOUS
  <2>1. 1 \in ID \ ids
    BY BitmapAssumption DEF ID
  <2>2. id <= 1
    BY <1>1, <2>1, <1>AllocateFree
  <2> QED
    BY <1>3, <2>2 DEF ID
<1>5. Bits(MarkID(s.bitmap, id), ids \cup {id})
  BY <1>1, <1>3, MarkBits
<1>6. id # Entries
  BY <1>3, BitmapAssumption DEF ID
<1>7. SessionShape(r) /\ r.assoc = assoc /\ r.failed = ~isIncoming
  BY DEF SessionShape, SessionField
<1> HIDE DEF r
<1>8. /\ Same(s, t, {"sessions", "bitmap"})
      /\ t.bitmap = MarkID(s.bitmap, id)
      /\ t.sessions = Function(s.sessions, id, r)
  BY <1>6, Zenon DEF AddSession, SocketOK, Same, Shape, Field, r
<1> HIDE DEF t, id
<1>9. /\ DOMAIN t.sessions = DOMAIN s.sessions \cup {id}
      /\ t.sessions = [i \in DOMAIN t.sessions |-> t.sessions[i]]
      /\ t.sessions[id] = r
      /\ \A i \in DOMAIN s.sessions : t.sessions[i] = s.sessions[i]
  BY <1>3, <1>8 DEF Function
<1>10. SessionsOK(t.sessions)
  BY <1>3, <1>7, <1>9 DEF SocketOK, SessionsOK
<1>11. ids \cup {id} = {0} \cup DOMAIN t.sessions
  BY <1>9
<1>12. /\ t.connected = s.connected /\ t.preRead = s.preRead
       /\ t.postRead = s.postRead /\ t.mask = s.mask /\ t.partial = s.partial /\ t.sock = s.sock
  BY <1>8 DEF Same, Field
<1>13. QueuesOK(t)
  BY <1>12 DEF SocketOK, QueuesOK
<1>14. Bits(t.bitmap, {0} \cup DOMAIN t.sessions)
  BY Zenon, <1>5, <1>8, <1>11
<1>15. SocketOK(t)
  BY <1>8, <1>9, <1>10, <1>12, <1>13, <1>14 DEF SocketOK, Same
<1> QED
  BY Zenon, <1>3, <1>4, <1>7, <1>8, <1>9, <1>15 DEF t, id

-----------------------------------------------------------------------------
(* What the handlers of sessioncontrol.c do to a socket *)

\* The smallest number of a set.
LEMMA MinIn ==
  ASSUME NEW S, S \subseteq Nat, S # {}
  PROVE  Min(S) \in S /\ \A x \in S : Min(S) <= x
<1>1. \E n \in S : \A m \in S : n <= m
  BY SmallestNumber, Zenon
<1> QED
  BY <1>1, Zenon DEF Min

\* The notifications of sessioncontrol.c.
LEMMA NotificationTypes ==
  ASSUME NEW id \in Nat
  PROVE  /\ SessionChange("add", id) \in Notification
         /\ SessionChange("remove", id) \in Notification
         /\ Failover("complete", id) \in Notification
         /\ Failover("necessary", id) \in Notification
         /\ ShutdownEvent(id) \in Notification
         /\ Failover("necessary", id) \in PostNotification
         /\ ShutdownEvent(id) \in PostNotification
  BY DEF PostNotification, Notification, SessionChange, Failover, ShutdownEvent, NotificationMask

\* The session id of association a has begun, or has ended, and is announced.
Begins(s, t, a, id) ==
  /\ id \in ID \ ({0} \cup DOMAIN s.sessions)
  /\ DOMAIN t.sessions = DOMAIN s.sessions \cup {id}
  /\ \A i \in DOMAIN s.sessions : t.sessions[i].assoc = s.sessions[i].assoc
  /\ t.sessions[id].assoc = a
  /\ t.preRead = Append(s.preRead, SessionChange("add", id))

Ends(s, t, a, id) ==
  /\ id \in WithAssoc(s, a)
  /\ DOMAIN t.sessions = DOMAIN s.sessions \ {id}
  /\ \A i \in DOMAIN t.sessions : t.sessions[i].assoc = s.sessions[i].assoc
  /\ t.preRead = Append(s.preRead, SessionChange("remove", id))

\* The identifiers and the notifications to give before a read stay.
Steady(s, t) ==
  /\ SocketOK(t)
  /\ Same(s, t, {"sessions", "postRead", "partial", "waitingForFirst"})
  /\ DOMAIN t.sessions = DOMAIN s.sessions

\* The sessions keep their associations and marks.
SameSessions(s, t) ==
  \A i \in DOMAIN s.sessions :
    t.sessions[i].assoc = s.sessions[i].assoc /\ t.sessions[i].failed = s.sessions[i].failed

\* What is to be given after a read stays, and there may be more of it.
Queued(s, t) ==
  t.postRead = s.postRead \/ \E n \in PostNotification : t.postRead = Append(s.postRead, n)

\* handleShutdown() keeps the sessions; at most, it queues a notification.
LEMMA HandleShutdownIs ==
  ASSUME NEW s, SocketOK(s), NEW a
  PROVE  LET t == HandleShutdown(s, a)
         IN  Steady(s, t) /\ SameSessions(s, t) /\ Queued(s, t) /\ t.partial = s.partial
<1>1. CASE WithAssoc(s, a) = {}
  BY <1>1, Zenon DEF HandleShutdown, SocketOK, Steady, Same, SameSessions, Queued
<1>2. CASE WithAssoc(s, a) # {}
  <2> DEFINE id == Min(WithAssoc(s, a))
             n == ShutdownEvent(id)
             t == Enqueue(s, FALSE, n)
  <2>1. WithAssoc(s, a) \subseteq Nat
    BY DEF WithAssoc, SocketOK, SessionsOK, ID
  <2>2. n \in PostNotification
    BY <1>2, <2>1, MinIn, NotificationTypes
  <2>3. HandleShutdown(s, a) = t
    BY <1>2, Zenon DEF HandleShutdown
  <2>4. /\ SocketOK(t) /\ Same(s, t, {"postRead"})
        /\ t.postRead = s.postRead \/ t.postRead = Append(s.postRead, n)
    BY <2>2, EnqueuePost, ZenonT(40)
  <2> HIDE DEF t, n
  <2>5. t.sessions = s.sessions /\ t.partial = s.partial
    BY <2>4 DEF Same, Field
  <2>6. Steady(s, t)
    BY <2>4, <2>5 DEF Steady, Same, Field
  <2> QED
    BY Zenon, <2>2, <2>3, <2>4, <2>5, <2>6 DEF SameSessions, Queued
<1> QED
  BY <1>1, <1>2

\* handleControlChannelMessage() stores a cookie, or the echo of one.
LEMMA HandleControlChannelMessageIs ==
  ASSUME NEW s, SocketOK(s), NEW m
  PROVE  LET t == HandleControlChannelMessage(s, m)
         IN  /\ Steady(s, t) /\ SameSessions(s, t)
             /\ t.postRead = s.postRead /\ t.partial = s.partial
<1> DEFINE u == HandleControlChannelMessage(s, m)
           id == Min(FindSession(s, m.assoc))
<1>1. CASE u = s
  BY <1>1 DEF SocketOK, Steady, Same, SameSessions
<1>2. ASSUME FindSession(s, m.assoc) # {} PROVE id \in DOMAIN s.sessions
  <2>1. FindSession(s, m.assoc) \subseteq DOMAIN s.sessions
    BY DEF FindSession, WithAssoc, SocketOK
  <2>2. FindSession(s, m.assoc) \subseteq Nat
    BY <2>1 DEF SocketOK, SessionsOK, ID
  <2> QED
    BY <1>2, <2>1, <2>2, MinIn
<1>3. ASSUME NEW r, NEW i \in DOMAIN s.sessions, SessionShape(r), r.assoc = s.sessions[i].assoc,
             r.failed = s.sessions[i].failed, Same(s, u, {"sessions"}),
             u.sessions = [s.sessions EXCEPT ![i] = r]
      PROVE  /\ Steady(s, u) /\ SameSessions(s, u)
             /\ u.postRead = s.postRead /\ u.partial = s.partial
  <2> HIDE DEF u
  <2>1. SocketOK(u) /\ DOMAIN u.sessions = DOMAIN s.sessions
    BY <1>3, SessionKeeps
  <2>2. u.postRead = s.postRead /\ u.partial = s.partial
    BY <1>3 DEF Same, Field
  <2>3. Steady(s, u)
    BY <1>3, <2>1 DEF Steady, Same, Field
  <2>4. SameSessions(s, u)
    BY <1>3 DEF SameSessions
  <2> QED
    BY <2>2, <2>3, <2>4
<1>4. CASE FindSession(s, m.assoc) # {} /\ u # s
  <2>1. id \in DOMAIN s.sessions
    BY Zenon, <1>2, <1>4
  <2>2. \/ u = [s EXCEPT !.sessions[id].cookie = m.cookie]
        \/ u = [s EXCEPT !.sessions[id].echo = m.cookie]
    BY <1>4 DEF HandleControlChannelMessage
  <2> HIDE DEF u, id
  <2>3. SessionShape(s.sessions[id]) /\ Shape(s)
    BY Zenon, <2>1 DEF SocketOK, SessionsOK
  <2>4. CASE u = [s EXCEPT !.sessions[id].cookie = m.cookie]
    <3> DEFINE r == [s.sessions[id] EXCEPT !.cookie = m.cookie]
    <3>1. SessionShape(r) /\ r.assoc = s.sessions[id].assoc /\ r.failed = s.sessions[id].failed
      BY <2>3 DEF SessionShape, SessionField
    <3>2. Same(s, u, {"sessions"}) /\ u.sessions = [s.sessions EXCEPT ![id] = r]
      BY Zenon, <2>3, <2>4 DEF Same, Shape, Field
    <3> HIDE DEF r
    <3> QED
      BY Zenon, <1>3, <2>1, <3>1, <3>2 DEF u
  <2>5. CASE u = [s EXCEPT !.sessions[id].echo = m.cookie]
    <3> DEFINE r == [s.sessions[id] EXCEPT !.echo = m.cookie]
    <3>1. SessionShape(r) /\ r.assoc = s.sessions[id].assoc /\ r.failed = s.sessions[id].failed
      BY <2>3 DEF SessionShape, SessionField
    <3>2. Same(s, u, {"sessions"}) /\ u.sessions = [s.sessions EXCEPT ![id] = r]
      BY <2>3, <2>5 DEF Same, Shape, Field
    <3> HIDE DEF r
    <3> QED
      BY <1>3, <2>1, <3>1, <3>2 DEF u
  <2> QED
    BY <2>2, <2>4, <2>5 DEF u
<1>5. FindSession(s, m.assoc) = {} => u = s
  BY DEF HandleControlChannelMessage
<1> QED
  BY Zenon, <1>1, <1>4, <1>5

\* The application will be told that a failover is necessary.
NecessaryIn(s) == \E i \in DOMAIN s.postRead : s.postRead[i].what = "necessary"

\* A session is marked as failed (rsp_sendmsg(), rsp_recvmsg()).
MarkFailed(s, id) ==
  [Enqueue(s, FALSE, Failover("necessary", id)) EXCEPT !.sessions[id].failed = TRUE]

\* Marking a session as failed keeps its association, and queues a notification.
LEMMA MarkFailedIs ==
  ASSUME NEW s, SocketOK(s), NEW id \in DOMAIN s.sessions
  PROVE  LET t == MarkFailed(s, id)
         IN  /\ Steady(s, t) /\ Queued(s, t) /\ t.partial = s.partial
             /\ \A i \in DOMAIN s.sessions : t.sessions[i].assoc = s.sessions[i].assoc
             /\ "failover" \in s.mask => NecessaryIn(t)
<1> DEFINE n == Failover("necessary", id)
           u == Enqueue(s, FALSE, n)
           r == [u.sessions[id] EXCEPT !.failed = TRUE]
           t == [u EXCEPT !.sessions[id].failed = TRUE]
<1>1. id \in Nat
  BY DEF SocketOK, SessionsOK, ID
<1>2. n \in PostNotification /\ n.type = "failover" /\ n.what = "necessary"
  BY <1>1, NotificationTypes, Zenon DEF Failover
<1>3. MarkFailed(s, id) = t
  BY DEF MarkFailed
<1>4. /\ SocketOK(u) /\ Same(s, u, {"postRead"})
      /\ u.postRead = IF n.type \in s.mask THEN Append(s.postRead, n) ELSE s.postRead
  BY <1>2, EnqueuePost, ZenonT(40)
<1> HIDE DEF n, u
<1>5. u.sessions = s.sessions
  BY Zenon, <1>4 DEF Same, Field
<1>6. SessionShape(u.sessions[id])
  BY <1>4, <1>5 DEF SocketOK, SessionsOK
<1>7. SessionShape(r) /\ r.assoc = u.sessions[id].assoc
  BY <1>6, Zenon DEF SessionShape, SessionField
<1>8. Same(u, t, {"sessions"}) /\ t.sessions = [u.sessions EXCEPT ![id] = r]
  BY <1>4, ZenonT(40) DEF SocketOK, Same, Shape, Field
<1> HIDE DEF r, t
<1>9. SocketOK(t) /\ DOMAIN t.sessions = DOMAIN s.sessions
  BY Zenon, <1>4, <1>5, <1>7, <1>8, SessionKeeps
<1>10. t.postRead = u.postRead /\ t.partial = s.partial
  BY <1>4, <1>8 DEF Same, Field
<1>11. Steady(s, t)
  BY <1>4, <1>8, <1>9 DEF Steady, Same, Field
<1>12. Queued(s, t)
  BY Zenon, <1>2, <1>4, <1>10 DEF Queued
<1>13. \A i \in DOMAIN s.sessions : t.sessions[i].assoc = s.sessions[i].assoc
  BY <1>5, <1>7, <1>8
<1>14. ASSUME "failover" \in s.mask PROVE NecessaryIn(t)
  <2>1. s.postRead \in Seq(PostNotification) /\ t.postRead = Append(s.postRead, n)
    BY Zenon, <1>2, <1>4, <1>10, <1>14 DEF SocketOK, QueuesOK
  <2>2. Len(s.postRead) + 1 \in DOMAIN t.postRead /\ t.postRead[Len(s.postRead) + 1] = n
    BY <1>2, <2>1
  <2> QED
    BY Zenon, <1>2, <2>2 DEF NecessaryIn
<1> QED
  BY Zenon, <1>3, <1>10, <1>11, <1>12, <1>13, <1>14

\* The first k notifications of the queue f are taken.
Rest(s, f, k) == [s EXCEPT ![f] = SubSeq(s[f], k + 1, Len(s[f]))]

\* From s, the queue f gives g and t is left: the first notification whose type
\* is wanted, or, when there is none, an echo or nothing.
Takes(s, f, t, g) ==
  /\ SocketOK(t) /\ Same(s, t, {"sessions", f}) /\ SameSessions(s, t)
  /\ DOMAIN t.sessions = DOMAIN s.sessions
  /\ \/ \E i \in DOMAIN s[f] :
          /\ g = s[f][i] /\ t[f] = SubSeq(s[f], i + 1, Len(s[f]))
          /\ \A k \in DOMAIN s[f] : k < i => s[f][k].type \notin s.mask
     \/ /\ g.type \in {"echo", "nothing"} /\ t[f] = SubSeq(s[f], Len(s[f]) + 1, Len(s[f]))
        /\ \A k \in DOMAIN s[f] : s[f][k].type \notin s.mask

\* getCookieEchoOrNotification() takes from the queue it is asked for.
LEMMA GetTakes ==
  \A s :
      /\ SocketOK(s)
      =>
         LET a == GetCookieEchoOrNotification(s, TRUE)
             b == GetCookieEchoOrNotification(s, FALSE)
         IN  Takes(s, "preRead", a.socket, a.given) /\ Takes(s, "postRead", b.socket, b.given)

\* A queue without its first notifications.
<1>RestIs.
  ASSUME NEW s, SocketOK(s), NEW f \in {"preRead", "postRead"}, NEW k \in 0..Len(s[f])
  PROVE  /\ SocketOK(Rest(s, f, k)) /\ Same(s, Rest(s, f, k), {f})
         /\ Rest(s, f, k)[f] = SubSeq(s[f], k + 1, Len(s[f]))
  <2> USE <1>RestIs
  <2> DEFINE t == Rest(s, f, k)
  <2>1. s.preRead \in Seq(Notification) /\ s.postRead \in Seq(PostNotification)
    BY DEF SocketOK, QueuesOK
  <2>2. Same(s, t, {f}) /\ t[f] = SubSeq(s[f], k + 1, Len(s[f]))
    BY Zenon DEF Rest, SocketOK, Same, Shape, Field
  <2> HIDE DEF t
  <2>3. t.mask = s.mask /\ t.partial = s.partial /\ t.sock = s.sock
    BY <2>2 DEF Same, Field
  <2>4. t.preRead \in Seq(Notification) /\ t.postRead \in Seq(PostNotification)
    <3>1. CASE f = "preRead"
      <4>1. t.postRead = s.postRead
        BY <2>2, <3>1 DEF Same, Field
      <4>2. k + 1 \in Nat /\ Len(s.preRead) \in Nat
        BY <2>1, <3>1
      <4>3. t.preRead = SubSeq(s.preRead, k + 1, Len(s.preRead))
        BY <2>2, <3>1
      <4> QED
        BY <2>1, <4>1, <4>2, <4>3
    <3>2. CASE f = "postRead"
      <4>1. t.preRead = s.preRead
        BY <2>2, <3>2 DEF Same, Field
      <4>2. k + 1 \in Nat /\ Len(s.postRead) \in Nat
        BY <2>1, <3>2
      <4>3. t.postRead = SubSeq(s.postRead, k + 1, Len(s.postRead))
        BY <2>2, <3>2
      <4> QED
        BY <2>1, <4>1, <4>2, <4>3
    <3> QED
      BY <3>1, <3>2
  <2>5. QueuesOK(t)
    BY <2>3, <2>4 DEF SocketOK, QueuesOK
  <2>6. SocketOK(t)
    BY <2>2, <2>5, QueuesKeep DEF Same
  <2> QED
    BY <2>2, <2>6 DEF t

\* A cookie echo is given to the application once.
<1>EchoTaken.
  ASSUME NEW s, SocketOK(s), NEW id \in DOMAIN s.sessions
  PROVE  LET t == [s EXCEPT !.sessions[id].echo = 0]
         IN  /\ SocketOK(t) /\ Same(s, t, {"sessions"}) /\ SameSessions(s, t)
             /\ DOMAIN t.sessions = DOMAIN s.sessions
  <2> USE <1>EchoTaken
  <2> DEFINE t == [s EXCEPT !.sessions[id].echo = 0]
             r == [s.sessions[id] EXCEPT !.echo = 0]
  <2>1. SessionShape(s.sessions[id])
    BY DEF SocketOK, SessionsOK
  <2>2. SessionShape(r) /\ r.assoc = s.sessions[id].assoc /\ r.failed = s.sessions[id].failed
    BY <2>1 DEF SessionShape, SessionField
  <2>3. Same(s, t, {"sessions"}) /\ t.sessions = [s.sessions EXCEPT ![id] = r]
    BY DEF SocketOK, Same, Shape, Field
  <2> HIDE DEF r, t
  <2>4. SocketOK(t) /\ DOMAIN t.sessions = DOMAIN s.sessions
    BY Zenon, <2>2, <2>3, SessionKeeps
  <2>5. SameSessions(s, t)
    BY <2>2, <2>3 DEF SameSessions
  <2> QED
    BY <2>3, <2>4, <2>5 DEF t
<1> SUFFICES ASSUME NEW s, SocketOK(s)
             PROVE  LET a == GetCookieEchoOrNotification(s, TRUE)
                        b == GetCookieEchoOrNotification(s, FALSE)
                    IN  Takes(s, "preRead", a.socket, a.given) /\ Takes(s, "postRead", b.socket, b.given)
  BY Zenon
<1> DEFINE echoes == {id \in DOMAIN s.sessions : s.sessions[id].echo # 0}
           Wanted(f) == {i \in DOMAIN s[f] : s[f][i].type \in s.mask}
           e == Min(echoes)
           Echo(f) == [socket |-> [Rest(s, f, Len(s[f])) EXCEPT !.sessions[e].echo = 0],
                       given |-> [type |-> "echo", session |-> e, cookie |-> s.sessions[e].echo]]
           Some(f) == [socket |-> Rest(s, f, Min(Wanted(f))), given |-> s[f][Min(Wanted(f))]]
           None(f) == [socket |-> Rest(s, f, Len(s[f])), given |-> Nothing]
           Get(f) == CASE Wanted(f) # {} -> Some(f)
                       [] Wanted(f) = {} /\ echoes # {} -> Echo(f)
                       [] OTHER -> None(f)
<1>1. /\ GetCookieEchoOrNotification(s, TRUE) = Get("preRead")
      /\ GetCookieEchoOrNotification(s, FALSE) = Get("postRead")
  BY ZenonT(40) DEF GetCookieEchoOrNotification, Rest
<1>2. ASSUME NEW f \in {"preRead", "postRead"}
      PROVE  Takes(s, f, Get(f).socket, Get(f).given)
  <2>1. s[f] \in Seq(Notification)
    BY <1>2 DEF SocketOK, QueuesOK, PostNotification
  <2>2. Len(s[f]) \in Nat /\ DOMAIN s[f] = 1..Len(s[f])
    BY <2>1
  <2>3. CASE Wanted(f) # {}
    <3> DEFINE i == Min(Wanted(f))
    <3>1. Wanted(f) \subseteq Nat
      BY <2>2
    <3>2. i \in Wanted(f) /\ \A k \in Wanted(f) : i <= k
      BY ZenonT(40), <2>3, <3>1, MinIn
    <3>3. Get(f).socket = Rest(s, f, i) /\ Get(f).given = s[f][i]
      BY <2>3
    <3> HIDE DEF i
    <3>4. i \in 1..Len(s[f]) /\ s[f][i].type \in s.mask
      BY <2>2, <3>2
    <3>5. \A k \in DOMAIN s[f] : k < i => s[f][k].type \notin s.mask
      BY <2>2, <3>2, <3>4
    <3> HIDE DEF Get, Wanted
    <3>6. /\ SocketOK(Rest(s, f, i)) /\ Same(s, Rest(s, f, i), {f})
          /\ Rest(s, f, i)[f] = SubSeq(s[f], i + 1, Len(s[f]))
      <4>1. i \in 0..Len(s[f])
        BY <2>2, <3>4
      <4> QED
        BY <1>2, <4>1, <1>RestIs, ZenonT(40)
    <3>7. Rest(s, f, i).sessions = s.sessions
      BY <3>6 DEF Same, Field
    <3>8. Same(s, Rest(s, f, i), {"sessions", f}) /\ SameSessions(s, Rest(s, f, i))
      BY <3>6, <3>7 DEF Same, SameSessions
    <3> QED
      BY <2>2, <3>3, <3>4, <3>5, <3>6, <3>7, <3>8, Zenon DEF Takes
  <2>4. CASE Wanted(f) = {}
    <3> DEFINE n == Len(s[f])
               u == Rest(s, f, n)
    <3>1. \A k \in DOMAIN s[f] : s[f][k].type \notin s.mask
      BY <2>4
    <3>2. /\ SocketOK(u) /\ Same(s, u, {f})
          /\ u[f] = SubSeq(s[f], n + 1, n)
      <4>1. n \in 0..Len(s[f])
        BY <2>2
      <4> QED
        BY <1>2, <4>1, <1>RestIs, ZenonT(40)
    <3>3. u.sessions = s.sessions
      BY <3>2 DEF Same, Field
    <3>4. CASE echoes = {}
      <4>1. Get(f) = None(f)
        BY <2>4, <3>4, ZenonT(40)
      <4> HIDE DEF Get, Wanted, echoes
      <4>2. Get(f).socket = u /\ Get(f).given.type = "nothing"
        BY <4>1 DEF Nothing
      <4> HIDE DEF u
      <4>3. Same(s, u, {"sessions", f}) /\ SameSessions(s, u)
        BY <3>2, <3>3 DEF Same, SameSessions
      <4> QED
        BY <3>1, <3>2, <3>3, <4>2, <4>3, ZenonT(40) DEF Takes
    <3>5. CASE echoes # {}
      <4>1. Get(f) = Echo(f)
        BY <2>4, <3>5
      <4> DEFINE v == [u EXCEPT !.sessions[e].echo = 0]
      <4>3. echoes \subseteq Nat
        BY DEF SocketOK, SessionsOK, ID
      <4>4. e \in echoes
        BY <3>5, <4>3, MinIn
      <4>5. e \in DOMAIN u.sessions
        BY <3>3, <4>4
      <4> HIDE DEF Get, Wanted, echoes, e
      <4>2. Get(f).socket = v /\ Get(f).given.type = "echo"
        BY <4>1
      <4> HIDE DEF u
      <4>6. /\ SocketOK(v) /\ Same(u, v, {"sessions"}) /\ SameSessions(u, v)
            /\ DOMAIN v.sessions = DOMAIN u.sessions
        BY Zenon, <3>2, <4>5, <1>EchoTaken
      <4> HIDE DEF v
      <4>7. Same(s, v, {"sessions", f}) /\ SameSessions(s, v)
        BY <3>2, <3>3, <4>6 DEF Same, SameSessions
      <4>8. v[f] = u[f]
        BY <4>6 DEF Same, Field
      <4> QED
        BY <3>1, <3>2, <3>3, <4>2, <4>6, <4>7, <4>8, ZenonT(40) DEF Takes
    <3> QED
      BY <3>4, <3>5, Zenon
  <2> QED
    BY <2>3, <2>4, Zenon
<1> QED
  BY <1>1, <1>2, ZenonT(40)

-----------------------------------------------------------------------------
(* Reading from the socket *)

\* What may wait in a socket.
Message ==
  [kind : {"data", "piece", "up", "lost", "shutdown"}, assoc : Assoc \cup {0}]
  \cup [kind : {"cookie", "echo"}, assoc : Assoc \cup {0}, cookie : Nat]

\* The message i of the queue q says that the association a has come up, is lost.
Ups(q, a, i) == i \in DOMAIN q /\ q[i].kind = "up" /\ q[i].assoc = a
Lost(q, a, i) == i \in DOMAIN q /\ q[i].kind = "lost" /\ q[i].assoc = a

\* What is waiting in q fits to the associations H that have a session and to the
\* associations A that are up: an identifier is used again only after its loss.
Fits(H, q, A) ==
  /\ \A a, i, j : Ups(q, a, i) /\ Ups(q, a, j) /\ i < j => \E k : Lost(q, a, k) /\ i < k /\ k < j
  /\ \A a, j : Ups(q, a, j) /\ a \in H => \E k : Lost(q, a, k) /\ k < j
  /\ \A a, i : Ups(q, a, i) /\ a \notin A => \E k : Lost(q, a, k) /\ i < k
  /\ \A a : a \in H /\ a \notin A => \E k : Lost(q, a, k)

\* The associations that have a session.
Assocs(s) == {s.sessions[i].assoc : i \in DOMAIN s.sessions}

Distinct(s) == \A i, j \in DOMAIN s.sessions : s.sessions[i].assoc = s.sessions[j].assoc => i = j

-----------------------------------------------------------------------------
(* The associations of a server, and what it has still to read about them *)

\* A message that arrives is the last one of the queue.
LEMMA InAppend ==
  ASSUME NEW q \in Seq(Message), NEW m \in Message, NEW a, NEW i
  PROVE  /\ Ups(Append(q, m), a, i) <=>
              Ups(q, a, i) \/ (i = Len(q) + 1 /\ m.kind = "up" /\ m.assoc = a)
         /\ Lost(Append(q, m), a, i) <=>
              Lost(q, a, i) \/ (i = Len(q) + 1 /\ m.kind = "lost" /\ m.assoc = a)
         /\ Ups(q, a, i) => i \in Nat /\ i < Len(q) + 1
         /\ Lost(q, a, i) => i \in Nat /\ i < Len(q) + 1
<1>1. /\ Len(q) \in Nat /\ DOMAIN q = 1..Len(q) /\ DOMAIN Append(q, m) = 1..(Len(q) + 1)
      /\ Append(q, m)[Len(q) + 1] = m
      /\ \A k \in 1..Len(q) : Append(q, m)[k] = q[k]
  OBVIOUS
<1> QED
  BY <1>1 DEF Ups, Lost

\* Reading the first message moves the others up by one.
LEMMA InTail ==
  ASSUME NEW q \in Seq(Message), q # << >>, NEW a, NEW i
  PROVE  /\ Ups(Tail(q), a, i) => i \in Nat /\ i >= 1 /\ Ups(q, a, i + 1)
         /\ Lost(Tail(q), a, i) => i \in Nat /\ i >= 1 /\ Lost(q, a, i + 1)
         /\ Ups(q, a, i) => i \in Nat /\ i >= 1 /\ (i # 1 => Ups(Tail(q), a, i - 1))
         /\ Lost(q, a, i) => i \in Nat /\ i >= 1 /\ (i # 1 => Lost(Tail(q), a, i - 1))
         /\ Ups(q, a, 1) <=> Head(q).kind = "up" /\ Head(q).assoc = a
         /\ Lost(q, a, 1) <=> Head(q).kind = "lost" /\ Head(q).assoc = a
<1>1. /\ Len(q) \in Nat \ {0} /\ DOMAIN q = 1..Len(q) /\ DOMAIN Tail(q) = 1..(Len(q) - 1)
      /\ \A k \in 1..(Len(q) - 1) : Tail(q)[k] = q[k + 1]
      /\ Head(q) = q[1]
  OBVIOUS
<1> QED
  BY <1>1 DEF Ups, Lost

\* An association comes up, or is lost, or something else arrives.
LEMMA FitsUp ==
  ASSUME NEW q \in Seq(Message), NEW m \in Message, NEW H, NEW A, Fits(H, q, A),
         m.kind = "up", m.assoc \notin A
  PROVE  Fits(H, Append(q, m), A \cup {m.assoc})
<1> DEFINE r == Append(q, m)
           B == A \cup {m.assoc}
<1>1. ASSUME NEW a, NEW i, NEW j, Ups(r, a, i), Ups(r, a, j), i < j
      PROVE  \E k : Lost(r, a, k) /\ i < k /\ k < j
  BY <1>1, InAppend DEF Fits
<1>2. ASSUME NEW a, NEW j, Ups(r, a, j), a \in H
      PROVE  \E k : Lost(r, a, k) /\ k < j
  BY <1>2, InAppend DEF Fits
<1>3. ASSUME NEW a, NEW i, Ups(r, a, i), a \notin B
      PROVE  \E k : Lost(r, a, k) /\ i < k
  BY <1>3, InAppend DEF Fits
<1>4. ASSUME NEW a, a \in H, a \notin B
      PROVE  \E k : Lost(r, a, k)
  BY <1>4, InAppend DEF Fits
<1> QED
  BY <1>1, <1>2, <1>3, <1>4 DEF Fits

\* The loss of an association arrives: its identifier may be used again.
LEMMA FitsLost ==
  ASSUME NEW q \in Seq(Message), NEW m \in Message, NEW H, NEW A, Fits(H, q, A),
         m.kind = "lost"
  PROVE  Fits(H, Append(q, m), A \ {m.assoc})
<1> DEFINE r == Append(q, m)
           B == A \ {m.assoc}
<1>1. ASSUME NEW a, NEW i, NEW j, Ups(r, a, i), Ups(r, a, j), i < j
      PROVE  \E k : Lost(r, a, k) /\ i < k /\ k < j
  BY <1>1, InAppend DEF Fits
<1>2. ASSUME NEW a, NEW j, Ups(r, a, j), a \in H
      PROVE  \E k : Lost(r, a, k) /\ k < j
  BY <1>2, InAppend DEF Fits
<1>3. ASSUME NEW a, NEW i, Ups(r, a, i), a \notin B
      PROVE  \E k : Lost(r, a, k) /\ i < k
  BY <1>3, InAppend DEF Fits
<1>4. ASSUME NEW a, a \in H, a \notin B
      PROVE  \E k : Lost(r, a, k)
  <2>1. CASE a = m.assoc
    <3>1. Lost(r, a, Len(q) + 1)
      BY Zenon, <2>1, InAppend
    <3> QED
      BY <3>1
  <2>2. CASE a # m.assoc
    BY <1>4, <2>2, InAppend DEF Fits
  <2> QED
    BY <2>1, <2>2
<1> QED
  BY Zenon, <1>1, <1>2, <1>3, <1>4 DEF Fits

\* A message that neither begins nor ends an association arrives.
LEMMA FitsOther ==
  ASSUME NEW q \in Seq(Message), NEW m \in Message, NEW H, NEW A, Fits(H, q, A),
         m.kind \notin {"up", "lost"}
  PROVE  Fits(H, Append(q, m), A)
<1> DEFINE r == Append(q, m)
<1>1. \A a, i : (Ups(r, a, i) <=> Ups(q, a, i)) /\ (Lost(r, a, i) <=> Lost(q, a, i))
  BY Zenon, InAppend
<1> QED
  BY <1>1 DEF Fits

\* The server reads the first message: a session begins, or ends, or neither.
LEMMA FitsBegin ==
  ASSUME NEW q \in Seq(Message), q # << >>, NEW H, NEW A, Fits(H, q, A),
         Head(q).kind = "up", NEW G, G \subseteq H \cup {Head(q).assoc}
  PROVE  Head(q).assoc \notin H /\ Fits(G, Tail(q), A)
<1> DEFINE r == Tail(q)
           b == Head(q).assoc
<1>1. Ups(q, b, 1)
  BY InTail
<1>7. ASSUME NEW a PROVE ~Lost(q, a, 1)
  BY InTail, Zenon
<1>2. b \notin H
  <2>1. ASSUME b \in H PROVE FALSE
    <3>1. PICK k : Lost(q, b, k) /\ k < 1
      BY <1>1, <2>1 DEF Fits
    <3>2. k \in Nat /\ k >= 1
      BY <3>1, InTail, ZenonT(40)
    <3> QED
      BY <3>1, <3>2
  <2> QED
    BY <2>1
<1>3. ASSUME NEW a, NEW i, NEW j, Ups(r, a, i), Ups(r, a, j), i < j
      PROVE  \E k : Lost(r, a, k) /\ i < k /\ k < j
  <2>1. Ups(q, a, i + 1) /\ Ups(q, a, j + 1) /\ i \in Nat /\ j \in Nat
    BY <1>3, InTail
  <2>2. i + 1 < j + 1
    BY <1>3, <2>1
  <2>3. PICK k : Lost(q, a, k) /\ i + 1 < k /\ k < j + 1
    BY <2>1, <2>2, Zenon DEF Fits
  <2>4. k \in Nat /\ Lost(r, a, k - 1)
    BY Zenon, <2>1, <2>3, InTail
  <2>5. i < k - 1 /\ k - 1 < j
    BY <2>1, <2>3, <2>4
  <2> QED
    BY Zenon, <2>4, <2>5
<1>4. ASSUME NEW a, NEW j, Ups(r, a, j), a \in G
      PROVE  \E k : Lost(r, a, k) /\ k < j
  <2>1. Ups(q, a, j + 1) /\ j \in Nat /\ j >= 1
    BY Zenon, <1>4, InTail
  <2>2. PICK k : Lost(q, a, k) /\ k < j + 1
    <3>1. CASE a \in H
      BY <2>1, <3>1 DEF Fits
    <3>2. CASE a = b
      <4>1. 1 < j + 1
        BY <2>1
      <4> QED
        BY <1>1, <2>1, <3>2, <4>1, Zenon DEF Fits
    <3> QED
      BY Zenon, <1>4, <3>1, <3>2
  <2>3. k # 1
    BY Zenon, <1>7, <2>2
  <2>4. k \in Nat /\ Lost(r, a, k - 1)
    BY Zenon, <2>2, <2>3, InTail
  <2>5. k - 1 < j
    BY <2>1, <2>2, <2>4
  <2> QED
    BY Zenon, <2>4, <2>5
<1>5. ASSUME NEW a, NEW i, Ups(r, a, i), a \notin A
      PROVE  \E k : Lost(r, a, k) /\ i < k
  <2>1. Ups(q, a, i + 1) /\ i \in Nat
    BY <1>5, InTail, ZenonT(40)
  <2>2. PICK k : Lost(q, a, k) /\ i + 1 < k
    BY Zenon, <1>5, <2>1 DEF Fits
  <2>3. k \in Nat /\ Lost(r, a, k - 1)
    BY <2>1, <2>2, InTail
  <2>4. i < k - 1
    BY <2>1, <2>2, <2>3
  <2> QED
    BY <2>3, <2>4
<1>6. ASSUME NEW a, a \in G, a \notin A
      PROVE  \E k : Lost(r, a, k)
  <2>1. PICK k : Lost(q, a, k)
    <3>1. CASE a \in H
      BY Zenon, <1>6, <3>1 DEF Fits
    <3>2. CASE a = b
      BY <1>1, <1>6, <3>2 DEF Fits
    <3> QED
      BY Zenon, <1>6, <3>1, <3>2
  <2>2. k # 1
    BY Zenon, <1>7, <2>1
  <2>3. Lost(r, a, k - 1)
    BY Zenon, <2>1, <2>2, InTail
  <2> QED
    BY <2>3
<1> QED
  BY Zenon, <1>2, <1>3, <1>4, <1>5, <1>6 DEF Fits

\* The server reads a message that begins no session; the loss of an association
\* ends its session.
LEMMA FitsEnd ==
  ASSUME NEW q \in Seq(Message), q # << >>, NEW H, NEW A, Fits(H, q, A), NEW G, G \subseteq H,
         Head(q).kind # "up", Head(q).kind = "lost" => Head(q).assoc \notin G
  PROVE  Fits(G, Tail(q), A)
<1> DEFINE r == Tail(q)
<1>1. ASSUME NEW a, a \in G PROVE ~Lost(q, a, 1)
  BY <1>1, InTail, Zenon
<1>2. ASSUME NEW a, NEW i, NEW j, Ups(r, a, i), Ups(r, a, j), i < j
      PROVE  \E k : Lost(r, a, k) /\ i < k /\ k < j
  <2>1. Ups(q, a, i + 1) /\ Ups(q, a, j + 1) /\ i \in Nat /\ j \in Nat
    BY <1>2, InTail
  <2>2. i + 1 < j + 1
    BY <1>2, <2>1
  <2>3. PICK k : Lost(q, a, k) /\ i + 1 < k /\ k < j + 1
    BY <2>1, <2>2, Zenon DEF Fits
  <2>4. k \in Nat /\ Lost(r, a, k - 1)
    BY <2>1, <2>3, InTail
  <2>5. i < k - 1 /\ k - 1 < j
    BY <2>1, <2>3, <2>4
  <2> QED
    BY Zenon, <2>4, <2>5
<1>3. ASSUME NEW a, NEW j, Ups(r, a, j), a \in G
      PROVE  \E k : Lost(r, a, k) /\ k < j
  <2>1. Ups(q, a, j + 1) /\ j \in Nat
    BY Zenon, <1>3, InTail
  <2>2. PICK k : Lost(q, a, k) /\ k < j + 1
    BY <1>3, <2>1 DEF Fits
  <2>3. k # 1
    BY Zenon, <1>1, <1>3, <2>2
  <2>4. k \in Nat /\ Lost(r, a, k - 1)
    BY Zenon, <2>2, <2>3, InTail
  <2>5. k - 1 < j
    BY <2>1, <2>2, <2>4
  <2> QED
    BY Zenon, <2>4, <2>5
<1>4. ASSUME NEW a, NEW i, Ups(r, a, i), a \notin A
      PROVE  \E k : Lost(r, a, k) /\ i < k
  <2>1. Ups(q, a, i + 1) /\ i \in Nat
    BY Zenon, <1>4, InTail
  <2>2. PICK k : Lost(q, a, k) /\ i + 1 < k
    BY Zenon, <1>4, <2>1 DEF Fits
  <2>3. k \in Nat /\ Lost(r, a, k - 1)
    BY <2>1, <2>2, InTail
  <2>4. i < k - 1
    BY <2>1, <2>2, <2>3
  <2> QED
    BY Zenon, <2>3, <2>4
<1>5. ASSUME NEW a, a \in G, a \notin A
      PROVE  \E k : Lost(r, a, k)
  <2>1. PICK k : Lost(q, a, k)
    BY <1>5 DEF Fits
  <2>2. k # 1
    BY Zenon, <1>1, <1>5, <2>1
  <2>3. Lost(r, a, k - 1)
    BY Zenon, <2>1, <2>2, InTail
  <2> QED
    BY <2>3
<1> QED
  BY Zenon, <1>2, <1>3, <1>4, <1>5 DEF Fits

-----------------------------------------------------------------------------
(* What a server knows of its sessions *)

\* A notification is queued, or the first one is given to the application.
LEMMA AnnouncedMore ==
  ASSUME NEW q \in Seq(Notification), NEW known, NEW id \in Nat
  PROVE  /\ Announced(known, Append(q, SessionChange("add", id))) = Announced(known, q) \cup {id}
         /\ Announced(known, Append(q, SessionChange("remove", id))) = Announced(known, q) \ {id}
<1>1. ASSUME NEW n \in Notification
      PROVE  /\ Len(q) \in Nat /\ DOMAIN q = 1..Len(q) /\ DOMAIN Append(q, n) = 1..(Len(q) + 1)
             /\ Append(q, n)[Len(q) + 1] = n
             /\ \A k \in 1..Len(q) : Append(q, n)[k] = q[k]
  OBVIOUS
<1>2. /\ SessionChange("add", id) \in Notification /\ SessionChange("add", id).session = id
      /\ SessionChange("remove", id) \in Notification /\ SessionChange("remove", id).session = id
      /\ \A x : SessionChange("remove", id) # SessionChange("add", x)
      /\ \A x : SessionChange("add", id) = SessionChange("add", x) => x = id
  BY NotificationTypes DEF SessionChange
<1>3. ASSUME NEW x, NEW n \in Notification, n.session = id
      PROVE  /\ x = id => (x \in Announced(known, Append(q, n)) <=> n = SessionChange("add", x))
             /\ x # id => (x \in Announced(known, Append(q, n)) <=> x \in Announced(known, q))
  <2> DEFINE r == Append(q, n)
  <2>1. /\ Len(q) \in Nat /\ DOMAIN q = 1..Len(q) /\ DOMAIN r = 1..(Len(q) + 1)
        /\ r[Len(q) + 1] = n
        /\ \A k \in 1..Len(q) : r[k] = q[k]
    BY <1>1, <1>3
  <2> HIDE DEF r
  <2>2. SessionChange("add", x).session = x
    BY DEF SessionChange
  <2>3. CASE x = id
    BY <1>3, <2>1, <2>3 DEF Announced
  <2>4. CASE x # id
    <3>1. x \in Announced(known, q) => x \in Announced(known, r)
      BY <1>3, <2>1, <2>2, <2>4 DEF Announced
    <3>2. x \in Announced(known, r) => x \in Announced(known, q)
      BY <1>3, <2>1, <2>2, <2>4 DEF Announced
    <3> QED
      BY Zenon, <2>4, <3>1, <3>2 DEF r
  <2> QED
    BY <2>3, <2>4 DEF r
<1>4. ASSUME NEW x
      PROVE  /\ x \in Announced(known, Append(q, SessionChange("add", id))) <=>
                  x \in Announced(known, q) \/ x = id
             /\ x \in Announced(known, Append(q, SessionChange("remove", id))) <=>
                  x \in Announced(known, q) /\ x # id
  BY <1>2, <1>3
<1> QED
  BY <1>4

\* The application is given the first notification of the queue.
LEMMA AnnouncedLess ==
  ASSUME NEW q \in Seq(Notification), NEW known, q # << >>, NEW id \in Nat
  PROVE  /\ q[1] = SessionChange("add", id) =>
              Announced(known \cup {id}, Tail(q)) = Announced(known, q)
         /\ q[1] = SessionChange("remove", id) =>
              Announced(known \ {id}, Tail(q)) = Announced(known, q)
<1>1. /\ Len(q) \in Nat \ {0} /\ DOMAIN q = 1..Len(q) /\ DOMAIN Tail(q) = 1..(Len(q) - 1)
      /\ \A k \in 1..(Len(q) - 1) : Tail(q)[k] = q[k + 1]
      /\ \A k \in 2..Len(q) : k - 1 \in 1..(Len(q) - 1) /\ Tail(q)[k - 1] = q[k]
  OBVIOUS
<1>2. /\ SessionChange("add", id).session = id /\ SessionChange("remove", id).session = id
      /\ \A x : SessionChange("remove", id) # SessionChange("add", x)
      /\ \A x : SessionChange("add", id) = SessionChange("add", x) => x = id
      /\ \A x : SessionChange("add", x).session = x
  BY DEF SessionChange
<1> DEFINE r == Tail(q)
           About(x, s, i) == \A j \in DOMAIN s : j > i => s[j].session # x
           Added(x, s) == \E i \in DOMAIN s : s[i] = SessionChange("add", x) /\ About(x, s, i)
<1>3. ASSUME NEW x, NEW s \in {q, r}, NEW K
      PROVE  x \in Announced(K, s) <=> (x \in K /\ About(x, s, 0)) \/ Added(x, s)
  <2>1. \A j \in DOMAIN s : j > 0
    BY <1>1, <1>3
  <2>2. ASSUME Added(x, s) PROVE x \in {s[i].session : i \in DOMAIN s}
    BY <1>2, <2>2
  <2>3. x \in Announced(K, s) <=>
          (x \in K /\ \A j \in DOMAIN s : s[j].session # x) \/ Added(x, s)
    BY <2>2 DEF Announced
  <2> QED
    BY <2>1, <2>3
<1>4. ASSUME NEW x
      PROVE  /\ About(x, q, 0) <=> q[1].session # x /\ About(x, r, 0)
             /\ Added(x, q) <=> (q[1] = SessionChange("add", x) /\ About(x, r, 0)) \/ Added(x, r)
  <2>1. 1 \in DOMAIN q
    BY <1>1
  <2>2. ASSUME NEW i \in DOMAIN r PROVE i + 1 \in DOMAIN q /\ q[i + 1] = r[i] /\ i \in Nat
    BY <1>1, <2>2
  <2>3. ASSUME NEW i \in DOMAIN q, i # 1
        PROVE  i - 1 \in DOMAIN r /\ r[i - 1] = q[i] /\ (i - 1) + 1 = i
    BY <1>1, <2>3
  <2>4. ASSUME NEW i \in Nat PROVE About(x, r, i) <=> About(x, q, i + 1)
    <3>1. ASSUME About(x, r, i), NEW j \in DOMAIN q, j > i + 1 PROVE q[j].session # x
      <4>1. j # 1 /\ j - 1 > i
        BY <1>1, <2>4, <3>1
      <4> QED
        BY Zenon, <2>3, <3>1, <4>1
    <3>2. ASSUME About(x, q, i + 1), NEW j \in DOMAIN r, j > i PROVE r[j].session # x
      <4>1. j + 1 > i + 1
        BY <1>1, <2>4, <3>2
      <4> QED
        BY Zenon, <2>2, <3>2, <4>1
    <3> QED
      BY Zenon, <3>1, <3>2
  <2>5. About(x, q, 0) <=> q[1].session # x /\ About(x, q, 1)
    BY <1>1
  <2> HIDE DEF About, r
  <2>6. About(x, q, 1) <=> About(x, r, 0)
    <3>1. 0 \in Nat /\ 0 + 1 = 1
      OBVIOUS
    <3> QED
      BY Zenon, <2>4, <3>1
  <2>7. Added(x, r) => Added(x, q)
    BY <2>2, <2>4
  <2>8. ASSUME NEW i \in DOMAIN q, q[i] = SessionChange("add", x), About(x, q, i), i # 1
        PROVE  Added(x, r)
    <3>1. i - 1 \in DOMAIN r /\ r[i - 1] = q[i] /\ (i - 1) + 1 = i
      BY Zenon, <2>3, <2>8
    <3>2. About(x, r, i - 1)
      BY Zenon, <2>2, <2>4, <2>8, <3>1
    <3> QED
      BY Zenon, <2>8, <3>1, <3>2
  <2> QED
    BY Zenon, <2>1, <2>5, <2>6, <2>7, <2>8
<1> HIDE DEF About, Added, r
<1>5. ASSUME NEW x, q[1] = SessionChange("add", id)
      PROVE  x \in Announced(known \cup {id}, Tail(q)) <=> x \in Announced(known, q)
  BY <1>2, <1>3, <1>4, <1>5 DEF r
<1>6. ASSUME NEW x, q[1] = SessionChange("remove", id)
      PROVE  x \in Announced(known \ {id}, Tail(q)) <=> x \in Announced(known, q)
  BY <1>2, <1>3, <1>4, <1>6 DEF r
<1> QED
  BY <1>5, <1>6, Zenon

-----------------------------------------------------------------------------
(* rsp_recvmsg() *)

\* Changes of what is in the buffer.
LEMMA BufferSteady ==
  ASSUME NEW s, SocketOK(s), NEW t, Same(s, t, {"partial", "waitingForFirst"}),
         t.partial \in BOOLEAN
  PROVE  /\ Steady(s, t) /\ t.sessions = s.sessions /\ SameSessions(s, t)
         /\ t.postRead = s.postRead
<1>1. /\ t.sessions = s.sessions /\ t.postRead = s.postRead /\ t.preRead = s.preRead
      /\ t.mask = s.mask /\ t.sock = s.sock
  BY DEF Same, Field
<1>2. QueuesOK(t)
  BY <1>1 DEF SocketOK, QueuesOK
<1>3. SocketOK(t)
  BY Zenon, <1>2, QueuesKeep DEF Same
<1> QED
  BY Zenon, <1>1, <1>3 DEF Steady, Same, SameSessions

\* Two steps that keep the sessions and what is read first do so together.
LEMMA SteadyTrans ==
  ASSUME NEW s, NEW t, NEW u, Steady(s, t), Steady(t, u)
  PROVE  Steady(s, u)
  BY DEF Steady, Same

\* What such a step leaves alone.
LEMMA SteadySame ==
  ASSUME NEW s, NEW t, Steady(s, t)
  PROVE  /\ SocketOK(t) /\ DOMAIN t.sessions = DOMAIN s.sessions
         /\ t.connected = s.connected /\ t.sock = s.sock /\ t.type = s.type
         /\ t.mask = s.mask /\ t.preRead = s.preRead
  BY Zenon DEF Steady, Same, Field

\* To do nothing is such a step.
LEMMA SteadyRefl ==
  ASSUME NEW s, SocketOK(s)
  PROVE  Steady(s, s) /\ SameSessions(s, s)
  BY DEF Steady, Same, SocketOK, SameSessions

\* A failed read or write marks the connected session, if there is one.
LEMMA SessionFailedIs ==
  ASSUME NEW s
  PROVE  SessionFailed(s) = IF s.connected = 0 THEN s ELSE MarkFailed(s, s.connected)
  BY DEF SessionFailed, MarkFailed

\* The connected session, when it is read for and m is what there is to read: it
\* is marked for a reason, and if so the application will be told.
ReadConnected(s, m, t) ==
  /\ Steady(s, t)
  /\ NecessaryIn(s) => NecessaryIn(t)
  /\ t.sessions[s.connected].failed =>
       \/ s.sessions[s.connected].failed
       \/ /\ ~up \/ ~s.sock \/ m.kind = "piece"
          /\ "failover" \in s.mask => NecessaryIn(t)

Kinds == {"data", "piece", "up", "lost", "shutdown", "cookie", "echo", "nothing"}

\* The record that ReadSocket() starts from, once the message is complete.
Complete(s) == [s EXCEPT !.partial = FALSE]
First(s) == [Complete(s) EXCEPT !.waitingForFirst = FALSE]

\* The end of a message changes the message buffer only.
LEMMA CompleteIs ==
  ASSUME NEW s, SocketOK(s)
  PROVE  /\ Same(s, Complete(s), {"partial", "waitingForFirst"}) /\ Complete(s).partial = FALSE
         /\ Same(s, First(s), {"partial", "waitingForFirst"}) /\ First(s).partial = FALSE
         /\ ~s.partial => Complete(s) = s
<1>1. Shape(s) /\ s.partial \in BOOLEAN
  BY DEF SocketOK, QueuesOK
<1>2. /\ Same(s, Complete(s), {"partial", "waitingForFirst"}) /\ Complete(s).partial = FALSE
      /\ ~s.partial => Complete(s) = s
  BY <1>1, Zenon DEF Complete, Same, Shape, Field
<1>3. /\ Same(s, First(s), {"partial", "waitingForFirst"}) /\ First(s).partial = FALSE
  BY <1>2, ZenonT(40) DEF First, Same, Shape, Field
<1> QED
  BY Zenon, <1>2, <1>3

\* The cases of a read.
ReadIs(s, m, r) ==
  /\ ~s.sock =>
        /\ r.rs \in {s, SessionFailed(s)} /\ r.received = 0
  /\ s.sock /\ m.kind = "nothing" =>
        \/ r.rs = s /\ r.received = -1
        \/ ~up /\ role # "server" /\ r.rs = SessionFailed(s) /\ r.received = 0
  /\ s.sock /\ m.kind = "piece" =>
        /\ r.received = -1
        /\ \E t \in {s, SessionFailed(s)} : r.rs = [t EXCEPT !.partial = TRUE]
  /\ s.sock /\ m.kind \in {"up", "lost", "shutdown"} =>
        /\ r.received \in {0, -1}
        /\ r.rs = IF s.partial THEN Complete(s) ELSE HandleNotification(Complete(s), m)
  /\ s.sock /\ m.kind \in {"cookie", "echo"} =>
        /\ r.received = -1
        /\ r.rs = IF s.partial THEN First(s) ELSE HandleControlChannelMessage(First(s), m)
  /\ s.sock /\ m.kind = "data" => r.rs = First(s) /\ r.received = 1
  /\ r.given.type \in {"nothing", "data"}

\* A read from the socket has one of these outcomes.
LEMMA ReadCases ==
  ASSUME NEW s, NEW m, m.kind \in Kinds, NEW r \in ReadSocket(s, m)
  PROVE  ReadIs(s, m, r)
<1>1. CASE ~s.sock
  BY <1>1 DEF ReadSocket, Got, Nothing, ReadIs
<1>2. CASE s.sock /\ m.kind = "nothing"
  BY <1>2 DEF ReadSocket, Got, Nothing, ReadIs
<1>3. CASE s.sock /\ m.kind = "piece"
  <2>1. ReadSocket(s, m) = {Got([t EXCEPT !.partial = TRUE], -1, Nothing) : t \in {s, SessionFailed(s)}}
    BY <1>3 DEF ReadSocket
  <2>2. PICK t \in {s, SessionFailed(s)} : r = Got([t EXCEPT !.partial = TRUE], -1, Nothing)
    BY <2>1
  <2> QED
    BY <1>3, <2>2, ZenonT(40) DEF Got, Nothing, ReadIs
<1>4. CASE s.sock /\ m.kind \in {"up", "lost", "shutdown"}
  <2>1. r = IF s.partial THEN Got(Complete(s), -1, Nothing)
            ELSE Got(HandleNotification(Complete(s), m), IF m.kind = "lost" THEN 0 ELSE -1, Nothing)
    BY <1>4 DEF ReadSocket, Complete
  <2> QED
    BY <1>4, <2>1 DEF Got, Nothing, ReadIs
<1>5. CASE s.sock /\ m.kind \in {"cookie", "echo"}
  <2>1. r = Got(IF s.partial THEN First(s) ELSE HandleControlChannelMessage(First(s), m), -1, Nothing)
    BY <1>5 DEF ReadSocket, Complete, First
  <2> QED
    BY Zenon, <1>5, <2>1 DEF Got, Nothing, ReadIs
<1>6. CASE s.sock /\ m.kind = "data"
  <2>1. \E id : r = Got(First(s), 1, [type |-> "data", session |-> id])
    BY <1>6, ZenonT(40) DEF ReadSocket, Complete, First
  <2> QED
    BY <1>6, <2>1 DEF Got, ReadIs
<1> QED
  BY ZenonT(40), <1>1, <1>2, <1>3, <1>4, <1>5, <1>6 DEF Kinds, ReadIs

\* The end of a message leaves the sessions and the queues as they are.
LEMMA CompleteSteady ==
  ASSUME NEW s, SocketOK(s), NEW t \in {Complete(s), First(s)}
  PROVE  /\ SocketOK(t) /\ Steady(s, t) /\ SameSessions(s, t) /\ t.postRead = s.postRead
         /\ t.connected = s.connected /\ t.partial = FALSE
<1>1. Same(s, t, {"partial", "waitingForFirst"}) /\ t.partial = FALSE
  BY CompleteIs, Zenon
<1>2. Steady(s, t) /\ SameSessions(s, t) /\ t.postRead = s.postRead
  BY <1>1, BufferSteady, ZenonT(40)
<1> QED
  BY <1>1, <1>2, SteadySame

\* A read for the connected session.
LEMMA ReadSocketConnected ==
  \A s, m :
  \A r \in ReadSocket(s, m) :
      /\ SocketOK(s)
      /\ s.connected # 0
      /\ m.kind \in Kinds
      =>
         ReadConnected(s, m, r.rs)

\* A notification that waits goes on waiting when others are queued.
<1>QueuedKeeps.
  ASSUME NEW s, SocketOK(s), NEW t, Queued(s, t), NecessaryIn(s)
  PROVE  NecessaryIn(t)
  <2> USE <1>QueuedKeeps
  <2>1. s.postRead \in Seq(PostNotification)
    BY DEF SocketOK, QueuesOK
  <2>2. PICK i \in DOMAIN s.postRead : s.postRead[i].what = "necessary"
    BY DEF NecessaryIn
  <2>3. i \in DOMAIN t.postRead /\ t.postRead[i] = s.postRead[i]
    <3>1. CASE t.postRead = s.postRead
      BY Zenon, <2>2, <3>1
    <3>2. CASE \E n \in PostNotification : t.postRead = Append(s.postRead, n)
      <4> HIDE <1>QueuedKeeps
      <4> QED
        BY <2>1, <2>2, <3>2
    <3> QED
      BY Zenon, <3>1, <3>2 DEF Queued
  <2> QED
    BY Zenon, <2>2, <2>3 DEF NecessaryIn

\* handleCommLost() of the connected session.
<1>HandleCommLostConnected.
  ASSUME NEW s, SocketOK(s), s.connected # 0, NEW a
  PROVE  LET t == HandleCommLost(s, a)
         IN  /\ Steady(s, t) /\ Queued(s, t) /\ t.partial = s.partial
             /\ \A i \in DOMAIN s.sessions : t.sessions[i].failed = s.sessions[i].failed
  <2> USE <1>HandleCommLostConnected
  <2> DEFINE c == s.connected
             n == Failover("necessary", c)
             r == [s.sessions[c] EXCEPT !.assoc = 0]
             u == [s EXCEPT !.sessions[c].assoc = 0]
             t == Enqueue(u, FALSE, n)
  <2>1. CASE s.sessions[c].failed
    BY Zenon, <2>1 DEF HandleCommLost, Steady, SocketOK, Same, Queued
  <2>2. CASE ~s.sessions[c].failed
    <3>1. c \in DOMAIN s.sessions /\ c \in Nat
      BY DEF SocketOK, SessionsOK, ID
    <3>2. HandleCommLost(s, a) = t
      BY Zenon, <2>2 DEF HandleCommLost
    <3>3. n \in PostNotification
      BY Zenon, <3>1, NotificationTypes
    <3>4. SessionShape(s.sessions[c])
      BY ZenonT(40), <3>1 DEF SocketOK, SessionsOK
    <3>5. SessionShape(r) /\ r.failed = s.sessions[c].failed
      BY <3>4 DEF SessionShape, SessionField
    <3>6. Same(s, u, {"sessions"}) /\ u.sessions = [s.sessions EXCEPT ![c] = r]
      BY Zenon DEF SocketOK, Same, Shape, Field
    <3> HIDE DEF r, u, n
    <3>7. SocketOK(u) /\ DOMAIN u.sessions = DOMAIN s.sessions
      BY Zenon, <3>1, <3>5, <3>6, SessionKeeps
    <3>8. u.postRead = s.postRead /\ u.partial = s.partial
      BY <3>6 DEF Same, Field
    <3>9. /\ SocketOK(t) /\ Same(u, t, {"postRead"})
          /\ t.postRead = u.postRead \/ t.postRead = Append(u.postRead, n)
      BY <3>3, <3>7, EnqueuePost, Zenon
    <3> HIDE DEF t
    <3>10. t.sessions = u.sessions /\ t.partial = u.partial
      BY Zenon, <3>9 DEF Same, Field
    <3>11. Steady(s, t)
      BY Zenon, <3>6, <3>7, <3>9, <3>10 DEF Steady, Same, Field
    <3>12. \A i \in DOMAIN s.sessions : t.sessions[i].failed = s.sessions[i].failed
      BY Zenon, <3>5, <3>6, <3>10
    <3> QED
      BY ZenonT(40), <3>2, <3>3, <3>8, <3>9, <3>10, <3>11, <3>12 DEF Queued
  <2> QED
    BY Zenon, <2>1, <2>2

\* A step that neither touches the sessions nor the queue keeps this.
<1>ReadConnectedKeeps.
  ASSUME NEW s, NEW m, NEW t, s.connected \in DOMAIN s.sessions, ReadConnected(s, m, t), NEW u,
         Steady(t, u), SameSessions(t, u), u.postRead = t.postRead
  PROVE  ReadConnected(s, m, u)
  <2> USE <1>ReadConnectedKeeps
  <2>1. Steady(s, u) /\ DOMAIN t.sessions = DOMAIN s.sessions
    BY SteadyTrans DEF ReadConnected, Steady
  <2>2. NecessaryIn(u) <=> NecessaryIn(t)
    BY DEF NecessaryIn
  <2>3. u.sessions[s.connected].failed = t.sessions[s.connected].failed
    BY Zenon, <2>1 DEF SameSessions
  <2> QED
    BY ZenonT(40), <2>1, <2>2, <2>3 DEF ReadConnected

\* rsp_recvmsg() marks the connected session when the association is gone.
<1>SessionFailedReads.
  ASSUME NEW s, SocketOK(s), s.connected # 0, NEW m, ~up \/ ~s.sock \/ m.kind = "piece"
  PROVE  ReadConnected(s, m, SessionFailed(s)) /\ SessionFailed(s).partial = s.partial
  <2> USE <1>SessionFailedReads
  <2> DEFINE t == MarkFailed(s, s.connected)
  <2>1. SessionFailed(s) = t
    BY Zenon, SessionFailedIs
  <2>2. s.connected \in DOMAIN s.sessions
    BY ZenonT(40) DEF SocketOK
  <2>3. /\ Steady(s, t) /\ Queued(s, t) /\ t.partial = s.partial
        /\ "failover" \in s.mask => NecessaryIn(t)
    BY <2>2, MarkFailedIs
  <2> HIDE DEF t
  <2>4. NecessaryIn(s) => NecessaryIn(t)
    BY Zenon, <2>3, <1>QueuedKeeps
  <2> QED
    BY Zenon, <2>1, <2>3, <2>4 DEF ReadConnected

\* What an SCTP notification does to the connected session.
<1>NotificationReads.
  ASSUME NEW s, SocketOK(s), s.connected # 0, NEW m, m.kind \in {"up", "lost", "shutdown"}
  PROVE  ReadConnected(s, m, HandleNotification(s, m))
  <2> USE <1>NotificationReads
  <2> DEFINE t == HandleNotification(s, m)
  <2>1. CASE s.type = "stream" \/ m.kind = "up"
    <3>1. t = s
      BY Zenon, <2>1 DEF HandleNotification, HandleCommUp
    <3> QED
      BY <3>1, SteadyRefl DEF ReadConnected
  <2>2. ASSUME Steady(s, t), Queued(s, t),
               \A i \in DOMAIN s.sessions : t.sessions[i].failed = s.sessions[i].failed
        PROVE  ReadConnected(s, m, t)
    <3> HIDE DEF t
    <3>1. s.connected \in DOMAIN s.sessions
      BY Zenon DEF SocketOK
    <3> QED
      BY Zenon, <2>2, <3>1, <1>QueuedKeeps DEF ReadConnected
  <2>3. CASE s.type # "stream" /\ m.kind = "lost"
    <3>1. t = HandleCommLost(s, m.assoc)
      BY Zenon, <2>3 DEF HandleNotification
    <3> QED
      BY <2>2, <3>1, <1>HandleCommLostConnected
  <2>4. CASE s.type # "stream" /\ m.kind = "shutdown"
    <3>1. t = HandleShutdown(s, m.assoc)
      BY <2>4 DEF HandleNotification
    <3> QED
      BY <2>2, <3>1, HandleShutdownIs DEF SameSessions
  <2> QED
    BY ZenonT(40), <2>1, <2>3, <2>4
<1> SUFFICES ASSUME NEW s, SocketOK(s), s.connected # 0, NEW m, m.kind \in Kinds,
                    NEW r \in ReadSocket(s, m)
             PROVE  ReadConnected(s, m, r.rs)
  OBVIOUS
<1>0. ReadIs(s, m, r)
  BY Zenon, ReadCases
<1>1. s.connected \in DOMAIN s.sessions /\ s.sock \in BOOLEAN /\ s.partial \in BOOLEAN
  BY DEF SocketOK, QueuesOK
<1>2. ReadConnected(s, m, s)
  BY SteadyRefl, ZenonT(40) DEF ReadConnected
<1>3. ASSUME NEW t \in {Complete(s), First(s)}
      PROVE  /\ SocketOK(t) /\ Steady(s, t) /\ SameSessions(s, t) /\ t.postRead = s.postRead
             /\ t.connected = s.connected
  BY <1>3, CompleteSteady, ZenonT(40)
<1>4. CASE ~s.sock
  <2>1. r.rs \in {s, SessionFailed(s)}
    BY <1>0, <1>4 DEF ReadIs
  <2> QED
    BY <1>2, <1>4, <2>1, <1>SessionFailedReads, Zenon
<1>5. CASE s.sock /\ m.kind = "nothing"
  <2>1. r.rs = s \/ (~up /\ r.rs = SessionFailed(s))
    BY Zenon, <1>0, <1>5 DEF ReadIs
  <2> QED
    BY <1>2, <2>1, <1>SessionFailedReads
<1>6. CASE s.sock /\ m.kind = "piece"
  <2>1. PICK t \in {s, SessionFailed(s)} : r.rs = [t EXCEPT !.partial = TRUE]
    BY <1>0, <1>6 DEF ReadIs
  <2>2. ReadConnected(s, m, t)
    BY ZenonT(40), <1>2, <1>6, <2>1, <1>SessionFailedReads
  <2>3. SocketOK(t)
    BY <2>2 DEF ReadConnected, Steady
  <2>4. Same(t, r.rs, {"partial", "waitingForFirst"}) /\ r.rs.partial \in BOOLEAN
    BY <2>1, <2>3, ZenonT(40) DEF SocketOK, Same, Shape, Field
  <2>5. Steady(t, r.rs) /\ SameSessions(t, r.rs) /\ r.rs.postRead = t.postRead
    BY <2>3, <2>4, BufferSteady, Zenon
  <2> QED
    BY <1>1, <2>2, <2>5, <1>ReadConnectedKeeps
<1>7. CASE s.sock /\ m.kind \in {"up", "lost", "shutdown"}
  <2>1. r.rs = IF s.partial THEN Complete(s) ELSE HandleNotification(Complete(s), m)
    BY Zenon, <1>0, <1>7 DEF ReadIs
  <2>2. CASE s.partial
    BY ZenonT(40), <1>1, <1>2, <1>3, <2>1, <2>2, <1>ReadConnectedKeeps
  <2>3. CASE ~s.partial
    <3>1. r.rs = HandleNotification(s, m)
      BY <2>1, <2>3, CompleteIs, ZenonT(40)
    <3> QED
      BY <1>7, <3>1, <1>NotificationReads
  <2> QED
    BY <2>2, <2>3
<1>8. CASE s.sock /\ m.kind \in {"cookie", "echo"}
  <2>1. r.rs = IF s.partial THEN First(s) ELSE HandleControlChannelMessage(First(s), m)
    BY Zenon, <1>0, <1>8 DEF ReadIs
  <2>2. ReadConnected(s, m, First(s))
    BY Zenon, <1>1, <1>2, <1>3, <1>ReadConnectedKeeps
  <2>3. /\ Steady(First(s), HandleControlChannelMessage(First(s), m))
        /\ SameSessions(First(s), HandleControlChannelMessage(First(s), m))
        /\ HandleControlChannelMessage(First(s), m).postRead = First(s).postRead
    BY <1>3, HandleControlChannelMessageIs
  <2> QED
    BY <1>1, <2>1, <2>2, <2>3, <1>ReadConnectedKeeps, Zenon
<1>9. CASE s.sock /\ m.kind = "data"
  <2>1. r.rs = First(s)
    BY Zenon, <1>0, <1>9 DEF ReadIs
  <2> QED
    BY <1>1, <1>2, <1>3, <2>1, <1>ReadConnectedKeeps
<1> QED
  BY <1>1, <1>4, <1>5, <1>6, <1>7, <1>8, <1>9, Zenon DEF Kinds

\* The sessions of a server stay as they are.
Stays(s, t) ==
  Steady(s, t) /\ \A i \in DOMAIN s.sessions : t.sessions[i].assoc = s.sessions[i].assoc

\* A server reads m: a session may begin or end, and nothing else about them is
\* done; but the loss of an association behind a partial message is not seen.
ReadServer(s, m, t) ==
  /\ SocketOK(t)
  /\ Same(s, t, {"sessions", "bitmap", "preRead", "postRead", "partial", "waitingForFirst"})
  /\ t.partial => s.partial \/ m.kind = "piece"
  /\ \/ /\ Stays(s, t)
        /\ m.kind = "lost" => s.partial \/ WithAssoc(s, m.assoc) = {}
     \/ m.kind = "up" /\ \E id : Begins(s, t, m.assoc, id)
     \/ m.kind = "lost" /\ \E id : Ends(s, t, m.assoc, id)

\* A read from the socket of a server begins or ends at most one session.
LEMMA ReadSocketServer ==
  \A s, m :
  \A r \in ReadSocket(s, m) :
      /\ SocketOK(s)
      /\ s.connected = 0
      /\ s.sock
      /\ s.type # "stream"
      /\ s.mask = NotificationMask
      /\ role = "server"
      /\ m.kind \in Kinds
      =>
         ReadServer(s, m, r.rs)

\* identifierBitmapFreeID
<1>FreeBits.
  ASSUME NEW b, NEW ids, Bits(b, ids), NEW id \in ids
  PROVE  Bits(FreeID(b, id), ids \ {id})
  <2> USE <1>FreeBits
  <2> DEFINE c == FreeID(b, id)
             x == id \div SlotSize
             y == id % SlotSize
  <2>1. x \in Slot /\ y \in Bit /\ id = (x * SlotSize) + y
    BY PlaceOfID DEF Bits
  <2>2. /\ c = [f \in {"word", "available"} |-> c[f]]
        /\ c.word = [b.word EXCEPT ![x] = @ \ {y}]
        /\ c.available = b.available + 1
    BY Zenon DEF FreeID, Bits
  <2> HIDE DEF c, x, y
  <2>3. c.word \in [Slot -> SUBSET Bit]
    BY <2>1, <2>2 DEF Bits
  <2>4. \A i \in Slot, j \in Bit : (i * SlotSize) + j = id <=> i = x /\ j = y
    BY <2>1, PlaceUnique DEF Slot
  <2>5. \A i \in Slot, j \in Bit : j \in c.word[i] <=> j \in b.word[i] /\ ~(i = x /\ j = y)
    BY <2>1, <2>2 DEF Bits
  <2>6. \A i \in Slot, j \in Bit : j \in c.word[i] <=> (i * SlotSize) + j \in ids \ {id}
    BY Zenon, <2>4, <2>5 DEF Bits
  <2>7. c.available = Entries - Cardinality(ids \ {id})
    <3>1. IsFiniteSet(ids) /\ Cardinality(ids) \in Nat
      BY IDsFinite DEF Bits
    <3>2. Cardinality(ids \ {id}) = Cardinality(ids) - 1
      BY <3>1, FS_RemoveElement
    <3> QED
      BY <2>2, <3>1, <3>2, BitmapAssumption DEF Bits
  <2>8. ids \ {id} \subseteq ID
    BY DEF Bits
  <2> QED
    BY ZenonT(40), <2>2, <2>3, <2>6, <2>7, <2>8 DEF Bits, c

\* Without one, it finds none.
<1>AllocateNone.
  ASSUME NEW b, Bits(b, ID)
  PROVE  AllocateID(b) = Entries
  <2> USE <1>AllocateNone
  <2>1. b.available = 0
    BY IDsFinite, BitmapAssumption DEF Bits
  <2> QED
    BY <2>1 DEF AllocateID

\* A notification to be given before a read goes to the end of its queue.
<1>EnqueuePre.
  ASSUME NEW s, SocketOK(s), NEW n \in Notification, n.type \in s.mask
  PROVE  LET t == Enqueue(s, TRUE, n)
         IN  /\ SocketOK(t) /\ Same(s, t, {"preRead", "postRead"})
             /\ t.preRead = Append(s.preRead, n) /\ t.postRead = s.postRead
  <2> USE <1>EnqueuePre
  <2>1. PICK b \in BOOLEAN : b = TRUE
    BY Zenon
  <2> DEFINE u == Enqueue(s, b, n)
  <2>2. /\ SocketOK(u) /\ Same(s, u, {"preRead", "postRead"})
        /\ u.preRead = IF b /\ n.type \in s.mask THEN Append(s.preRead, n) ELSE s.preRead
        /\ u.postRead = IF ~b /\ n.type \in s.mask THEN Append(s.postRead, n) ELSE s.postRead
    BY <2>1, EnqueueIs, ZenonT(40)
  <2>3. u = Enqueue(s, TRUE, n)
    BY <2>1, Zenon
  <2> HIDE DEF u
  <2>4. u.preRead = Append(s.preRead, n) /\ u.postRead = s.postRead
    BY <2>1, <2>2
  <2> QED
    BY <2>2, <2>3, <2>4, Zenon

\* addSession() without a free identifier, and with one.
<1>AddSessionNone.
  ASSUME NEW s, SocketOK(s), {0} \cup DOMAIN s.sessions = ID, NEW assoc, NEW isIncoming
  PROVE  AddSession(s, assoc, isIncoming) = s
  <2> USE <1>AddSessionNone
  <2>1. AllocateID(s.bitmap) = Entries
    BY Zenon, <1>AllocateNone DEF SocketOK
  <2> QED
    BY Zenon, <2>1 DEF AddSession

\* deleteSession() of a session that is not the connected one.
<1>DeleteSessionIs.
  ASSUME NEW s, SocketOK(s), s.connected = 0, NEW id \in DOMAIN s.sessions
  PROVE  LET t == DeleteSession(s, id)
         IN  /\ SocketOK(t) /\ Same(s, t, {"sessions", "bitmap"})
             /\ DOMAIN t.sessions = DOMAIN s.sessions \ {id}
             /\ \A i \in DOMAIN t.sessions : t.sessions[i] = s.sessions[i]
  <2> USE <1>DeleteSessionIs
  <2> DEFINE t == DeleteSession(s, id)
  <2>1. id # 0
    BY DEF SocketOK, SessionsOK
  <2>2. /\ Same(s, t, {"sessions", "bitmap"})
        /\ t.bitmap = FreeID(s.bitmap, id)
        /\ t.sessions = [i \in DOMAIN s.sessions \ {id} |-> s.sessions[i]]
    BY <2>1, Zenon DEF DeleteSession, SocketOK, Same, Shape, Field
  <2> HIDE DEF t
  <2>3. /\ DOMAIN t.sessions = DOMAIN s.sessions \ {id}
        /\ \A i \in DOMAIN t.sessions : t.sessions[i] = s.sessions[i]
    BY Zenon, <2>2
  <2>4. SessionsOK(t.sessions)
    <3>1. SessionsOK(s.sessions)
      BY Zenon DEF SocketOK
    <3>2. t.sessions = [i \in DOMAIN t.sessions |-> t.sessions[i]]
      BY Zenon, <2>2, <2>3
    <3> QED
      BY Zenon, <2>3, <3>1, <3>2 DEF SessionsOK
  <2>5. Bits(FreeID(s.bitmap, id), ({0} \cup DOMAIN s.sessions) \ {id})
    BY Zenon, <1>FreeBits DEF SocketOK
  <2>6. ({0} \cup DOMAIN s.sessions) \ {id} = {0} \cup DOMAIN t.sessions
    BY Zenon, <2>1, <2>3
  <2>7. Bits(t.bitmap, {0} \cup DOMAIN t.sessions)
    BY Zenon, <2>2, <2>5, <2>6
  <2>8. /\ t.connected = s.connected /\ t.preRead = s.preRead
        /\ t.postRead = s.postRead /\ t.mask = s.mask /\ t.partial = s.partial /\ t.sock = s.sock
    BY Zenon, <2>2 DEF Same, Field
  <2>9. QueuesOK(t)
    BY Zenon, <2>8 DEF SocketOK, QueuesOK
  <2>10. SocketOK(t)
    BY Zenon, <2>2, <2>4, <2>7, <2>8, <2>9 DEF SocketOK, Same
  <2> QED
    BY Zenon, <2>2, <2>3, <2>10 DEF t

\* handleCommUp() of a socket without a connected session.
<1>HandleCommUpIs.
  ASSUME NEW s, SocketOK(s), s.connected = 0, "change" \in s.mask, NEW a
  PROVE  /\ SocketOK(HandleCommUp(s, a))
         /\ Same(s, HandleCommUp(s, a), {"sessions", "bitmap", "preRead"})
         /\ HandleCommUp(s, a) = s \/ \E id : Begins(s, HandleCommUp(s, a), a, id)
  <2> USE <1>HandleCommUpIs
  <2>1. CASE {0} \cup DOMAIN s.sessions = ID
    BY <2>1, <1>AddSessionNone, Zenon DEF HandleCommUp, SocketOK, Same
  <2>2. CASE {0} \cup DOMAIN s.sessions # ID
    <3> DEFINE t == AddSession(s, a, TRUE)
               id == AllocateID(s.bitmap)
               n == SessionChange("add", id)
               u == Enqueue(t, TRUE, n)
    <3>1. /\ SocketOK(t) /\ Same(s, t, {"sessions", "bitmap"})
          /\ id \in ID \ ({0} \cup DOMAIN s.sessions)
          /\ DOMAIN t.sessions = DOMAIN s.sessions \cup {id}
          /\ \A i \in DOMAIN s.sessions : t.sessions[i] = s.sessions[i]
          /\ t.sessions[id].assoc = a
      <4>1. PICK b \in BOOLEAN : b = TRUE
        BY Zenon
      <4> DEFINE v == AddSession(s, a, b)
      <4>2. /\ SocketOK(v) /\ Same(s, v, {"sessions", "bitmap"})
            /\ id \in ID \ ({0} \cup DOMAIN s.sessions)
            /\ DOMAIN v.sessions = DOMAIN s.sessions \cup {id}
            /\ \A i \in DOMAIN s.sessions : v.sessions[i] = s.sessions[i]
            /\ v.sessions[id].assoc = a
        BY <2>2, AddSessionIs
      <4>3. v = t
        BY <4>1, Zenon
      <4> QED
        BY <4>2, <4>3, Zenon
    <3>2. t # s
      BY <3>1, Zenon
    <3>3. HandleCommUp(s, a) = u
      BY Zenon, <3>2 DEF HandleCommUp
    <3> HIDE DEF t, id
    <3>4. id \in Nat
      BY <3>1 DEF ID
    <3>5. n \in Notification /\ n.type = "change"
      BY <3>4, NotificationTypes, Zenon DEF SessionChange
    <3>6. t.mask = s.mask /\ t.preRead = s.preRead
      BY <3>1 DEF Same, Field
    <3>7. /\ SocketOK(u) /\ Same(t, u, {"preRead", "postRead"})
          /\ u.preRead = Append(t.preRead, n) /\ u.postRead = t.postRead
      <4>1. SocketOK(t) /\ n \in Notification /\ n.type \in t.mask
        BY Zenon, <3>1, <3>5, <3>6
      <4> HIDE DEF n
      <4> QED
        BY <4>1, <1>EnqueuePre, Zenon
    <3> HIDE DEF u
    <3>8. u.sessions = t.sessions
      BY Zenon, <3>7 DEF Same, Field
    <3>9. Begins(s, u, a, id)
      BY Zenon, <3>1, <3>6, <3>7, <3>8 DEF Begins
    <3>10. Same(s, u, {"sessions", "bitmap", "preRead"})
      BY Zenon, <3>1, <3>7 DEF Same, Field
    <3> QED
      BY Zenon, <3>3, <3>7, <3>9, <3>10
  <2> QED
    BY <2>1, <2>2

\* handleCommLost() of a socket without a connected session.
<1>HandleCommLostIs.
  ASSUME NEW s, SocketOK(s), s.connected = 0, "change" \in s.mask, NEW a
  PROVE  /\ SocketOK(HandleCommLost(s, a))
         /\ Same(s, HandleCommLost(s, a), {"sessions", "bitmap", "preRead"})
         /\ \/ HandleCommLost(s, a) = s /\ WithAssoc(s, a) = {}
            \/ \E id : Ends(s, HandleCommLost(s, a), a, id)
  <2> USE <1>HandleCommLostIs
  <2>1. CASE WithAssoc(s, a) = {}
    BY Zenon, <2>1 DEF HandleCommLost, SocketOK, Same
  <2>2. CASE WithAssoc(s, a) # {}
    <3> DEFINE id == Min(WithAssoc(s, a))
               n == SessionChange("remove", id)
               t == Enqueue(s, TRUE, n)
               u == DeleteSession(t, id)
    <3>1. WithAssoc(s, a) \subseteq DOMAIN s.sessions /\ DOMAIN s.sessions \subseteq Nat
      BY DEF WithAssoc, SocketOK, SessionsOK, ID
    <3>2. id \in WithAssoc(s, a) /\ id \in Nat
      BY <2>2, <3>1, MinIn
    <3>3. HandleCommLost(s, a) = u
      BY <2>2, Zenon DEF HandleCommLost
    <3> HIDE DEF id
    <3>4. n \in Notification /\ n.type = "change"
      BY <3>2, NotificationTypes, Zenon DEF SessionChange
    <3>5. /\ SocketOK(t) /\ Same(s, t, {"preRead", "postRead"})
          /\ t.preRead = Append(s.preRead, n) /\ t.postRead = s.postRead
      <4>1. n.type \in s.mask
        BY Zenon, <3>4
      <4> HIDE DEF n
      <4> QED
        BY <3>4, <4>1, <1>EnqueuePre, Zenon
    <3> HIDE DEF t
    <3>6. t.sessions = s.sessions /\ t.connected = 0
      BY Zenon, <3>5 DEF Same, Field
    <3>7. /\ SocketOK(u) /\ Same(t, u, {"sessions", "bitmap"})
          /\ DOMAIN u.sessions = DOMAIN t.sessions \ {id}
          /\ \A i \in DOMAIN u.sessions : u.sessions[i] = t.sessions[i]
      BY Zenon, <3>1, <3>2, <3>5, <3>6, <1>DeleteSessionIs
    <3> HIDE DEF u
    <3>8. u.preRead = t.preRead
      BY Zenon, <3>7 DEF Same, Field
    <3>9. Ends(s, u, a, id)
      BY ZenonT(40), <3>2, <3>5, <3>6, <3>7, <3>8 DEF Ends
    <3>10. Same(s, u, {"sessions", "bitmap", "preRead"})
      BY <3>5, <3>7 DEF Same, Field
    <3> QED
      BY Zenon, <3>3, <3>7, <3>9, <3>10
  <2> QED
    BY Zenon, <2>1, <2>2

\* A step without effect on the sessions, when there was none to end.
<1>StaysReads.
  ASSUME NEW s, NEW m, NEW t, Stays(s, t), t.partial => s.partial \/ m.kind = "piece",
         m.kind = "lost" => s.partial \/ WithAssoc(s, m.assoc) = {}
  PROVE  ReadServer(s, m, t)
  BY <1>StaysReads, ZenonT(40) DEF ReadServer, Stays, Steady, Same
<1> SUFFICES ASSUME NEW s, SocketOK(s), s.connected = 0, s.sock, s.type # "stream",
                    s.mask = NotificationMask, role = "server", NEW m, m.kind \in Kinds,
                    NEW r \in ReadSocket(s, m)
             PROVE  ReadServer(s, m, r.rs)
  OBVIOUS
<1>0. ReadIs(s, m, r)
  BY Zenon, ReadCases
<1>1. SessionFailed(s) = s /\ s.partial \in BOOLEAN /\ "change" \in s.mask
  BY SessionFailedIs DEF SocketOK, QueuesOK, NotificationMask
<1>2. Stays(s, s)
  BY SteadyRefl DEF Stays
<1>3. ASSUME NEW t \in {Complete(s), First(s)}
      PROVE  SocketOK(t) /\ Stays(s, t) /\ ~t.partial
  BY <1>3, CompleteSteady, ZenonT(40) DEF Stays, SameSessions
<1>4. CASE m.kind = "nothing"
  BY Zenon, <1>0, <1>1, <1>2, <1>4, <1>StaysReads DEF ReadIs
<1>5. CASE m.kind = "piece"
  <2>1. r.rs = [s EXCEPT !.partial = TRUE]
    BY <1>0, <1>1, <1>5 DEF ReadIs
  <2>2. Same(s, r.rs, {"partial", "waitingForFirst"}) /\ r.rs.partial \in BOOLEAN
    BY <2>1, Zenon DEF SocketOK, Same, Shape, Field
  <2>3. Stays(s, r.rs)
    <3>1. Steady(s, r.rs) /\ r.rs.sessions = s.sessions
      BY <2>2, BufferSteady
    <3> QED
      BY <3>1, Zenon DEF Stays
  <2> QED
    BY Zenon, <1>5, <2>3, <1>StaysReads
<1>6. CASE m.kind \in {"up", "lost", "shutdown"} /\ s.partial
  <2>1. r.rs = Complete(s)
    BY <1>0, <1>6 DEF ReadIs
  <2> QED
    BY <1>3, <1>6, <2>1, <1>StaysReads, ZenonT(40)
<1>7. CASE m.kind \in {"up", "lost", "shutdown"} /\ ~s.partial
  <2>1. r.rs = HandleNotification(s, m)
    BY <1>0, <1>7, CompleteIs, ZenonT(40) DEF ReadIs
  <2>2. CASE m.kind = "up"
    <3>1. r.rs = HandleCommUp(s, m.assoc)
      BY Zenon, <2>1, <2>2 DEF HandleNotification
    <3>2. /\ SocketOK(r.rs) /\ Same(s, r.rs, {"sessions", "bitmap", "preRead"})
          /\ r.rs = s \/ \E id : Begins(s, r.rs, m.assoc, id)
      BY <1>1, <3>1, <1>HandleCommUpIs, ZenonT(40)
    <3>3. r.rs.partial = s.partial
      BY <3>2, ZenonT(40) DEF Same, Field
    <3>4. CASE r.rs = s
      BY <1>2, <2>2, <3>4, <1>StaysReads
    <3> QED
      BY <2>2, <3>2, <3>3, <3>4, Zenon DEF ReadServer, Same
  <2>3. CASE m.kind = "lost"
    <3>1. r.rs = HandleCommLost(s, m.assoc)
      BY Zenon, <2>1, <2>3 DEF HandleNotification
    <3>2. /\ SocketOK(r.rs) /\ Same(s, r.rs, {"sessions", "bitmap", "preRead"})
          /\ \/ r.rs = s /\ WithAssoc(s, m.assoc) = {}
             \/ \E id : Ends(s, r.rs, m.assoc, id)
      BY <1>1, <3>1, <1>HandleCommLostIs, ZenonT(40)
    <3>3. r.rs.partial = s.partial
      BY <3>2, ZenonT(40) DEF Same, Field
    <3>4. CASE r.rs = s /\ WithAssoc(s, m.assoc) = {}
      BY <1>2, <2>3, <3>4, <1>StaysReads
    <3> QED
      BY <2>3, <3>2, <3>3, <3>4, ZenonT(40) DEF ReadServer, Same
  <2>4. CASE m.kind = "shutdown"
    <3>1. r.rs = HandleShutdown(s, m.assoc)
      BY Zenon, <2>1, <2>4 DEF HandleNotification
    <3>2. Stays(s, r.rs) /\ r.rs.partial = s.partial
      <4>1. Steady(s, r.rs) /\ SameSessions(s, r.rs) /\ r.rs.partial = s.partial
        BY Zenon, <3>1, HandleShutdownIs
      <4> QED
        BY Zenon, <4>1 DEF Stays, SameSessions
    <3> QED
      BY Zenon, <2>4, <3>2, <1>StaysReads
  <2> QED
    BY Zenon, <1>7, <2>2, <2>3, <2>4
<1>8. CASE m.kind \in {"cookie", "echo"}
  <2> DEFINE t == HandleControlChannelMessage(First(s), m)
  <2>1. r.rs = First(s) \/ r.rs = t
    BY Zenon, <1>0, <1>8 DEF ReadIs
  <2>2. SocketOK(First(s)) /\ Stays(s, First(s)) /\ ~First(s).partial
    BY Zenon, <1>3
  <2>3. Steady(First(s), t) /\ SameSessions(First(s), t) /\ t.partial = First(s).partial
    BY Zenon, <2>2, HandleControlChannelMessageIs
  <2>4. DOMAIN First(s).sessions = DOMAIN s.sessions
    BY Zenon, <2>2 DEF Stays, Steady
  <2> HIDE DEF t
  <2>5. Stays(s, t) /\ ~t.partial
    BY Zenon, <2>2, <2>3, <2>4, SteadyTrans DEF Stays, SameSessions
  <2> QED
    BY Zenon, <1>8, <2>1, <2>2, <2>5, <1>StaysReads
<1>9. CASE m.kind = "data"
  <2>1. r.rs = First(s)
    BY Zenon, <1>0, <1>9 DEF ReadIs
  <2> QED
    BY Zenon, <1>3, <1>9, <2>1, <1>StaysReads
<1> QED
  BY ZenonT(40), <1>1, <1>4, <1>5, <1>6, <1>7, <1>8, <1>9 DEF Kinds

\* What follows a read: a notification, an echo, or what there is of a message.
LEMMA AfterReadIs ==
  \A r :
      /\ SocketOK(r.rs)
      /\ r.received \in {-1, 0, 1}
      /\ r.given.type \in {"nothing", "data"}
      =>
         LET g == AfterRead(r)
         IN  /\ Steady(r.rs, g.rs) /\ SameSessions(r.rs, g.rs)
             /\ g.rs.partial => r.rs.partial
             /\ g.given.type # "change"
             /\ NecessaryIn(r.rs) /\ "failover" \in r.rs.mask =>
                  NecessaryIn(g.rs) \/ (g.given.type = "failover" /\ g.given.what = "necessary")

\* What is behind the element i of a queue.
<1>SuffixIs.
  ASSUME NEW S, NEW q \in Seq(S), NEW i \in 1..Len(q)
  PROVE  LET p == SubSeq(q, i + 1, Len(q))
         IN  /\ Len(p) = Len(q) - i /\ DOMAIN p = 1..Len(p)
             /\ \A k \in 1..Len(p) : p[k] = q[i + k]
  <2> USE <1>SuffixIs
  <2> DEFINE p == SubSeq(q, i + 1, Len(q))
  <2>1. Len(q) \in Nat /\ i \in Nat /\ i <= Len(q)
    OBVIOUS
  <2>2. p = [k \in 1..(Len(q) - i) |-> q[i + k]]
    BY <2>1
  <2>3. Len(p) = Len(q) - i /\ DOMAIN p = 1..(Len(q) - i)
    BY <2>1, <2>2
  <2>4. \A k \in 1..(Len(q) - i) : p[k] = q[i + k]
    BY Zenon, <2>2
  <2> HIDE DEF p
  <2> QED
    BY <2>3, <2>4, Zenon DEF p

\* A failover that is necessary is told, or will be.
<1>TakesNecessary.
  ASSUME NEW s, SocketOK(s), "failover" \in s.mask, NecessaryIn(s), NEW t, NEW g,
         Takes(s, "postRead", t, g)
  PROVE  NecessaryIn(t) \/ (g.type = "failover" /\ g.what = "necessary")
  <2> USE <1>TakesNecessary
  <2> DEFINE q == s.postRead
  <2>1. q \in Seq(PostNotification) /\ DOMAIN q = 1..Len(q) /\ Len(q) \in Nat
    BY DEF SocketOK, QueuesOK
  <2>2. PICK j \in 1..Len(q) : q[j].what = "necessary"
    BY Zenon, <2>1 DEF NecessaryIn
  <2>3. q[j] \in PostNotification
    <3> HIDE <1>TakesNecessary DEF q
    <3> QED
      BY <2>1, <2>2
  <2>4. q[j].type = "failover"
    BY Zenon, <2>2, <2>3 DEF PostNotification, Notification
  <2>5. PICK i \in DOMAIN q : /\ g = q[i] /\ t.postRead = SubSeq(q, i + 1, Len(q))
                             /\ \A k \in DOMAIN q : k < i => q[k].type \notin s.mask
    BY <2>1, <2>4, Zenon DEF Takes
  <2>6. i <= j
    <3>1. q[j].type \in s.mask
      BY <2>4
    <3>2. ~(j < i)
      BY <2>1, <2>2, <2>5, <3>1, ZenonT(40)
    <3>3. i \in 1..Len(q)
      BY Zenon, <2>1
    <3> HIDE <1>TakesNecessary, <2>5 DEF q
    <3> QED
      BY <2>1, <2>2, <3>2, <3>3
  <2>7. CASE i = j
    BY Zenon, <2>2, <2>4, <2>5, <2>7
  <2>8. CASE i < j
    <3> DEFINE p == SubSeq(q, i + 1, Len(q))
    <3>1. i \in 1..Len(q)
      BY Zenon, <2>1
    <3> HIDE DEF q
    <3>2. Len(p) = Len(q) - i /\ DOMAIN p = 1..Len(p) /\ \A k \in 1..Len(p) : p[k] = q[i + k]
      BY <2>1, <3>1, <1>SuffixIs, Zenon
    <3>3. j - i \in 1..Len(p) /\ i + (j - i) = j
      <4> HIDE <1>TakesNecessary
      <4> QED
        BY <2>1, <2>2, <2>8, <3>1, <3>2
    <3>4. p[j - i] = q[j]
      BY <3>2, <3>3, ZenonT(40)
    <3> QED
      BY <2>2, <2>5, <3>2, <3>3, <3>4, ZenonT(40) DEF NecessaryIn
  <2> QED
    <3>1. i \in 1..Len(q)
      BY Zenon, <2>1
    <3>2. i = j \/ i < j
      <4> HIDE <1>TakesNecessary DEF q
      <4> QED
        BY <2>1, <2>2, <2>6, <3>1
    <3> QED
      BY Zenon, <2>7, <2>8, <3>2
<1> SUFFICES ASSUME NEW r, SocketOK(r.rs), r.received \in {-1, 0, 1}, r.given.type \in {"nothing", "data"}
             PROVE  LET g == AfterRead(r)
                    IN  /\ Steady(r.rs, g.rs) /\ SameSessions(r.rs, g.rs)
                        /\ g.rs.partial => r.rs.partial
                        /\ g.given.type # "change"
                        /\ NecessaryIn(r.rs) /\ "failover" \in r.rs.mask =>
                             NecessaryIn(g.rs) \/ (g.given.type = "failover" /\ g.given.what = "necessary")
  OBVIOUS
<1> DEFINE n == GetCookieEchoOrNotification(r.rs, FALSE)
           g == AfterRead(r)
           t == n.socket
           u == [t EXCEPT !.partial = FALSE]
<1>1. Takes(r.rs, "postRead", t, n.given)
  BY GetTakes, Zenon
<1>2. CASE r.received = 1
  <2>1. g = r
    BY <1>2 DEF AfterRead
  <2> QED
    BY <2>1, SteadyRefl
<1>3. CASE r.received # 1
  <2>1. \/ g.rs = t /\ g.given = n.given
        \/ g.rs = u /\ n.given = Nothing /\ g.given.type = "partial"
        \/ g.rs = t /\ n.given = Nothing /\ g.given.type \in {"nothing", "closed"}
    <3> HIDE DEF n
    <3>1. ~(r.received > 0) /\ r.received <= 0
      BY <1>3
    <3>2. CASE n.given # Nothing
      <4>1. g = Got(t, 1, n.given)
        BY <3>1, <3>2, ZenonT(40) DEF AfterRead, n
      <4> HIDE DEF g, t
      <4> QED
        BY <4>1 DEF Got
    <3>3. CASE n.given = Nothing
      <4>1. \/ g = Got(u, 1, [type |-> "partial"])
            \/ g = Got(t, -1, Nothing)
            \/ g = Got(t, 0, [type |-> "closed"])
        <5>1. CASE r.received < 0 /\ t.partial
          BY <3>1, <3>3, <5>1, Zenon DEF AfterRead, n
        <5>2. CASE r.received < 0 /\ ~t.partial
          BY <3>1, <3>3, <5>2, Zenon DEF AfterRead, n
        <5>3. CASE ~(r.received < 0)
          BY <3>1, <3>3, <5>3, ZenonT(40) DEF AfterRead, n
        <5> QED
          BY Zenon, <5>1, <5>2, <5>3
      <4> HIDE DEF g, t, u
      <4>2. CASE g = Got(u, 1, [type |-> "partial"])
        BY <3>3, <4>2, ZenonT(40) DEF Got
      <4>3. CASE g = Got(t, -1, Nothing)
        BY <3>3, <4>3, ZenonT(40) DEF Got, Nothing
      <4>4. CASE g = Got(t, 0, [type |-> "closed"])
        BY <3>3, <4>4 DEF Got
      <4> QED
        BY <4>1, <4>2, <4>3, <4>4, Zenon
    <3> QED
      BY Zenon, <3>2, <3>3
  <2> HIDE DEF n, t, g
  <2>2. /\ SocketOK(t) /\ DOMAIN t.sessions = DOMAIN r.rs.sessions /\ SameSessions(r.rs, t)
        /\ Steady(r.rs, t) /\ t.partial = r.rs.partial
    BY <1>1, Zenon DEF Takes, Steady, Same, Field
  <2>3. Same(t, u, {"partial", "waitingForFirst"}) /\ u.partial = FALSE
    BY <2>2, ZenonT(40) DEF SocketOK, Same, Shape, Field
  <2> HIDE DEF u
  <2>4. Steady(t, u) /\ SameSessions(t, u) /\ u.postRead = t.postRead
    BY <2>2, <2>3, BufferSteady, Zenon
  <2>5. Steady(r.rs, u) /\ SameSessions(r.rs, u)
    BY Zenon, <2>2, <2>4, SteadyTrans DEF SameSessions
  <2>6. n.given.type # "change"
    <3>1. r.rs.postRead \in Seq(PostNotification)
      BY DEF SocketOK, QueuesOK
    <3>2. \A i \in DOMAIN r.rs.postRead : r.rs.postRead[i] \in PostNotification
      BY <3>1
    <3> QED
      BY <1>1, <3>2, ZenonT(40) DEF Takes, PostNotification
  <2>7. NecessaryIn(r.rs) /\ "failover" \in r.rs.mask =>
          NecessaryIn(t) \/ (n.given.type = "failover" /\ n.given.what = "necessary")
    BY Zenon, <1>1, <1>TakesNecessary
  <2>8. NecessaryIn(u) <=> NecessaryIn(t)
    BY <2>4 DEF NecessaryIn
  <2>9. CASE g.rs = t /\ g.given = n.given
    BY <2>2, <2>6, <2>7, <2>9, Zenon DEF g
  <2>10. CASE g.rs = u /\ n.given = Nothing /\ g.given.type = "partial"
    <3>1. n.given.type # "failover"
      BY <2>10 DEF Nothing
    <3>2. g.given.type # "change"
      BY <2>10
    <3>3. g.rs.partial => r.rs.partial
      BY <2>3, <2>10, Zenon
    <3> QED
      BY <2>5, <2>7, <2>8, <2>10, <3>1, <3>2, <3>3, Zenon DEF g
  <2>11. CASE g.rs = t /\ n.given = Nothing /\ g.given.type \in {"nothing", "closed"}
    <3>1. n.given.type # "failover"
      BY <2>11 DEF Nothing
    <3>2. g.given.type # "change"
      BY <2>11
    <3> QED
      BY <2>2, <2>7, <2>11, <3>1, <3>2, Zenon DEF g
  <2> QED
    BY <2>1, <2>9, <2>10, <2>11, Zenon
<1> QED
  BY <1>2, <1>3, ZenonT(40)

=============================================================================
