--------------------------- MODULE SessionProofs ---------------------------
(***************************************************************************)
(* What the calls of the Enhanced Mode keep true of a socket and of its    *)
(* sessions: the inductive invariant SessionInv, with the properties of    *)
(* Session that follow from it, and the cookie that precedes the data      *)
(* after a failover.  Proved for any pool, any number of identifiers and   *)
(* any behaviour of the network.                                           *)
(***************************************************************************)
EXTENDS SessionSocketProofs

SessionType ==
  /\ role \in Role /\ up \in BOOLEAN /\ inRecv \in BOOLEAN
  /\ told \in BOOLEAN /\ pieces \in BOOLEAN
  /\ incoming \in Seq(Message) /\ cookies \in Nat /\ assocs \subseteq Assoc

\* The one-to-many socket s of a pool element whose application was told of the
\* sessions known, with the messages q to read and the associations A that are up;
\* partial: a partial message was read.
ServerSocket(s, known, q, A, partial) ==
  /\ s.connected = 0 /\ s.sock /\ s.type = "seqpacket" /\ s.mask = NotificationMask
  /\ \A i \in DOMAIN s.preRead : s.preRead[i].type = "change"
  /\ Announced(known, s.preRead) = DOMAIN s.sessions
  /\ ~partial => /\ ~s.partial
                 /\ Distinct(s)
                 /\ Fits(Assocs(s), q, A)

ServerInv == ~up /\ ServerSocket(rs, appSessions, incoming, assocs, pieces)

\* A socket with one session.
ClientInv ==
  /\ rs.type \in {"stream", "seqpacket"} /\ assocs = {}
  /\ rs.connected = 0 => /\ role = "client" /\ DOMAIN rs.sessions = {}
                         /\ ~up /\ incoming = << >>
  /\ ~rs.sock => ~up
  /\ role = "client" /\ rs.type = "seqpacket" => "failover" \in rs.mask
  /\ rs.connected # 0 /\ rs.sessions[rs.connected].failed =>
       /\ ~up \/ pieces
       /\ role = "client" /\ rs.type = "seqpacket" => told \/ NecessaryIn(rs)

\* The inductive invariant of a socket and its sessions.
SessionInv ==
  /\ SessionType /\ SocketOK(rs)
  /\ IF role = "server" THEN ServerInv ELSE ClientInv

-----------------------------------------------------------------------------
(* rsp_connect_tags(), rsp_forcefailover_tags() *)

\* A failover of the session c keeps the socket and its sessions, and c is not
\* marked as failed.
Moved(s, c, t) ==
  /\ SocketOK(t) /\ DOMAIN t.sessions = DOMAIN s.sessions
  /\ t.type = s.type /\ t.connected = s.connected /\ t.mask = s.mask
  /\ t.sessions[c].failed = FALSE

\* What a failover does with the session c of the socket t after its begin.
WithPE(t, c, x) == [t EXCEPT !.sessions[c].pe = x]
Reconnected(t, c, p) ==
  [t EXCEPT !.sock = TRUE, !.waitingForFirst = TRUE, !.sessions[c].pe = p]

\* No notification is to be given before a read.
Quiet(s) == s.preRead = << >>

\* The whole of rsp_forcefailover(): the session is not marked as failed, and the
\* association is up only with a socket; no notification waits unless it succeeds.
LEMMA DoFailoverMoves ==
  \A s, unreachable, mask, unexpected :
      /\ SocketOK(s)
      /\ s.connected # 0
      /\ mask \subseteq NotificationMask
      /\ DoFailover(s, unreachable, mask, unexpected)
      =>
         /\ SocketOK(rs') /\ rs'.connected = s.connected /\ rs'.type = s.type /\ rs'.mask = mask
         /\ DOMAIN rs'.sessions = DOMAIN s.sessions /\ rs'.sessions[s.connected].failed = FALSE
         /\ up' \in BOOLEAN /\ (up' => rs'.sock) /\ incoming' \in Seq(Message)
         /\ sent'.success \/ rs'.preRead = << >>

\* The PE of the session is not part of this.
<1>MovedPE.
  ASSUME NEW s, NEW c \in DOMAIN s.sessions, NEW t, Moved(s, c, t), NEW x
  PROVE  LET u == WithPE(t, c, x)
         IN  Moved(s, c, u) /\ u.sock = t.sock /\ u.preRead = t.preRead
  <2> USE <1>MovedPE
  <2> DEFINE u == WithPE(t, c, x)
             r == [t.sessions[c] EXCEPT !.pe = x]
  <2>1. Shape(t) /\ SessionShape(t.sessions[c]) /\ c \in DOMAIN t.sessions /\ SocketOK(t)
    BY DEF Moved, SocketOK, SessionsOK
  <2>2. SessionShape(r) /\ r.failed = t.sessions[c].failed
    BY <2>1 DEF SessionShape, SessionField
  <2>3. Same(t, u, {"sessions"}) /\ u.sessions = [t.sessions EXCEPT ![c] = r]
    BY <2>1 DEF Same, Shape, Field, WithPE
  <2> HIDE DEF r, u
  <2>4. SocketOK(u) /\ DOMAIN u.sessions = DOMAIN t.sessions
    BY Zenon, <2>1, <2>2, <2>3, SessionKeeps
  <2>5. /\ u.type = t.type /\ u.connected = t.connected /\ u.mask = t.mask /\ u.sock = t.sock
        /\ u.preRead = t.preRead
    BY <2>3 DEF Same, Field
  <2>6. u.sessions[c] = r
    BY <2>1, <2>3
  <2> QED
    BY Zenon, <2>2, <2>4, <2>5, <2>6 DEF Moved, u

\* rsp_forcefailover() first resets the session.
<1>BeginFailoverMoves.
  ASSUME NEW s, SocketOK(s), s.connected # 0, NEW reported
  PROVE  Moved(s, s.connected, BeginFailover(s, reported)) /\ BeginFailover(s, reported).preRead = << >>
  <2> USE <1>BeginFailoverMoves
  <2> DEFINE c == s.connected
             t == BeginFailover(s, reported)
             v == [s EXCEPT !.preRead = << >>, !.postRead = << >>, !.sock = FALSE]
             r == [s.sessions[c] EXCEPT !.failed = FALSE, !.assoc = 0,
                                        !.pe = IF reported = {} THEN s.sessions[c].pe ELSE 0]
  <2>1. c \in DOMAIN s.sessions /\ SessionShape(s.sessions[c]) /\ Shape(s)
    BY DEF SocketOK, SessionsOK
  <2>2. SessionShape(r) /\ r.failed = FALSE
    BY <2>1, Zenon DEF SessionShape, SessionField
  <2>3. /\ Same(s, v, {"preRead", "postRead", "sock"})
        /\ v.preRead = << >> /\ v.postRead = << >> /\ v.sock = FALSE
    BY <2>1, Zenon DEF Same, Shape, Field
  <2>4. v.mask = s.mask /\ v.partial = s.partial /\ v.sessions = s.sessions
    BY <2>3 DEF Same, Field
  <2>5. QueuesOK(v)
    BY <2>3, <2>4 DEF QueuesOK, SocketOK
  <2>6. SocketOK(v)
    BY <2>3, <2>5, QueuesKeep, Zenon DEF Same
  <2>7. Same(v, t, {"sessions"}) /\ t.sessions = [v.sessions EXCEPT ![c] = r]
    <3>1. t.sessions = [s.sessions EXCEPT ![c] = r]
      <4>1. s.sessions = [i \in DOMAIN s.sessions |-> s.sessions[i]]
        BY DEF SocketOK, SessionsOK
      <4> QED
        BY <2>1, <4>1, ZenonT(40) DEF BeginFailover, ClearNotifications, Shape, Field, SessionShape, SessionField
    <3>2. Same(v, t, {"sessions"})
      BY <2>1, ZenonT(40) DEF BeginFailover, ClearNotifications, Same, Shape, Field
    <3> QED
      BY <2>4, <3>1, <3>2
  <2> HIDE DEF t, v, r
  <2>8. SocketOK(t) /\ DOMAIN t.sessions = DOMAIN s.sessions
    BY <2>1, <2>2, <2>4, <2>6, <2>7, SessionKeeps
  <2>9. t.type = s.type /\ t.connected = s.connected /\ t.mask = s.mask /\ t.preRead = << >>
    BY <2>3, <2>7 DEF Same, Field
  <2>10. t.sessions[c] = r
    BY <2>1, <2>4, <2>7
  <2> QED
    BY Zenon, <2>2, <2>8, <2>9, <2>10 DEF Moved, t

\* The new association: the session is the same one.
<1>ConnectMoves.
  ASSUME NEW s, NEW c \in DOMAIN s.sessions, NEW t, Moved(s, c, t), NEW p
  PROVE  LET u == Reconnected(t, c, p)
         IN  Moved(s, c, u) /\ u.sock = TRUE /\ (Quiet(t) => Quiet(u))
  <2> USE <1>ConnectMoves
  <2> DEFINE v == [t EXCEPT !.sock = TRUE, !.waitingForFirst = TRUE]
             u == Reconnected(t, c, p)
  <2>1. Shape(t) /\ SocketOK(t)
    BY DEF Moved, SocketOK
  <2>2. Same(t, v, {"sock", "waitingForFirst"}) /\ v.sock = TRUE
    BY <2>1, Zenon DEF Same, Shape, Field
  <2>3. u = WithPE(v, c, p)
    BY DEF WithPE, Reconnected
  <2> HIDE DEF v, u
  <2>4. /\ v.mask = t.mask /\ v.partial = t.partial /\ v.sessions = t.sessions /\ v.type = t.type
        /\ v.connected = t.connected /\ v.preRead = t.preRead /\ v.postRead = t.postRead
    BY <2>2 DEF Same, Field
  <2>5. QueuesOK(v)
    BY <2>1, <2>2, <2>4, Zenon DEF QueuesOK, SocketOK
  <2>6. SocketOK(v)
    BY Zenon, <2>1, <2>2, <2>5, QueuesKeep DEF Same
  <2>7. Moved(s, c, v)
    BY <2>4, <2>6 DEF Moved
  <2> QED
    <3>1. Moved(s, c, u) /\ u.sock = v.sock /\ u.preRead = v.preRead
      <4> HIDE <1>ConnectMoves
      <4> QED
        BY <2>3, <2>7, <1>ConnectMoves, <1>MovedPE
    <3> QED
      BY Zenon, <2>2, <2>4, <3>1 DEF u, Quiet

\* Whatever a failover comes to.
<1>FailoverMoves.
  ASSUME NEW s, SocketOK(s), s.connected # 0, NEW reported, NEW p,
         NEW o \in FailoverTo(s, reported, p)
  PROVE  /\ Moved(s, s.connected, o.rs) /\ o.up \in BOOLEAN /\ (o.up => o.rs.sock)
         /\ o.incoming \in Seq(Message) /\ (o.sent.success \/ o.rs.preRead = << >>)
  <2> USE <1>FailoverMoves
  <2> DEFINE c == s.connected
             t == BeginFailover(s, reported)
             k == Reconnected(t, c, p)
             n == Failover("complete", c)
             commUp == [kind |-> "up", assoc |-> 0]
             lost == [kind |-> "lost", assoc |-> 0]
  <2>1. c \in DOMAIN s.sessions /\ c \in Nat
    BY DEF SocketOK, SessionsOK, ID
  <2>2. Moved(s, c, t) /\ t.preRead = << >>
    BY <1>BeginFailoverMoves
  <2>3. Moved(s, c, k) /\ k.sock = TRUE /\ k.preRead = << >>
    <3> HIDE DEF t, c
    <3>1. c \in DOMAIN s.sessions /\ Moved(s, c, t)
      BY Zenon, <2>1, <2>2
    <3>2. Moved(s, c, Reconnected(t, c, p))
      BY <3>1, <1>ConnectMoves, Zenon
    <3>3. Reconnected(t, c, p).sock = TRUE
      BY <3>1, <1>ConnectMoves, Zenon
    <3>4. Quiet(t) => Quiet(Reconnected(t, c, p))
      BY <3>1, <1>ConnectMoves, Zenon
    <3> QED
      BY Zenon, <2>2, <3>2, <3>3, <3>4 DEF Quiet
  <2>4. \/ o.rs = t /\ o.up = FALSE /\ o.incoming = << >>
        \/ o.rs = WithPE(t, c, 0) /\ o.up = FALSE /\ o.incoming = << >>
        \/ o.rs = Enqueue(k, TRUE, n) /\ o.up = TRUE /\ o.incoming = <<commUp>> /\ o.sent.success
        \/ o.rs = WithPE(k, c, 0) /\ o.up = FALSE /\ o.incoming = <<commUp, lost>>
        \/ o.rs = WithPE(k, c, 0) /\ o.up = TRUE /\ o.incoming = <<commUp>>
    <3> DEFINE cookie == s.sessions[c].cookie
               Outcome(r, q, d, u, m, f, success) ==
                 [rs |-> r, pool |-> q, conn |-> d, up |-> u, incoming |-> m,
                  sent |-> [first |-> f, expected |-> cookie, success |-> success]]
    <3>2. CASE p = 0
      <4>1. o = Outcome(t, pool \ reported, 0, FALSE, << >>, "nothing", FALSE)
        BY <3>2 DEF FailoverTo
      <4> HIDE DEF t
      <4>2. o.rs = t /\ o.up = FALSE /\ o.incoming = << >>
        BY <4>1
      <4> QED
        BY <4>2
    <3>3. CASE p # 0 /\ p \notin alive
      <4>1. o = Outcome(WithPE(t, c, 0), WithoutPE(pool \ reported, p), 0,
                        FALSE, << >>, "nothing", FALSE)
        BY <3>3 DEF FailoverTo, WithPE
      <4> HIDE DEF t
      <4>2. o.rs = WithPE(t, c, 0) /\ o.up = FALSE /\ o.incoming = << >>
        BY <4>1
      <4> QED
        BY Zenon, <4>2
    <3>4. CASE p # 0 /\ p \in alive
      <4> DEFINE v == Enqueue(k, TRUE, n)
                 w == WithPE(k, c, 0)
      <4>1. \/ o = Outcome(v, pool \ reported, p, TRUE, <<commUp>>, FirstMessage(cookie), TRUE)
            \/ o = Outcome(w, WithoutPE(pool \ reported, p), p, FALSE, <<commUp, lost>>, "nothing", FALSE)
            \/ o = Outcome(w, WithoutPE(pool \ reported, p), p, TRUE, <<commUp>>, "nothing", FALSE)
        BY <3>4, Zenon DEF FailoverTo, WithPE, Reconnected
      <4> HIDE DEF v, w, commUp, lost
      <4>2. \/ o.rs = v /\ o.up = TRUE /\ o.incoming = <<commUp>> /\ o.sent.success
            \/ o.rs = w /\ o.up = FALSE /\ o.incoming = <<commUp, lost>>
            \/ o.rs = w /\ o.up = TRUE /\ o.incoming = <<commUp>>
        BY <4>1
      <4> QED
        BY <4>2, Zenon DEF v, w
    <3> QED
      BY <3>2, <3>3, <3>4, Zenon
  <2>5. commUp \in Message /\ lost \in Message
    BY DEF Message
  <2>6. << >> \in Seq(Message) /\ <<commUp>> \in Seq(Message) /\ <<commUp, lost>> \in Seq(Message)
    BY <2>5
  <2>7. Moved(s, c, Enqueue(k, TRUE, n)) /\ Enqueue(k, TRUE, n).sock = TRUE
    <3> HIDE DEF k
    <3>1. PICK b \in BOOLEAN : b = TRUE
      BY ZenonT(40)
    <3> DEFINE u == Enqueue(k, b, n)
    <3>2. u = Enqueue(k, TRUE, n)
      BY <3>1, Zenon
    <3>3. n \in Notification
      BY <2>1, NotificationTypes
    <3>4. SocketOK(u) /\ Same(k, u, {"preRead", "postRead"})
      BY <2>3, <3>1, <3>3, EnqueueIs, ZenonT(40) DEF Moved
    <3> HIDE DEF u
    <3>5. /\ u.type = k.type /\ u.connected = k.connected /\ u.mask = k.mask /\ u.sock = k.sock
          /\ u.sessions = k.sessions
      BY <3>4 DEF Same, Field
    <3>6. Moved(s, c, u) /\ u.sock = TRUE
      BY <2>3, <3>4, <3>5 DEF Moved
    <3> QED
      BY <3>2, <3>6, Zenon
  <2>8. /\ Moved(s, c, WithPE(t, c, 0)) /\ WithPE(t, c, 0).preRead = << >>
        /\ Moved(s, c, WithPE(k, c, 0)) /\ WithPE(k, c, 0).sock = TRUE
        /\ WithPE(k, c, 0).preRead = << >>
    <3> HIDE DEF k, t
    <3>1. Moved(s, c, WithPE(t, c, 0)) /\ WithPE(t, c, 0).preRead = t.preRead
      BY <2>1, <2>2, <1>MovedPE
    <3>2. /\ Moved(s, c, WithPE(k, c, 0))
          /\ WithPE(k, c, 0).sock = k.sock /\ WithPE(k, c, 0).preRead = k.preRead
      BY <2>1, <2>3, <1>MovedPE
    <3> QED
      BY Zenon, <2>2, <2>3, <3>1, <3>2
  <2> HIDE DEF t, k, n, commUp, lost
  <2> QED
    BY <2>2, <2>3, <2>4, <2>6, <2>7, <2>8, ZenonT(40)
<1> SUFFICES ASSUME NEW s, SocketOK(s), s.connected # 0, NEW unreachable, NEW mask, mask \subseteq NotificationMask,
                    NEW unexpected, DoFailover(s, unreachable, mask, unexpected)
             PROVE  /\ SocketOK(rs') /\ rs'.connected = s.connected /\ rs'.type = s.type /\ rs'.mask = mask
                    /\ DOMAIN rs'.sessions = DOMAIN s.sessions /\ rs'.sessions[s.connected].failed = FALSE
                    /\ up' \in BOOLEAN /\ (up' => rs'.sock) /\ incoming' \in Seq(Message)
                    /\ sent'.success \/ rs'.preRead = << >>
  BY Zenon
<1>1. PICK reported, p : \E o \in FailoverTo(s, reported, p) :
        up' = o.up /\ incoming' = o.incoming /\ sent' = o.sent /\ rs' = [o.rs EXCEPT !.mask = mask]
  BY DEF DoFailover
<1>2. PICK o \in FailoverTo(s, reported, p) :
        up' = o.up /\ incoming' = o.incoming /\ sent' = o.sent /\ rs' = [o.rs EXCEPT !.mask = mask]
  BY <1>1, Zenon
<1> DEFINE t == o.rs
<1>3. /\ Moved(s, s.connected, t) /\ o.up \in BOOLEAN /\ (o.up => t.sock)
      /\ o.incoming \in Seq(Message) /\ (o.sent.success \/ t.preRead = << >>)
  BY <1>2, <1>FailoverMoves
<1>4. Same(t, rs', {"mask"}) /\ rs'.mask = mask
  BY <1>2, <1>3 DEF Moved, SocketOK, Same, Shape, Field
<1> HIDE DEF t
<1>5. /\ rs'.partial = t.partial /\ rs'.sessions = t.sessions /\ rs'.type = t.type
      /\ rs'.connected = t.connected /\ rs'.preRead = t.preRead /\ rs'.postRead = t.postRead
      /\ rs'.sock = t.sock
  BY Zenon, <1>4 DEF Same, Field
<1>6. QueuesOK(rs')
  BY Zenon, <1>3, <1>4, <1>5 DEF Moved, SocketOK, QueuesOK
<1>7. SocketOK(rs')
  BY Zenon, <1>3, <1>4, <1>6, QueuesKeep DEF Moved, Same
<1> QED
  BY Zenon, <1>2, <1>3, <1>4, <1>5, <1>7 DEF Moved

-----------------------------------------------------------------------------
(* The steps of a server's socket *)

\* Sessions and notifications are the same after a step without effect on them.
LEMMA StaysSame ==
  ASSUME NEW s, NEW t, Stays(s, t)
  PROVE  /\ Assocs(t) = Assocs(s) /\ (Distinct(s) => Distinct(t))
         /\ DOMAIN t.sessions = DOMAIN s.sessions
<1>1. DOMAIN t.sessions = DOMAIN s.sessions
  BY DEF Stays, Steady
<1>2. \A i \in DOMAIN s.sessions : t.sessions[i].assoc = s.sessions[i].assoc
  BY DEF Stays
<1> QED
  BY Zenon, <1>1, <1>2 DEF Assocs, Distinct

-----------------------------------------------------------------------------
(* The steps of a socket *)

\* rsp_socket_internal()
LEMMA NewSocketIs ==
  ASSUME NEW type \in {"stream", "seqpacket"}
  PROVE  LET s == NewSocket(type)
         IN  /\ SocketOK(s) /\ s.type = type /\ s.connected = 0 /\ s.sock = TRUE /\ DOMAIN s.sessions = {}
             /\ s.preRead = << >> /\ s.partial = FALSE
             /\ type = "seqpacket" => s.mask = NotificationMask
<1> DEFINE s == NewSocket(type)
<1>1. /\ s.type = type /\ s.sessions = << >> /\ s.connected = 0 /\ s.sock = TRUE
      /\ s.preRead = << >> /\ s.postRead = << >> /\ s.partial = FALSE
      /\ s.mask = IF type = "stream" THEN {} ELSE NotificationMask
      /\ s.bitmap = MarkID(EmptyBitmap, 0)
  BY DEF NewSocket
<1>2. Shape(s)
  BY Zenon DEF NewSocket, Shape, Field
<1> HIDE DEF s
<1>3. DOMAIN s.sessions = {} /\ s.sessions = [i \in {} |-> s.sessions[i]]
  BY <1>1
<1>4. 0 \in ID \ {}
  BY BitmapAssumption DEF ID
<1>5. Bits(s.bitmap, {0})
  BY <1>1, <1>4, EmptyBits, MarkBits
<1>6. {0} = {0} \cup DOMAIN s.sessions
  BY <1>3
<1>7. SessionsOK(s.sessions)
  BY <1>3 DEF SessionsOK
<1>8. QueuesOK(s)
  <2>1. << >> \in Seq(Notification) /\ << >> \in Seq(PostNotification)
    OBVIOUS
  <2>2. s.mask \subseteq NotificationMask
    BY <1>1
  <2>3. s.sock \in BOOLEAN /\ s.partial \in BOOLEAN
    BY <1>1, ZenonT(40)
  <2> QED
    BY Zenon, <1>1, <2>1, <2>2, <2>3 DEF QueuesOK
<1>9. SocketOK(s)
  BY Zenon, <1>1, <1>2, <1>5, <1>6, <1>7, <1>8 DEF SocketOK
<1> QED
  BY Zenon, <1>1, <1>3, <1>9 DEF s

\* The first session of a socket, which is then the connected one.
FirstSession(s, b) ==
  [AddSession(s, 0, b) EXCEPT !.connected = AllocateID(s.bitmap), !.mask = {}]

\* The first session of a socket gets the identifier 1.
LEMMA FirstSessionIs ==
  ASSUME NEW s, SocketOK(s), DOMAIN s.sessions = {}, NEW b \in BOOLEAN
  PROVE  LET t == FirstSession(s, b)
         IN  /\ SocketOK(t) /\ t.connected = 1 /\ t.type = s.type /\ t.sock = s.sock
             /\ t.sessions[1].failed = ~b
<1> DEFINE u == AddSession(s, 0, b)
           id == AllocateID(s.bitmap)
           t == [u EXCEPT !.connected = id, !.mask = {}]
<1>0. FirstSession(s, b) = t
  BY DEF FirstSession
<1>1. 1 \in ID /\ 1 \notin {0} \cup DOMAIN s.sessions
  BY BitmapAssumption DEF ID
<1>2. {0} \cup DOMAIN s.sessions # ID
  BY Zenon, <1>1
<1>3. /\ SocketOK(u) /\ Same(s, u, {"sessions", "bitmap"})
      /\ id = 1 /\ DOMAIN u.sessions = DOMAIN s.sessions \cup {id}
      /\ u.sessions[id].failed = ~b
  BY <1>2, AddSessionIs
<1> HIDE DEF u, id
<1>4. Same(u, t, {"connected", "mask"}) /\ t.connected = 1 /\ t.mask = {}
  BY <1>3, ZenonT(40) DEF SocketOK, Same, Shape, Field
<1> HIDE DEF t
<1>5. /\ t.sessions = u.sessions /\ t.bitmap = u.bitmap /\ t.preRead = u.preRead
      /\ t.postRead = u.postRead /\ t.partial = u.partial /\ t.sock = u.sock /\ t.type = u.type
  BY Zenon, <1>4 DEF Same, Field
<1>6. QueuesOK(t)
  BY Zenon, <1>3, <1>4, <1>5 DEF SocketOK, QueuesOK
<1>7. SocketOK(t)
  BY Zenon, <1>3, <1>4, <1>5, <1>6 DEF SocketOK, Same
<1>8. u.sock = s.sock /\ u.type = s.type
  BY <1>3 DEF Same, Field
<1> QED
  BY ZenonT(40), <1>0, <1>3, <1>4, <1>5, <1>7, <1>8

\* rsp_socket(), rsp_accept(): the invariant holds at first.
LEMMA InitSession ==
 SessionInit => SessionInv

\* rsp_accept_tags()
<1>AcceptedSocketIs.
  /\ SocketOK(AcceptedSocket) /\ AcceptedSocket.connected = 1 /\ AcceptedSocket.type = "stream"
  /\ AcceptedSocket.sock = TRUE /\ AcceptedSocket.sessions[1].failed = FALSE
  <2> DEFINE s == NewSocket("stream")
  <2>1. SocketOK(s) /\ DOMAIN s.sessions = {} /\ s.type = "stream" /\ s.sock = TRUE /\ s.mask = {}
    BY NewSocketIs DEF NewSocket
  <2>2. PICK b \in BOOLEAN : b = TRUE
    BY Zenon
  <2> DEFINE u == AddSession(s, 0, b)
             t == FirstSession(s, b)
  <2>3. /\ SocketOK(t) /\ t.connected = 1 /\ t.type = "stream" /\ t.sock = TRUE
        /\ t.sessions[1].failed = FALSE
    <3>2. /\ SocketOK(t) /\ t.connected = 1 /\ t.type = s.type /\ t.sock = s.sock
          /\ t.sessions[1].failed = ~b
      BY <2>1, FirstSessionIs
    <3>3. (~b) = FALSE
      BY <2>2
    <3> QED
      BY <2>1, <3>2, <3>3, ZenonT(40)
  <2>4. SocketOK(u) /\ u.mask = {} /\ AllocateID(s.bitmap) = 1
    <3>1. 1 \in ID /\ 1 \notin {0} \cup DOMAIN s.sessions
      BY <2>1, BitmapAssumption DEF ID
    <3>2. {0} \cup DOMAIN s.sessions # ID
      BY <3>1
    <3>3. SocketOK(u) /\ Same(s, u, {"sessions", "bitmap"}) /\ AllocateID(s.bitmap) = 1
      BY <2>1, <3>2, AddSessionIs, ZenonT(40)
    <3> QED
      BY <2>1, <3>3 DEF Same, Field
  <2>5. AddSession(s, 0, TRUE) = u
    BY <2>2, Zenon
  <2>6. AcceptedSocket = [u EXCEPT !.connected = 1]
    BY <2>5, Zenon DEF AcceptedSocket
  <2> HIDE DEF s, u
  <2>7. [u EXCEPT !.connected = 1] = t
    BY <2>4, Zenon DEF FirstSession, SocketOK, Shape, Field, u
  <2> HIDE DEF t
  <2> QED
    BY <2>3, <2>6, <2>7, ZenonT(40)
<1> SUFFICES ASSUME SessionInit PROVE SessionInv
  OBVIOUS
<1>1. SessionType
  <2>1. incoming \in Seq(Message)
    <3>1. << >> \in Seq(Message)
      OBVIOUS
    <3> QED
      BY <3>1 DEF SessionInit
  <2>2. up \in BOOLEAN
    BY DEF SessionInit
  <2>3. inRecv \in BOOLEAN /\ told \in BOOLEAN /\ pieces \in BOOLEAN
    BY ZenonT(40) DEF SessionInit
  <2>4. role \in Role /\ cookies \in Nat /\ assocs \subseteq Assoc
    BY DEF SessionInit, Role
  <2> QED
    BY Zenon, <2>1, <2>2, <2>3, <2>4 DEF SessionType
<1>2. CASE role = "server"
  <2>1. rs = NewSocket("seqpacket")
    BY <1>2 DEF SessionInit
  <2>2. /\ SocketOK(rs) /\ rs.type = "seqpacket" /\ rs.connected = 0 /\ rs.sock = TRUE
        /\ DOMAIN rs.sessions = {} /\ rs.preRead = << >> /\ rs.partial = FALSE /\ rs.mask = NotificationMask
    BY <2>1, NewSocketIs, Zenon
  <2>3. incoming = << >> /\ appSessions = {} /\ ~up /\ pieces = FALSE
    BY <1>2, ZenonT(40) DEF SessionInit
  <2>4. Announced(appSessions, rs.preRead) = DOMAIN rs.sessions
    BY <2>2, <2>3 DEF Announced
  <2>5. Distinct(rs) /\ Fits(Assocs(rs), incoming, assocs)
    BY <2>2, <2>3 DEF Distinct, Fits, Assocs, Ups, Lost
  <2> QED
    BY <1>1, <1>2, <2>2, <2>3, <2>4, <2>5 DEF SessionInv, ServerInv, ServerSocket
<1>3. CASE role = "client"
  <2>1. rs = NewSocket("seqpacket") \/ rs = NewSocket("stream")
    BY <1>3 DEF SessionInit
  <2>2. /\ SocketOK(rs) /\ rs.connected = 0 /\ rs.sock = TRUE /\ DOMAIN rs.sessions = {}
        /\ rs.type \in {"stream", "seqpacket"}
        /\ (rs.type = "seqpacket" => rs.mask = NotificationMask)
    BY <2>1, NewSocketIs, ZenonT(40)
  <2> QED
    BY <1>1, <1>3, <2>2, ZenonT(40) DEF SessionInv, ClientInv, SessionInit, NotificationMask
<1>4. CASE role = "accepted"
  <2>1. rs = AcceptedSocket
    BY <1>4 DEF SessionInit
  <2> QED
    BY <1>1, <1>4, <2>1, <1>AcceptedSocketIs DEF SessionInv, ClientInv, SessionInit
<1> QED
  BY Zenon, <1>2, <1>3, <1>4 DEF SessionInit

\* What there is to read, and what is left of it.
LEMMA NextMessageIs ==
  ASSUME SessionType, SocketOK(rs), TakeMessage
  PROVE  /\ NextMessage.kind \in Kinds /\ incoming' \in Seq(Message) /\ pieces' \in BOOLEAN
         /\ pieces => pieces'
         /\ rs.sock => (pieces' <=> pieces \/ NextMessage.kind = "piece")
         /\ rs.sock => \/ incoming = << >> /\ NextMessage.kind = "nothing" /\ incoming' = incoming
                       \/ incoming # << >> /\ NextMessage = Head(incoming) /\ incoming' = Tail(incoming)
<1>1. incoming \in Seq(Message) /\ pieces \in BOOLEAN /\ rs.sock \in BOOLEAN
  BY DEF SessionType, SocketOK, QueuesOK
<1>2. pieces' = (pieces \/ (rs.sock /\ NextMessage.kind = "piece"))
  BY DEF TakeMessage
<1>3. incoming' = IF rs.sock /\ incoming # << >> THEN Tail(incoming) ELSE incoming
  BY DEF TakeMessage
<1>4. CASE incoming = << >>
  <2>1. NextMessage.kind = "nothing"
    BY <1>4 DEF NextMessage, ReadsNothing
  <2>2. incoming' = incoming
    BY <1>3, <1>4
  <2> QED
    BY Zenon, <1>1, <1>2, <1>4, <2>1, <2>2 DEF Kinds
<1>5. CASE incoming # << >>
  <2>1. NextMessage = Head(incoming)
    BY <1>5 DEF NextMessage
  <2>2. NextMessage \in Message
    BY <1>1, <1>5, <2>1
  <2>3. NextMessage.kind \in Kinds
    BY <2>2 DEF Message, Kinds
  <2>4. incoming' \in Seq(Message)
    BY <1>1, <1>3, <1>5
  <2> QED
    BY ZenonT(40), <1>1, <1>2, <1>3, <1>5, <2>1, <2>3, <2>4
<1> QED
  BY <1>4, <1>5

\* rsp_recvmsg() and rsp_poll() of a socket with a connected session; s is rs, or rs
\* without the notifications that were not wanted.
LEMMA ConnectedReads ==
  ASSUME SessionInv, role # "server", rs.connected # 0, TakeMessage,
         NEW s, SocketOK(s), s.connected = rs.connected, s.sock = rs.sock, s.type = rs.type,
         s.mask = rs.mask, s.postRead = rs.postRead,
         s.sessions[s.connected].failed = rs.sessions[rs.connected].failed,
         NEW r \in ReadSocket(s, NextMessage),
         Steady(r.rs, rs'), SameSessions(r.rs, rs'),
         NecessaryIn(r.rs) /\ "failover" \in r.rs.mask => NecessaryIn(rs') \/ told',
         told' \in BOOLEAN, told => told', inRecv' \in BOOLEAN,
         UNCHANGED <<role, up, cookies, assocs>>
  PROVE  SessionInv'
<1> DEFINE c == rs.connected
           t == r.rs
           m == NextMessage
<1>1. SessionType /\ SocketOK(rs) /\ ClientInv
  BY Zenon DEF SessionInv
<1>2. /\ m.kind \in Kinds /\ incoming' \in Seq(Message) /\ pieces' \in BOOLEAN /\ (pieces => pieces')
      /\ rs.sock => (pieces' <=> pieces \/ m.kind = "piece")
  BY Zenon, <1>1, NextMessageIs
<1>3. SessionType'
  BY Zenon, <1>1, <1>2 DEF SessionType
<1> HIDE DEF m
<1>4. ReadConnected(s, m, t)
  BY Zenon, <1>2, ReadSocketConnected DEF m
<1> HIDE DEF t
<1>5. Steady(s, t) /\ c \in DOMAIN s.sessions /\ DOMAIN t.sessions = DOMAIN s.sessions
  BY <1>4, SteadySame, ZenonT(40) DEF ReadConnected, SocketOK
<1>6. Steady(s, rs')
  BY Zenon, <1>5, SteadyTrans DEF t
<1>7. /\ SocketOK(rs') /\ rs'.connected = c /\ rs'.sock = rs.sock /\ rs'.type = rs.type
      /\ rs'.mask = rs.mask /\ t.mask = rs.mask
  BY ZenonT(40), <1>5, <1>6, SteadySame
<1>8. rs'.sessions[c].failed = t.sessions[c].failed
  BY Zenon, <1>5 DEF SameSessions, t
<1>9. NecessaryIn(rs) <=> NecessaryIn(s)
  BY Zenon DEF NecessaryIn
<1>10. ASSUME t.sessions[c].failed
       PROVE  /\ ~up \/ pieces'
              /\ role = "client" /\ rs.type = "seqpacket" => told' \/ NecessaryIn(rs')
  <2>1. CASE rs.sessions[c].failed
    <3>1. ~up \/ pieces
      BY Zenon, <1>1, <2>1 DEF ClientInv
    <3>2. ASSUME role = "client", rs.type = "seqpacket" PROVE told' \/ NecessaryIn(rs')
      <4>1. "failover" \in rs.mask /\ (told \/ NecessaryIn(rs))
        BY Zenon, <1>1, <2>1, <3>2 DEF ClientInv
      <4>2. NecessaryIn(s) => NecessaryIn(t)
        BY Zenon, <1>4 DEF ReadConnected
      <4> QED
        BY Zenon, <1>7, <1>9, <4>1, <4>2 DEF t
    <3> QED
      BY Zenon, <1>2, <3>1, <3>2
  <2>2. CASE ~rs.sessions[c].failed
    <3>1. (~up \/ ~s.sock \/ m.kind = "piece") /\ ("failover" \in s.mask => NecessaryIn(t))
      BY <1>4, <1>10, <2>2, ZenonT(40) DEF ReadConnected
    <3>2. ~up \/ pieces'
      BY Zenon, <1>1, <1>2, <3>1 DEF ClientInv
    <3>3. ASSUME role = "client", rs.type = "seqpacket" PROVE told' \/ NecessaryIn(rs')
      <4>1. "failover" \in rs.mask
        BY Zenon, <1>1, <3>3 DEF ClientInv
      <4> QED
        BY Zenon, <1>7, <3>1, <4>1 DEF t
    <3> QED
      BY Zenon, <3>2, <3>3
  <2> QED
    BY <2>1, <2>2
<1>11. ClientInv'
  BY <1>1, <1>7, <1>8, <1>10, ZenonT(40) DEF ClientInv
<1> QED
  BY Zenon, <1>3, <1>7, <1>11 DEF SessionInv

\* The same of the socket of a server.
LEMMA ServerSocketReads ==
  \A s :
  \A r \in ReadSocket(s, NextMessage) :
      /\ SessionInv
      /\ role = "server"
      /\ TakeMessage
      /\ SocketOK(s)
      /\ ServerSocket(s, appSessions, incoming, assocs, pieces)
      /\ Steady(r.rs, rs')
      /\ SameSessions(r.rs, rs')
      /\ rs'.partial => r.rs.partial
      /\ told' \in BOOLEAN
      /\ inRecv' \in BOOLEAN
      /\ UNCHANGED <<role, up, cookies, assocs, appSessions>>
      =>
         SessionInv'

\* A read keeps the invariant of a server's socket, with the message taken from
\* the queue: handleCommUp() adds a session of a new association, handleCommLost()
\* removes the one of the lost association, and both queue the notification.
<1>ReadServerKeeps.
  ASSUME NEW s, NEW m, NEW t, ReadServer(s, m, t), NEW u,
         Steady(t, u), SameSessions(t, u), u.partial => t.partial
  PROVE  ReadServer(s, m, u)
  <2> USE <1>ReadServerKeeps
  <2>1. /\ SocketOK(u) /\ DOMAIN u.sessions = DOMAIN t.sessions /\ u.preRead = t.preRead
    BY Zenon, SteadySame
  <2>2. Same(s, u, {"sessions", "bitmap", "preRead", "postRead", "partial", "waitingForFirst"})
    BY Zenon DEF ReadServer, Steady, Same
  <2>3. CASE Stays(s, t) /\ (m.kind = "lost" => s.partial \/ WithAssoc(s, m.assoc) = {})
    <3>1. Stays(s, u)
      BY Zenon, <2>3, SteadyTrans DEF Stays, SameSessions, Steady
    <3> QED
      BY Zenon, <2>1, <2>2, <2>3, <3>1 DEF ReadServer
  <2>4. ASSUME NEW id, NEW a, Begins(s, t, a, id) PROVE Begins(s, u, a, id)
    BY Zenon, <2>1, <2>4 DEF Begins, SameSessions
  <2>5. ASSUME NEW id, NEW a, Ends(s, t, a, id) PROVE Ends(s, u, a, id)
    BY Zenon, <2>1, <2>5 DEF Ends, SameSessions
  <2> QED
    BY ZenonT(40), <2>1, <2>2, <2>3, <2>4, <2>5 DEF ReadServer

\* What ServerSocket says, once more, of a server that has read the first message.
<1>ServerReads.
  ASSUME NEW s, NEW m, NEW t, SocketOK(s), ReadServer(s, m, t), NEW known, NEW A,
         NEW q \in Seq(Message), NEW r, NEW partial \in BOOLEAN,
         ServerSocket(s, known, q, A, partial),
         \/ q = << >> /\ m.kind = "nothing" /\ r = q
         \/ q # << >> /\ m = Head(q) /\ r = Tail(q),
         NEW now \in BOOLEAN, now <=> partial \/ m.kind = "piece"
  PROVE  ServerSocket(t, known, r, A, now)
  <2> USE <1>ServerReads
  <2>1. /\ t.connected = 0 /\ t.sock /\ t.type = "seqpacket" /\ t.mask = NotificationMask
    BY Zenon DEF ReadServer, ServerSocket, Same, Field
  <2>2. ~now => ~partial /\ ~s.partial /\ ~t.partial /\ Distinct(s) /\ Fits(Assocs(s), q, A)
    BY Zenon DEF ReadServer, ServerSocket
  <2>3. s.preRead \in Seq(Notification)
    BY Zenon DEF SocketOK, QueuesOK
  <2>4. CASE Stays(s, t) /\ (m.kind = "lost" => s.partial \/ WithAssoc(s, m.assoc) = {})
    <3>1. Assocs(t) = Assocs(s) /\ (Distinct(s) => Distinct(t)) /\ DOMAIN t.sessions = DOMAIN s.sessions
      BY Zenon, <2>4, StaysSame
    <3>2. t.preRead = s.preRead
      BY Zenon, <2>4, SteadySame DEF Stays
    <3>3. ASSUME ~now PROVE Fits(Assocs(s), r, A)
      <4>1. CASE q = << >>
        BY Zenon, <2>2, <3>3, <4>1
      <4>2. CASE q # << >> /\ m.kind = "up"
        BY <2>2, <3>3, <4>2, FitsBegin, Zenon
      <4>3. CASE q # << >> /\ m.kind # "up"
        <5>1. m.kind = "lost" => m.assoc \notin Assocs(s)
          BY <2>2, <2>4, <3>3 DEF WithAssoc, Assocs
        <5> QED
          BY <2>2, <3>3, <4>3, <5>1, FitsEnd, ZenonT(40)
      <4> QED
        BY Zenon, <4>1, <4>2, <4>3
    <3> QED
      BY Zenon, <2>1, <2>2, <3>1, <3>2, <3>3 DEF ServerSocket
  <2>5. ASSUME NEW id, m.kind = "up", Begins(s, t, m.assoc, id) PROVE ServerSocket(t, known, r, A, now)
    <3>1. id \in Nat /\ id \notin DOMAIN s.sessions /\ DOMAIN t.sessions = DOMAIN s.sessions \cup {id}
      BY <2>5 DEF Begins, ID
    <3>2. t.preRead = Append(s.preRead, SessionChange("add", id))
      BY Zenon, <2>5 DEF Begins
    <3>3. Announced(known, t.preRead) = DOMAIN t.sessions
      <4>1. Announced(known, s.preRead) = DOMAIN s.sessions
        BY Zenon DEF ServerSocket
      <4>2. Announced(known, t.preRead) = Announced(known, s.preRead) \cup {id}
        <5> HIDE <1>ServerReads, <2>5
        <5> QED
          BY <2>3, <3>1, <3>2, AnnouncedMore
      <4> QED
        BY Zenon, <3>1, <4>1, <4>2
    <3>4. \A i \in DOMAIN t.preRead : t.preRead[i].type = "change"
      <4>1. SessionChange("add", id) \in Notification /\ SessionChange("add", id).type = "change"
        BY <3>1, NotificationTypes, ZenonT(40) DEF SessionChange
      <4> QED
        BY <2>3, <3>2, <4>1 DEF ServerSocket
    <3>5. /\ \A i \in DOMAIN s.sessions : t.sessions[i].assoc = s.sessions[i].assoc
          /\ t.sessions[id].assoc = m.assoc
      BY Zenon, <2>5 DEF Begins
    <3>6. Assocs(t) \subseteq Assocs(s) \cup {m.assoc}
      BY Zenon, <3>1, <3>5 DEF Assocs
    <3>7. ASSUME ~now PROVE Distinct(t) /\ Fits(Assocs(t), r, A)
      <4>1. q # << >> /\ m = Head(q) /\ r = Tail(q)
        BY Zenon, <2>5
      <4>2. m.assoc \notin Assocs(s) /\ Fits(Assocs(t), r, A)
        BY Zenon, <2>2, <2>5, <3>6, <3>7, <4>1, FitsBegin
      <4>3. Distinct(t)
        <5>1. \A i \in DOMAIN s.sessions : s.sessions[i].assoc # m.assoc
          BY Zenon, <4>2 DEF Assocs
        <5>2. Distinct(s)
          BY Zenon, <2>2, <3>7
        <5> QED
          BY ZenonT(40), <3>1, <3>5, <5>1, <5>2 DEF Distinct
      <4> QED
        BY Zenon, <4>2, <4>3
    <3> QED
      BY Zenon, <2>1, <2>2, <3>3, <3>4, <3>7 DEF ServerSocket
  <2>6. ASSUME NEW id, m.kind = "lost", Ends(s, t, m.assoc, id) PROVE ServerSocket(t, known, r, A, now)
    <3>1. id \in DOMAIN s.sessions /\ s.sessions[id].assoc = m.assoc
      BY <2>6 DEF Ends, WithAssoc
    <3>2. id \in Nat
      <4>1. id \in ID
        BY Zenon, <3>1 DEF SocketOK, SessionsOK
      <4> QED
        BY <4>1, BitmapAssumption DEF ID
    <3>3. /\ t.preRead = Append(s.preRead, SessionChange("remove", id))
          /\ DOMAIN t.sessions = DOMAIN s.sessions \ {id}
          /\ \A i \in DOMAIN t.sessions : t.sessions[i].assoc = s.sessions[i].assoc
      BY Zenon, <2>6 DEF Ends
    <3>4. Announced(known, t.preRead) = DOMAIN t.sessions
      <4>1. Announced(known, s.preRead) = DOMAIN s.sessions
        BY DEF ServerSocket
      <4>2. Announced(known, t.preRead) = Announced(known, s.preRead) \ {id}
        <5> HIDE <1>ServerReads, <2>6
        <5> QED
          BY <2>3, <3>2, <3>3, AnnouncedMore
      <4> QED
        BY Zenon, <3>3, <4>1, <4>2
    <3>5. \A i \in DOMAIN t.preRead : t.preRead[i].type = "change"
      <4>1. SessionChange("remove", id) \in Notification /\ SessionChange("remove", id).type = "change"
        BY <3>2, NotificationTypes, ZenonT(40) DEF SessionChange
      <4> QED
        BY <2>3, <3>3, <4>1 DEF ServerSocket
    <3>6. ASSUME ~now PROVE Distinct(t) /\ Fits(Assocs(t), r, A)
      <4>1. q # << >> /\ m = Head(q) /\ r = Tail(q)
        BY Zenon, <2>6
      <4>2. Distinct(t)
        BY Zenon, <2>2, <3>3, <3>6 DEF Distinct
      <4>3. Assocs(t) \subseteq Assocs(s) /\ m.assoc \notin Assocs(t)
        <5>1. Assocs(t) \subseteq Assocs(s)
          BY Zenon, <3>3 DEF Assocs
        <5>2. Distinct(s)
          BY Zenon, <2>2, <3>6
        <5>3. ASSUME NEW i \in DOMAIN t.sessions PROVE t.sessions[i].assoc # m.assoc
          BY Zenon, <3>1, <3>3, <5>2 DEF Distinct
        <5> QED
          BY Zenon, <5>1, <5>3 DEF Assocs
      <4>4. Fits(Assocs(t), r, A)
        BY Zenon, <2>2, <2>6, <3>6, <4>1, <4>3, FitsEnd
      <4> QED
        BY Zenon, <4>2, <4>4
    <3> QED
      BY <2>1, <2>2, <3>4, <3>5, <3>6 DEF ServerSocket
  <2> QED
    BY Zenon, <2>4, <2>5, <2>6 DEF ReadServer
<1> SUFFICES ASSUME SessionInv, role = "server", TakeMessage,
                    NEW s, SocketOK(s), ServerSocket(s, appSessions, incoming, assocs, pieces),
                    NEW r \in ReadSocket(s, NextMessage),
                    Steady(r.rs, rs'), SameSessions(r.rs, rs'), rs'.partial => r.rs.partial,
                    told' \in BOOLEAN, inRecv' \in BOOLEAN,
                    UNCHANGED <<role, up, cookies, assocs, appSessions>>
             PROVE  SessionInv'
  OBVIOUS
<1> DEFINE m == NextMessage
<1>1. SessionType /\ SocketOK(rs) /\ ~up /\ rs.sock
  BY Zenon DEF SessionInv, ServerInv, ServerSocket
<1>2. /\ m.kind \in Kinds /\ incoming' \in Seq(Message) /\ pieces' \in BOOLEAN
      /\ pieces' <=> pieces \/ m.kind = "piece"
      /\ \/ incoming = << >> /\ m.kind = "nothing" /\ incoming' = incoming
         \/ incoming # << >> /\ m = Head(incoming) /\ incoming' = Tail(incoming)
  BY Zenon, <1>1, NextMessageIs
<1>3. SessionType'
  BY Zenon, <1>1, <1>2 DEF SessionType
<1> HIDE DEF m
<1>4. s.connected = 0 /\ s.sock /\ s.type # "stream" /\ s.mask = NotificationMask
  BY Zenon DEF ServerSocket
<1>5. ReadServer(s, m, r.rs)
  BY Zenon, <1>2, <1>4, ReadSocketServer DEF m
<1>6. ReadServer(s, m, rs')
  BY <1>5, <1>ReadServerKeeps
<1>7. incoming \in Seq(Message) /\ pieces \in BOOLEAN
  BY Zenon, <1>1 DEF SessionType
<1>8. ServerSocket(rs', appSessions, incoming', assocs, pieces')
  BY <1>2, <1>6, <1>7, <1>ServerReads
<1>9. SocketOK(rs')
  BY Zenon, <1>6 DEF ReadServer
<1>10. ServerInv'
  BY Zenon, <1>1, <1>8 DEF ServerInv
<1> QED
  BY Zenon, <1>3, <1>9, <1>10 DEF SessionInv

\* rsp_recvmsg() keeps the invariant.
LEMMA RecvmsgStep ==
  ASSUME SessionInv, RspRecvmsg
  PROVE  SessionInv'

\* A session change is given to the application, which then knows of it.
<1>ServerGives.
  ASSUME NEW s, SocketOK(s), NEW known, NEW q, NEW A, NEW partial \in BOOLEAN,
         ServerSocket(s, known, q, A, partial), NEW t, NEW n, Takes(s, "preRead", t, n)
  PROVE  \/ n.type \in {"echo", "nothing"} /\ ServerSocket(t, known, q, A, partial)
         \/ /\ n.type = "change"
            /\ ServerSocket(t, IF n.what = "add" THEN known \cup {n.session} ELSE known \ {n.session},
                            q, A, partial)
  <2> USE <1>ServerGives
  <2> DEFINE p == s.preRead
  <2>1. p \in Seq(Notification) /\ DOMAIN p = 1..Len(p) /\ Len(p) \in Nat
    <3>1. p \in Seq(Notification)
      BY Zenon DEF SocketOK, QueuesOK
    <3> HIDE <1>ServerGives DEF p
    <3> QED
      BY <3>1
  <2>2. \A i \in DOMAIN p : p[i].type = "change" /\ p[i].type \in s.mask
    BY Zenon DEF ServerSocket, NotificationMask
  <2>3. /\ t.connected = s.connected /\ t.sock = s.sock /\ t.type = s.type
        /\ t.mask = s.mask /\ t.partial = s.partial /\ DOMAIN t.sessions = DOMAIN s.sessions
    BY Zenon DEF Takes, Same, Field
  <2>4. Assocs(t) = Assocs(s) /\ (Distinct(s) => Distinct(t))
    BY ZenonT(40), <2>3 DEF Takes, SameSessions, Assocs, Distinct
  <2>5. ASSUME p = << >>, n.type \in {"echo", "nothing"}, t.preRead = SubSeq(p, Len(p) + 1, Len(p))
        PROVE  ServerSocket(t, known, q, A, partial)
    <3>1. t.preRead = p
      BY <2>5
    <3> QED
      BY Zenon, <2>3, <2>4, <3>1 DEF ServerSocket
  <2>6. ASSUME p # << >>, n = p[1], t.preRead = SubSeq(p, 2, Len(p))
        PROVE  /\ n.type = "change"
               /\ ServerSocket(t, IF n.what = "add" THEN known \cup {n.session} ELSE known \ {n.session},
                               q, A, partial)
    <3>1. 1 \in DOMAIN p /\ n \in Notification
      <4> HIDE DEF p
      <4>1. 1 \in DOMAIN p
        BY <2>1, <2>6
      <4> QED
        BY <2>1, <2>6, <4>1
    <3>2. n.type = "change" /\ n.session \in Nat
      BY Zenon, <2>2, <2>6, <3>1 DEF Notification
    <3>3. t.preRead = Tail(p)
      <4> HIDE <1>ServerGives DEF p
      <4> QED
        BY <2>1, <2>6
    <3>4. \A i \in DOMAIN Tail(p) : Tail(p)[i].type = "change"
      <4> HIDE <1>ServerGives DEF p
      <4> QED
        BY <2>1, <2>2, <2>6
    <3>5. n = SessionChange("add", n.session) \/ n = SessionChange("remove", n.session)
      BY Zenon, <3>1, <3>2 DEF SessionChange, Notification
    <3>6. Announced(IF n.what = "add" THEN known \cup {n.session} ELSE known \ {n.session}, Tail(p))
            = Announced(known, p)
      <4>1. CASE n = SessionChange("add", n.session)
        <5>1. n.what = "add"
          BY <4>1 DEF SessionChange
        <5>2. p[1] = SessionChange("add", n.session)
          BY <2>6, <4>1
        <5>3. Announced(known \cup {n.session}, Tail(p)) = Announced(known, p)
          BY <2>1, <2>6, <3>2, <5>2, AnnouncedLess, Zenon
        <5> QED
          BY <5>1, <5>3
      <4>2. CASE n = SessionChange("remove", n.session)
        <5>1. n.what # "add"
          BY <4>2 DEF SessionChange
        <5>2. p[1] = SessionChange("remove", n.session)
          BY <2>6, <4>2
        <5>3. Announced(known \ {n.session}, Tail(p)) = Announced(known, p)
          BY <2>1, <2>6, <3>2, <5>2, AnnouncedLess, Zenon
        <5> QED
          BY Zenon, <5>1, <5>3
      <4> QED
        BY Zenon, <3>5, <4>1, <4>2
    <3> QED
      BY ZenonT(40), <2>3, <2>4, <3>2, <3>3, <3>4, <3>6 DEF ServerSocket
  <2>7. CASE p = << >>
    <3>1. DOMAIN p = {}
      BY <2>7
    <3> QED
      BY <2>5, <2>7, <3>1, ZenonT(40) DEF Takes
  <2>8. CASE p # << >>
    <3>1. 1 \in DOMAIN p
      BY <2>1, <2>8
    <3>2. PICK i \in DOMAIN p : /\ n = p[i] /\ t.preRead = SubSeq(p, i + 1, Len(p))
                               /\ \A k \in DOMAIN p : k < i => p[k].type \notin s.mask
      BY <2>2, <3>1, Zenon DEF Takes
    <3>3. i = 1
      <4>1. CASE 1 < i
        <5>1. p[1].type \notin s.mask
          BY <3>1, <3>2, <4>1
        <5> QED
          BY <2>2, <3>1, <5>1, Zenon
      <4> QED
        BY <2>1, <3>2, <4>1
    <3> QED
      BY <2>6, <2>8, <3>2, <3>3
  <2> QED
    BY Zenon, <2>7, <2>8

\* rsp_recvmsg() gives a notification or an echo without a read.
<1>GiveStep.
  ASSUME SessionInv, NEW t, NEW n, Takes(rs, "preRead", t, n), Gives(Got(t, 1, n)),
         UNCHANGED <<role, up, incoming, inRecv, pieces, cookies, assocs>>
  PROVE  SessionInv'
  <2> USE <1>GiveStep
  <2>1. rs' = t /\ (told => told') /\ told' \in BOOLEAN
    BY DEF Gives, Got, SessionInv, SessionType
  <2>2. appSessions' = CASE n.type # "change" -> appSessions
                         [] n.type = "change" /\ n.what = "add" -> appSessions \cup {n.session}
                         [] OTHER -> appSessions \ {n.session}
    BY DEF Gives, Got
  <2>3. SessionType /\ SocketOK(rs)
    BY DEF SessionInv
  <2>4. SessionType'
    BY ZenonT(40), <2>1, <2>3 DEF SessionType
  <2>5. /\ SocketOK(t) /\ SameSessions(rs, t) /\ DOMAIN t.sessions = DOMAIN rs.sessions
        /\ t.connected = rs.connected /\ t.sock = rs.sock /\ t.type = rs.type
        /\ t.mask = rs.mask /\ t.postRead = rs.postRead
    BY DEF Takes, Same, Field
  <2>6. CASE role = "server"
    <3>1. ~up /\ ServerSocket(rs, appSessions, incoming, assocs, pieces) /\ pieces \in BOOLEAN
      BY Zenon, <2>3, <2>6 DEF SessionInv, ServerInv, SessionType
    <3>2. ServerSocket(t, appSessions', incoming, assocs, pieces)
      <4>1. \/ n.type \in {"echo", "nothing"} /\ ServerSocket(t, appSessions, incoming, assocs, pieces)
            \/ /\ n.type = "change"
               /\ ServerSocket(t, IF n.what = "add" THEN appSessions \cup {n.session}
                                  ELSE appSessions \ {n.session}, incoming, assocs, pieces)
        BY <2>3, <3>1, <1>ServerGives
      <4>2. CASE n.type # "change"
        BY Zenon, <2>2, <4>1, <4>2
      <4>3. CASE n.type = "change" /\ n.what = "add"
        BY Zenon, <2>2, <4>1, <4>3
      <4>4. CASE n.type = "change" /\ n.what # "add"
        BY Zenon, <2>2, <4>1, <4>4
      <4> QED
        BY ZenonT(40), <4>2, <4>3, <4>4
    <3>3. ServerInv'
      BY Zenon, <2>1, <3>1, <3>2 DEF ServerInv
    <3> QED
      BY ZenonT(40), <2>1, <2>4, <2>5, <2>6, <3>3 DEF SessionInv
  <2>7. CASE role # "server"
    <3>1. ClientInv
      BY Zenon, <2>7 DEF SessionInv
    <3>2. NecessaryIn(t) <=> NecessaryIn(rs)
      BY Zenon, <2>5 DEF NecessaryIn
    <3>3. rs.connected # 0 => t.sessions[rs.connected].failed = rs.sessions[rs.connected].failed
      BY <2>3, <2>5 DEF SameSessions, SocketOK
    <3>4. ClientInv'
      BY <2>1, <2>5, <3>1, <3>2, <3>3, ZenonT(40) DEF ClientInv
    <3> QED
      BY Zenon, <2>1, <2>4, <2>5, <2>7, <3>4 DEF SessionInv
  <2> QED
    BY <2>6, <2>7
<1> DEFINE pre == GetCookieEchoOrNotification(rs, TRUE)
           s == IF inRecv THEN rs ELSE pre.socket
<1>1. /\ SessionType /\ SocketOK(rs) /\ UNCHANGED <<role, up, cookies, assocs>>
      /\ role = "client" => rs.connected # 0
  BY DEF SessionInv, RspRecvmsg, peerVars
<1>2. Takes(rs, "preRead", pre.socket, pre.given)
  BY <1>1, GetTakes, ZenonT(40)
<1>3. CASE ~inRecv /\ pre.given # Nothing
  <2>1. Gives(Got(pre.socket, 1, pre.given)) /\ UNCHANGED <<inRecv, incoming, pieces>>
    BY <1>3, ZenonT(40) DEF RspRecvmsg
  <2> HIDE DEF pre
  <2> QED
    BY Zenon, <1>1, <1>2, <2>1, <1>GiveStep
<1>4. CASE ~(~inRecv /\ pre.given # Nothing)
  <2>1. PICK r \in ReadSocket(s, NextMessage) :
          /\ Gives(AfterRead(r))
          /\ inRecv' \in IF AfterRead(r).received < 0 THEN BOOLEAN ELSE {FALSE}
    BY <1>4, Zenon DEF RspRecvmsg
  <2>2. TakeMessage
    BY <1>4, Zenon DEF RspRecvmsg
  <2>3. inRecv \/ pre.given = Nothing
    BY <1>4, Zenon
  <2> HIDE DEF pre
  <2>4. inRecv' \in BOOLEAN
    <3>1. inRecv' \in BOOLEAN \/ inRecv' = FALSE
      BY <2>1, ZenonT(40)
    <3> QED
      BY <3>1, Zenon
  <2> DEFINE g == AfterRead(r)
  <2>5. /\ rs' = g.rs
        /\ told' = (told \/ g.given.type = "closed"
                         \/ (g.given.type = "failover" /\ g.given.what = "necessary"))
        /\ g.given.type # "change" => appSessions' = appSessions
    BY <2>1 DEF Gives
  <2>6. told' \in BOOLEAN /\ (told => told')
    BY <1>1, <2>5, ZenonT(40) DEF SessionType
  <2>7. /\ SocketOK(s) /\ SameSessions(rs, s) /\ DOMAIN s.sessions = DOMAIN rs.sessions
        /\ s.connected = rs.connected /\ s.sock = rs.sock /\ s.type = rs.type
        /\ s.mask = rs.mask /\ s.postRead = rs.postRead
    <3>1. CASE inRecv
      BY <1>1, <3>1, SteadyRefl, ZenonT(40)
    <3>2. CASE ~inRecv
      BY <1>2, <3>2, ZenonT(40) DEF Takes, Same, Field
    <3> QED
      BY <3>1, <3>2, ZenonT(40)
  <2>8. role = "server" => ServerSocket(s, appSessions, incoming, assocs, pieces)
    <3> SUFFICES ASSUME role = "server" PROVE ServerSocket(s, appSessions, incoming, assocs, pieces)
      BY Zenon
    <3>1. ServerSocket(rs, appSessions, incoming, assocs, pieces) /\ pieces \in BOOLEAN
      BY <1>1 DEF SessionInv, ServerInv, SessionType
    <3>2. CASE inRecv
      BY Zenon, <3>1, <3>2
    <3>3. CASE ~inRecv
      <4>1. pre.given.type = "nothing"
        <5>1. pre.given = Nothing
          BY Zenon, <2>3, <3>3
        <5> HIDE <1>1, <1>2, <1>4, <2>1, <2>2
        <5> QED
          BY <5>1 DEF Nothing
      <4> DEFINE n == pre.given
      <4>2. \/ /\ n.type \in {"echo", "nothing"}
               /\ ServerSocket(pre.socket, appSessions, incoming, assocs, pieces)
            \/ /\ n.type = "change"
               /\ ServerSocket(pre.socket,
                    IF n.what = "add" THEN appSessions \cup {n.session}
                                      ELSE appSessions \ {n.session},
                    incoming, assocs, pieces)
        <5> HIDE DEF n
        <5>1. Takes(rs, "preRead", pre.socket, n)
          BY Zenon, <1>2 DEF n
        <5> QED
          BY <1>1, <3>1, <5>1, <1>ServerGives
      <4>3. ServerSocket(pre.socket, appSessions, incoming, assocs, pieces)
        BY Zenon, <4>1, <4>2
      <4> QED
        BY Zenon, <3>3, <4>3
    <3> QED
      BY Zenon, <3>2, <3>3
  <2> HIDE DEF s
  <2>9. NextMessage.kind \in Kinds
    BY Zenon, <1>1, <2>2, NextMessageIs
  <2>10. r.received \in {-1, 0, 1} /\ r.given.type \in {"nothing", "data"}
    <3>1. ReadIs(s, NextMessage, r)
      BY Zenon, <2>9, ReadCases
    <3>2. s.sock \in BOOLEAN
      BY Zenon, <2>7 DEF SocketOK, QueuesOK
    <3> QED
      BY Zenon, <2>9, <3>1, <3>2 DEF ReadIs, Kinds
  <2>11. ASSUME SocketOK(r.rs)
         PROVE  /\ Steady(r.rs, rs') /\ SameSessions(r.rs, rs') /\ (rs'.partial => r.rs.partial)
                /\ appSessions' = appSessions
                /\ NecessaryIn(r.rs) /\ "failover" \in r.rs.mask => NecessaryIn(rs') \/ told'
    <3>1. /\ Steady(r.rs, g.rs) /\ SameSessions(r.rs, g.rs) /\ (g.rs.partial => r.rs.partial)
          /\ g.given.type # "change"
          /\ NecessaryIn(r.rs) /\ "failover" \in r.rs.mask =>
               NecessaryIn(g.rs) \/ (g.given.type = "failover" /\ g.given.what = "necessary")
      BY <2>10, <2>11, AfterReadIs, ZenonT(40)
    <3> HIDE DEF g
    <3> QED
      BY <2>5, <3>1, ZenonT(40)
  <2>12. CASE role = "server"
    <3>1. s.connected = 0 /\ s.sock /\ s.type # "stream" /\ s.mask = NotificationMask
      BY <2>8, <2>12, ZenonT(40) DEF ServerSocket
    <3>2. SocketOK(r.rs)
      BY <2>7, <2>9, <2>12, <3>1, ReadSocketServer, ZenonT(40) DEF ReadServer
    <3> QED
      BY <1>1, <2>2, <2>4, <2>6, <2>7, <2>8, <2>11, <2>12, <3>2, ServerSocketReads, ZenonT(40)
  <2>13. CASE role # "server"
    <3>1. rs.connected # 0
      BY Zenon, <1>1, <2>13 DEF SessionInv, ClientInv, SessionType, Role
    <3>2. SocketOK(r.rs)
      BY ZenonT(40), <2>7, <2>9, <3>1, ReadSocketConnected DEF ReadConnected, Steady
    <3>3. s.sessions[s.connected].failed = rs.sessions[rs.connected].failed
      BY <1>1, <2>7, <3>1 DEF SameSessions, SocketOK
    <3> QED
      BY <1>1, <2>2, <2>4, <2>6, <2>7, <2>11, <2>13, <3>1, <3>2, <3>3, ConnectedReads, ZenonT(40)
  <2> QED
    BY <2>12, <2>13
<1> QED
  BY <1>3, <1>4, Zenon

\* The calls of the Enhanced Mode on a socket (rspenhancedmode.c) keep the inductive
\* invariant, whatever arrives from the network in between: the bitmap marks the
\* identifiers of the sessions, a server's queues fit to its sessions and to what it
\* has still to read, and a mark of failure has a reason and is reported.
THEOREM SessionInvariant ==
 SessionSpec => []SessionInv

\* Such a step keeps the invariant of a server's socket.
<1>ServerStays.
  ASSUME NEW s, NEW t, NEW known, NEW q, NEW A, NEW partial \in BOOLEAN,
         ServerSocket(s, known, q, A, partial), Stays(s, t), t.partial => s.partial \/ partial
  PROVE  ServerSocket(t, known, q, A, partial)
  <2> USE <1>ServerStays
  <2>1. /\ t.connected = s.connected /\ t.sock = s.sock /\ t.type = s.type
        /\ t.mask = s.mask /\ t.preRead = s.preRead
    BY SteadySame DEF Stays
  <2> QED
    BY ZenonT(40), <2>1, StaysSame DEF ServerSocket

\* rsp_connect() keeps the invariant.
<1>ConnectStep.
  ASSUME SessionInv, RspConnect
  PROVE  SessionInv'
  <2> USE <1>ConnectStep
  <2> DEFINE s == [AddSession(rs, 0, FALSE) EXCEPT !.connected = AllocateID(rs.bitmap), !.mask = {}]
  <2>1. /\ role = "client" /\ role' = role /\ DOMAIN rs.sessions = {} /\ UNCHANGED <<inRecv, told, pieces, cookies, assocs>>
        /\ DoFailover(s, FALSE, rs.mask \ {"change"}, FALSE)
    BY Zenon DEF RspConnect
  <2>2. SessionType /\ SocketOK(rs) /\ ClientInv
    BY <2>1 DEF SessionInv
  <2>3. SocketOK(s) /\ s.connected = 1 /\ s.type = rs.type
    <3>1. PICK f \in BOOLEAN : f = FALSE
      BY Zenon
    <3> DEFINE t == FirstSession(rs, f)
    <3>2. SocketOK(t) /\ t.connected = 1 /\ t.type = rs.type
      BY <2>1, <2>2, FirstSessionIs
    <3>3. t = s
      BY <3>1, Zenon DEF FirstSession
    <3> QED
      BY <3>2, <3>3, Zenon
  <2> HIDE DEF s
  <2>4. rs.mask \ {"change"} \subseteq NotificationMask
    BY Zenon, <2>2 DEF SocketOK, QueuesOK
  <2>5. /\ SocketOK(rs') /\ rs'.connected = 1 /\ rs'.type = rs.type /\ rs'.mask = rs.mask \ {"change"}
        /\ rs'.sessions[1].failed = FALSE
        /\ up' \in BOOLEAN /\ (up' => rs'.sock) /\ incoming' \in Seq(Message)
    <3>1. \E x, y : DoFailover(s, x, rs.mask \ {"change"}, y)
      BY <2>1, Zenon
    <3>2. PICK x, y : DoFailover(s, x, rs.mask \ {"change"}, y)
      BY Zenon, <3>1
    <3>3. s.connected # 0
      BY <2>3
    <3>4. /\ SocketOK(rs') /\ rs'.connected = s.connected /\ rs'.type = s.type
          /\ rs'.mask = rs.mask \ {"change"} /\ rs'.sessions[s.connected].failed = FALSE
          /\ up' \in BOOLEAN /\ (up' => rs'.sock) /\ incoming' \in Seq(Message)
      BY <2>3, <2>4, <3>2, <3>3, DoFailoverMoves, ZenonT(40)
    <3> QED
      BY Zenon, <2>3, <3>4
  <2>6. SessionType'
    BY Zenon, <2>1, <2>2, <2>5 DEF SessionType
  <2> QED
    <3>1. ~(role' = "server")
      BY <2>1
    <3>2. ClientInv'
      <4>1. rs'.connected # 0 /\ ~(rs'.sessions[rs'.connected].failed)
        <5>1. rs'.connected = 1 /\ rs'.sessions[1].failed = FALSE
          BY Zenon, <2>5
        <5> QED
          BY <5>1
      <4>2. rs'.type \in {"stream", "seqpacket"} /\ assocs' = {} /\ (~rs'.sock => ~up')
        BY Zenon, <2>1, <2>2, <2>5 DEF ClientInv
      <4>3. role' = "client" /\ rs'.type = "seqpacket" => "failover" \in rs'.mask
        BY <2>1, <2>2, <2>5 DEF ClientInv
      <4> QED
        BY <4>1, <4>2, <4>3, Zenon DEF ClientInv
    <3> QED
      BY <2>5, <2>6, <3>1, <3>2, Zenon DEF SessionInv

\* rsp_forcefailover() keeps the invariant.
<1>ForceFailoverStep.
  ASSUME SessionInv, NEW u \in BOOLEAN, ForceFailover(u)
  PROVE  SessionInv'
  <2> USE <1>ForceFailoverStep
  <2>1. /\ role = "client" /\ role' = role /\ rs.connected # 0 /\ UNCHANGED <<inRecv, cookies, assocs>>
        /\ DoFailover(rs, u, rs.mask, ~told) /\ told' = FALSE /\ pieces' = FALSE
    BY DEF ForceFailover
  <2>2. SessionType /\ SocketOK(rs) /\ ClientInv
    BY Zenon, <2>1 DEF SessionInv
  <2>3. rs.mask \subseteq NotificationMask
    BY Zenon, <2>2 DEF SocketOK, QueuesOK
  <2>4. /\ SocketOK(rs') /\ rs'.connected = rs.connected /\ rs'.type = rs.type /\ rs'.mask = rs.mask
        /\ rs'.sessions[rs.connected].failed = FALSE
        /\ up' \in BOOLEAN /\ (up' => rs'.sock) /\ incoming' \in Seq(Message)
    BY <2>1, <2>2, <2>3, DoFailoverMoves, Zenon
  <2>5. SessionType'
    BY <2>1, <2>2, <2>4, ZenonT(40) DEF SessionType
  <2> QED
    BY <2>1, <2>2, <2>4, <2>5, ZenonT(40) DEF SessionInv, ClientInv

\* rsp_close() keeps the invariant.
<1>CloseStep.
  ASSUME SessionInv, RspClose
  PROVE  SessionInv'
  <2> USE <1>CloseStep
  <2>1. /\ role = "client" /\ role' = role /\ rs' = NewSocket(rs.type) /\ up' = FALSE /\ incoming' = << >>
        /\ told' = FALSE /\ pieces' = FALSE /\ UNCHANGED <<inRecv, assocs, cookies>>
    BY DEF RspClose
  <2>2. SessionType /\ ClientInv
    BY Zenon, <2>1 DEF SessionInv
  <2>3. /\ SocketOK(rs') /\ rs'.connected = 0 /\ rs'.sock = TRUE /\ DOMAIN rs'.sessions = {}
        /\ rs'.type = rs.type /\ (rs.type = "seqpacket" => rs'.mask = NotificationMask)
    BY <2>1, <2>2, NewSocketIs, ZenonT(40) DEF ClientInv
  <2>4. SessionType'
    <3>1. << >> \in Seq(Message)
      OBVIOUS
    <3>2. up' \in BOOLEAN /\ told' \in BOOLEAN /\ pieces' \in BOOLEAN
      BY <2>1, ZenonT(40)
    <3> QED
      BY <2>1, <2>2, <3>1, <3>2 DEF SessionType
  <2> QED
    BY <2>1, <2>2, <2>3, <2>4, ZenonT(40) DEF SessionInv, ClientInv, NotificationMask

\* rsp_poll() keeps the invariant.
<1>PollStep.
  ASSUME SessionInv, RspPoll
  PROVE  SessionInv'
  <2> USE <1>PollStep
  <2>1. /\ SessionType /\ SocketOK(rs) /\ TakeMessage /\ rs.sock
        /\ UNCHANGED <<role, up, inRecv, told, cookies, assocs, appSessions>>
        /\ NextMessage.kind \in {"up", "lost", "shutdown", "cookie", "echo"}
    BY Zenon DEF SessionInv, RspPoll, peerVars
  <2>2. PICK r \in ReadSocket(rs, NextMessage) : rs' = r.rs
    BY Zenon DEF RspPoll
  <2>3. NextMessage.kind \in Kinds
    BY Zenon, <2>1, NextMessageIs
  <2>4. told' \in BOOLEAN /\ inRecv' \in BOOLEAN /\ (told => told')
    BY Zenon, <2>1 DEF SessionType
  <2>5. CASE role = "server"
    <3>1. ServerSocket(rs, appSessions, incoming, assocs, pieces)
      BY Zenon, <2>5 DEF SessionInv, ServerInv
    <3>2. rs.connected = 0 /\ rs.sock /\ rs.type # "stream" /\ rs.mask = NotificationMask
      BY <3>1 DEF ServerSocket
    <3>3. SocketOK(r.rs)
      BY <2>1, <2>3, <2>5, <3>2, ReadSocketServer, ZenonT(40) DEF ReadServer
    <3>4. Steady(r.rs, rs') /\ SameSessions(r.rs, rs') /\ (rs'.partial => r.rs.partial)
      BY Zenon, <2>2, <3>3, SteadyRefl
    <3> QED
      BY ZenonT(40), <2>1, <2>4, <2>5, <3>1, <3>4, ServerSocketReads
  <2>6. CASE role # "server"
    <3>1. rs.connected # 0
      BY Zenon, <2>1, <2>6 DEF SessionInv, ClientInv, NextMessage, ReadsNothing
    <3>2. SocketOK(r.rs)
      BY Zenon, <2>1, <2>3, <3>1, ReadSocketConnected DEF ReadConnected, Steady
    <3>3. Steady(r.rs, rs') /\ SameSessions(r.rs, rs') /\ (NecessaryIn(r.rs) => NecessaryIn(rs'))
      BY <2>2, <3>2, SteadyRefl
    <3> QED
      BY <2>1, <2>4, <2>6, <3>1, <3>3, ConnectedReads, ZenonT(40)
  <2> QED
    BY Zenon, <2>5, <2>6

\* rsp_sendmsg() keeps the invariant: it marks a session only without association.
<1>SendmsgStep.
  ASSUME SessionInv, NEW id, RspSendmsg(id)
  PROVE  SessionInv'
  <2> USE <1>SendmsgStep
  <2>1. /\ SessionType /\ SocketOK(rs) /\ id \in DOMAIN rs.sessions
        /\ UNCHANGED <<role, up, incoming, inRecv, told, pieces, appSessions, assocs, cookies>>
    BY DEF SessionInv, RspSendmsg, peerVars
  <2>2. SessionType'
    BY Zenon, <2>1 DEF SessionType
  <2>3. CASE rs' = rs
    <3>1. SocketOK(rs') /\ (ServerInv => ServerInv') /\ (ClientInv => ClientInv')
      BY <2>1, <2>3, ZenonT(40) DEF ServerInv, ClientInv
    <3> QED
      BY Zenon, <2>1, <2>2, <3>1 DEF SessionInv
  <2>4. CASE ~Reachable(id) /\ rs' = MarkFailed(rs, id)
    <3>1. /\ Steady(rs, rs') /\ Queued(rs, rs') /\ rs'.partial = rs.partial
          /\ \A i \in DOMAIN rs.sessions : rs'.sessions[i].assoc = rs.sessions[i].assoc
          /\ "failover" \in rs.mask => NecessaryIn(rs')
      BY <2>1, <2>4, MarkFailedIs, ZenonT(40)
    <3>2. /\ SocketOK(rs') /\ DOMAIN rs'.sessions = DOMAIN rs.sessions
          /\ rs'.connected = rs.connected /\ rs'.sock = rs.sock /\ rs'.type = rs.type
          /\ rs'.mask = rs.mask
      BY Zenon, <3>1, SteadySame
    <3>3. CASE role = "server"
      <4>1. ServerSocket(rs, appSessions, incoming, assocs, pieces) /\ pieces \in BOOLEAN
        BY Zenon, <2>1, <3>3 DEF SessionInv, ServerInv, SessionType
      <4>2. ServerSocket(rs', appSessions, incoming, assocs, pieces)
        BY Zenon, <3>1, <4>1, <1>ServerStays DEF Stays
      <4>3. ServerInv'
        BY Zenon, <2>1, <3>3, <4>2 DEF SessionInv, ServerInv
      <4> QED
        BY Zenon, <2>1, <2>2, <3>2, <3>3, <4>3 DEF SessionInv
    <3>4. CASE role # "server"
      <4>1. ClientInv
        BY Zenon, <3>4 DEF SessionInv
      <4>2. ~up
        BY Zenon, <2>4, <3>4, <4>1 DEF Reachable, ClientInv
      <4>3. ClientInv'
        BY Zenon, <2>1, <3>1, <3>2, <4>1, <4>2 DEF ClientInv
      <4> QED
        BY Zenon, <2>1, <2>2, <3>2, <3>4, <4>3 DEF SessionInv
    <3> QED
      BY <3>3, <3>4
  <2>5. rs' = rs \/ (~Reachable(id) /\ rs' = MarkFailed(rs, id))
    BY Zenon DEF RspSendmsg, MarkFailed
  <2> QED
    BY Zenon, <2>3, <2>4, <2>5

\* A message or a notification of SCTP arrives: at a server, an association begins
\* or ends with it, or nothing changes; elsewhere, the association was up.
<1>ArrivesStep.
  ASSUME SessionInv, NEW m \in Message, Arrives(m),
         up' \in BOOLEAN, up' => up, cookies' \in Nat, assocs' \subseteq Assoc,
         role # "server" => up /\ assocs' = assocs,
         role = "server" => \/ /\ m.kind = "up" /\ m.assoc \notin assocs
                               /\ assocs' = assocs \cup {m.assoc}
                            \/ m.kind = "lost" /\ assocs' = assocs \ {m.assoc}
                            \/ m.kind \notin {"up", "lost"} /\ assocs' = assocs
  PROVE  SessionInv'
  <2> USE <1>ArrivesStep
  <2>1. /\ UNCHANGED <<rs, role, inRecv, told, pieces, appSessions>>
        /\ incoming' = Append(incoming, m) /\ incoming \in Seq(Message)
        /\ SessionType /\ SocketOK(rs)
    BY Zenon DEF Arrives, SessionInv, SessionType
  <2>2. incoming' \in Seq(Message)
    BY <2>1
  <2>3. SessionType' /\ SocketOK(rs')
    BY Zenon, <2>1, <2>2 DEF SessionType
  <2>4. CASE role = "server"
    <3>1. ~up /\ ServerSocket(rs, appSessions, incoming, assocs, pieces)
      BY Zenon, <2>4 DEF SessionInv, ServerInv
    <3>2. ASSUME Fits(Assocs(rs), incoming, assocs)
          PROVE  Fits(Assocs(rs), Append(incoming, m), assocs')
      BY <2>1, <2>4, <3>2, FitsUp, FitsLost, FitsOther
    <3>3. ServerSocket(rs, appSessions, Append(incoming, m), assocs', pieces)
      BY <3>1, <3>2, ZenonT(40) DEF ServerSocket
    <3>4. ServerInv'
      BY Zenon, <2>1, <3>1, <3>3 DEF ServerInv
    <3> QED
      BY Zenon, <2>1, <2>3, <2>4, <3>4 DEF SessionInv
  <2>5. CASE role # "server"
    <3>1. ClientInv /\ up /\ assocs' = assocs
      BY Zenon, <2>5 DEF SessionInv
    <3>2. rs.connected # 0
      BY <3>1 DEF ClientInv
    <3>3. ClientInv'
      BY <2>1, <3>1, <3>2, ZenonT(40) DEF ClientInv
    <3> QED
      BY Zenon, <2>1, <2>3, <2>5, <3>3 DEF SessionInv
  <2> QED
    BY Zenon, <2>4, <2>5

\* Nothing of what the invariant is about changes.
<1>SameSession.
  ASSUME SessionInv, UNCHANGED <<rs, role, incoming, inRecv, told, pieces, appSessions,
                                 assocs, cookies, up>>
  PROVE  SessionInv'
  <2> USE <1>SameSession
  <2>1. (SessionType => SessionType') /\ (ServerInv => ServerInv') /\ (ClientInv => ClientInv')
    BY Zenon DEF SessionType, ServerInv, ClientInv
  <2> QED
    BY Zenon, <2>1 DEF SessionInv

\* Which associations there are, by the role of the socket.
<1>Assoc0.
  SessionInv => /\ 0 \notin assocs /\ assocs \subseteq Assoc /\ up \in BOOLEAN /\ cookies \in Nat
                /\ role = "server" => ~up
                /\ role # "server" => assocs = {}
  BY Zenon, SessionAssumption DEF SessionInv, SessionType, ServerInv, ClientInv

\* A message of a peer arrives.
<1>PeerStep.
  ASSUME SessionInv, PeerSends
  PROVE  SessionInv'
  <2> USE <1>PeerStep
  <2>1. PICK a \in PeerOf :
      /\ \/ Arrives([kind |-> "data", assoc |-> a]) /\ UNCHANGED cookies
         \/ Arrives([kind |-> "piece", assoc |-> a]) /\ UNCHANGED cookies
         \/ /\ cookies < MaxCookie /\ cookies' = cookies + 1
            /\ Arrives([kind |-> IF role = "client" THEN "cookie" ELSE "echo",
                        assoc |-> a, cookie |-> cookies + 1])
      /\ UNCHANGED <<up, pool, alive, assocs>>
    BY Zenon DEF PeerSends
  <2>2. /\ a \in Assoc \cup {0} /\ (role # "server" => up)
        /\ up' \in BOOLEAN /\ (up' => up) /\ assocs' \subseteq Assoc /\ assocs' = assocs
        /\ cookies \in Nat
    BY Zenon, <2>1, <1>Assoc0 DEF PeerOf
  <2> DEFINE d == [kind |-> "data", assoc |-> a]
             e == [kind |-> "piece", assoc |-> a]
             c == [kind |-> IF role = "client" THEN "cookie" ELSE "echo",
                   assoc |-> a, cookie |-> cookies + 1]
  <2>3. /\ d \in Message /\ e \in Message /\ c \in Message
        /\ d.kind \notin {"up", "lost"} /\ e.kind \notin {"up", "lost"} /\ c.kind \notin {"up", "lost"}
    <3>1. a \in Assoc \cup {0} /\ cookies + 1 \in Nat
      BY <2>2
    <3>2. d \in Message /\ d.kind \notin {"up", "lost"}
      BY ZenonT(40), <3>1 DEF Message
    <3>3. e \in Message /\ e.kind \notin {"up", "lost"}
      BY ZenonT(40), <3>1 DEF Message
    <3>4. c \in Message /\ c.kind \notin {"up", "lost"}
      BY ZenonT(40), <3>1 DEF Message
    <3> QED
      BY Zenon, <3>2, <3>3, <3>4
  <2>4. PICK m \in {d, e, c} : Arrives(m) /\ cookies' \in Nat
    <3>1. cookies \in Nat => cookies + 1 \in Nat
      OBVIOUS
    <3> QED
      BY ZenonT(40), <2>1, <2>2, <3>1
  <2>5. m \in Message /\ m.kind \notin {"up", "lost"}
    BY <2>3
  <2> HIDE DEF d, e, c
  <2> QED
    BY Zenon, <2>2, <2>4, <2>5, <1>ArrivesStep

\* An association fails.
<1>LossStep.
  ASSUME SessionInv, AssociationFails
  PROVE  SessionInv'
  <2> USE <1>LossStep
  <2>1. CASE /\ role # "server" /\ up /\ up' = FALSE
             /\ Arrives([kind |-> "lost", assoc |-> 0])
             /\ UNCHANGED <<pool, alive, assocs, cookies>>
    <3> DEFINE m == [kind |-> "lost", assoc |-> 0]
    <3>1. m \in Message /\ Arrives(m)
      BY <2>1 DEF Message
    <3> HIDE DEF m
    <3>2. up' \in BOOLEAN /\ (up' => up) /\ cookies' \in Nat /\ assocs' \subseteq Assoc
      BY <2>1, <1>Assoc0, Zenon
    <3> QED
      BY Zenon, <2>1, <3>1, <3>2, <1>ArrivesStep
  <2>2. ASSUME NEW a \in assocs, assocs' = assocs \ {a}, Arrives([kind |-> "lost", assoc |-> a]),
               UNCHANGED <<up, pool, alive, cookies>>
        PROVE  SessionInv'
    <3> DEFINE m == [kind |-> "lost", assoc |-> a]
    <3>1. m \in Message /\ Arrives(m) /\ m.kind = "lost" /\ m.assoc = a
      BY Zenon, <2>2, <1>Assoc0 DEF Message
    <3> HIDE DEF m
    <3>2. /\ up' \in BOOLEAN /\ (up' => up) /\ cookies' \in Nat /\ assocs' \subseteq Assoc
          /\ role = "server"
      BY Zenon, <2>2, <1>Assoc0
    <3> QED
      BY <2>2, <3>1, <3>2, <1>ArrivesStep
  <2> QED
    BY <2>1, <2>2, Zenon DEF AssociationFails

\* A pool element fails, and with it the association to it.
<1>PEFailsStep.
  ASSUME SessionInv, PEFails
  PROVE  SessionInv'
  <2> USE <1>PEFailsStep
  <2>1. PICK p \in alive :
      /\ IF p = conn /\ up THEN Arrives([kind |-> "lost", assoc |-> 0])
         ELSE UNCHANGED <<rs, role, conn, incoming, sent, inRecv, given, told,
                          pieces, appSessions>>
      /\ up' = (up /\ p # conn)
      /\ UNCHANGED <<pool, assocs, cookies>>
    BY Zenon DEF PEFails
  <2>2. CASE p = conn /\ up
    <3> DEFINE m == [kind |-> "lost", assoc |-> 0]
    <3>1. m \in Message /\ Arrives(m)
      BY Zenon, <2>1, <2>2 DEF Message
    <3> HIDE DEF m
    <3>2. /\ up' \in BOOLEAN /\ (up' => up) /\ cookies' \in Nat /\ assocs' \subseteq Assoc
          /\ role # "server" /\ assocs' = assocs
      BY Zenon, <2>1, <2>2, <1>Assoc0
    <3> QED
      BY Zenon, <2>2, <3>1, <3>2, <1>ArrivesStep
  <2>3. CASE ~(p = conn /\ up)
    <3>1. up' = up
      BY Zenon, <2>1, <2>3, <1>Assoc0
    <3> QED
      BY Zenon, <2>1, <2>3, <3>1, <1>SameSession
  <2> QED
    BY Zenon, <2>2, <2>3

\* An association to a server begins, or is shut down.
<1>AssociationStep.
  ASSUME SessionInv, AssociationBegins \/ ShutdownBegins
  PROVE  SessionInv'
  <2> USE <1>AssociationStep
  <2>1. role = "server" /\ UNCHANGED <<up, cookies>>
    BY DEF AssociationBegins, ShutdownBegins
  <2>2. up' \in BOOLEAN /\ (up' => up) /\ cookies' \in Nat
    BY Zenon, <2>1, <1>Assoc0
  <2>3. CASE AssociationBegins
    <3>1. PICK a \in Assoc \ assocs : /\ assocs' = assocs \cup {a}
                                      /\ Arrives([kind |-> "up", assoc |-> a])
      BY Zenon, <2>3 DEF AssociationBegins
    <3> DEFINE m == [kind |-> "up", assoc |-> a]
    <3>2. m \in Message /\ Arrives(m) /\ m.kind = "up" /\ m.assoc = a /\ assocs' \subseteq Assoc
      BY Zenon, <3>1, <1>Assoc0 DEF Message
    <3> HIDE DEF m
    <3> QED
      BY Zenon, <2>1, <2>2, <3>1, <3>2, <1>ArrivesStep
  <2>4. CASE ShutdownBegins
    <3>1. PICK a \in assocs : Arrives([kind |-> "shutdown", assoc |-> a]) /\ assocs' = assocs
      BY Zenon, <2>4 DEF ShutdownBegins
    <3> DEFINE m == [kind |-> "shutdown", assoc |-> a]
    <3>2. m \in Message /\ Arrives(m) /\ m.kind = "shutdown" /\ assocs' \subseteq Assoc
      BY Zenon, <3>1, <1>Assoc0 DEF Message
    <3> HIDE DEF m
    <3> QED
      BY Zenon, <2>1, <2>2, <3>1, <3>2, <1>ArrivesStep
  <2> QED
    BY Zenon, <2>3, <2>4
<1>1. SessionInit => SessionInv
  BY Zenon, InitSession
<1>2. SessionInv /\ [SessionNext]_sessionVars => SessionInv'
  <2> SUFFICES ASSUME SessionInv, [SessionNext]_sessionVars PROVE SessionInv'
    OBVIOUS
  <2>1. CASE RspConnect
    BY Zenon, <2>1, <1>ConnectStep
  <2>2. CASE \E u \in BOOLEAN : ForceFailover(u)
    BY Zenon, <2>2, <1>ForceFailoverStep
  <2>3. CASE \E id \in 1..(Entries - 1) : RspSendmsg(id)
    BY Zenon, <2>3, <1>SendmsgStep
  <2>4. CASE RspRecvmsg
    BY Zenon, <2>4, RecvmsgStep
  <2>5. CASE RspPoll
    BY Zenon, <2>5, <1>PollStep
  <2>6. CASE RspClose
    BY Zenon, <2>6, <1>CloseStep
  <2>7. CASE PeerSends
    BY Zenon, <2>7, <1>PeerStep
  <2>8. CASE AssociationFails
    BY Zenon, <2>8, <1>LossStep
  <2>9. CASE PEFails
    BY Zenon, <2>9, <1>PEFailsStep
  <2>10. CASE PERegisters
    BY Zenon, <2>10, <1>SameSession DEF PERegisters
  <2>11. CASE AssociationBegins \/ ShutdownBegins
    BY Zenon, <2>11, <1>AssociationStep
  <2>12. CASE UNCHANGED sessionVars
    BY Zenon, <2>12, <1>SameSession DEF sessionVars, peerVars
  <2> QED
    BY ZenonT(40), <2>1, <2>2, <2>3, <2>4, <2>5, <2>6, <2>7, <2>8, <2>9, <2>10, <2>11, <2>12
    DEF SessionNext
<1> QED
  BY <1>1, <1>2, PTL DEF SessionSpec

\* The bitmap of identifiers always marks exactly those of the sessions, its count is
\* right, and no association has two sessions unless a partial message was read
\* (addSession(), deleteSession(), identifierBitmapAllocateID()).
THEOREM SessionIdentifiersAlways ==
 SessionSpec => []SessionIdentifiers
<1>1. SessionInv => SessionIdentifiers
  <2> SUFFICES ASSUME SessionInv PROVE SessionIdentifiers
    BY Zenon
  <2>1. SocketOK(rs) /\ Bits(rs.bitmap, {0} \cup DOMAIN rs.sessions)
    BY Zenon DEF SessionInv, SocketOK
  <2>2. Allocated(rs.bitmap) = {0} \cup DOMAIN rs.sessions
    BY Zenon, <2>1, BitsAllocated
  <2>3. rs.bitmap.available = Entries - Cardinality(Allocated(rs.bitmap))
    BY Zenon, <2>1, <2>2 DEF Bits
  <2>4. ASSUME rs.connected = 0, ~pieces
        PROVE  \A i, j \in DOMAIN rs.sessions :
                 rs.sessions[i].assoc = rs.sessions[j].assoc => i = j
    BY Zenon, <2>4 DEF SessionInv, ServerInv, ServerSocket, Distinct, ClientInv
  <2> QED
    BY <2>2, <2>3, <2>4 DEF SessionIdentifiers
<1> QED
  BY <1>1, SessionInvariant, PTL

\* The notifications that wait lead a server from the sessions it was told of to the
\* sessions there are (handleCommUp(), handleCommLost()).
THEOREM NotificationsTellAllAlways ==
 SessionSpec => []NotificationsTellAll
<1>1. SessionInv => NotificationsTellAll
  BY Zenon DEF SessionInv, ServerInv, ServerSocket, NotificationsTellAll
<1> QED
  BY <1>1, SessionInvariant, PTL

\* A session is marked as failed only without its association, or after a partial
\* message, and the pool user is told of it (rsp_sendmsg(), rsp_recvmsg()).
THEOREM FailureMarkedAlways ==
 SessionSpec => []FailureMarked
<1>1. SessionInv => FailureMarked
  BY DEF SessionInv, ClientInv, FailureMarked, NecessaryIn
<1> QED
  BY <1>1, SessionInvariant, PTL
-----------------------------------------------------------------------------
(* The cookie *)

\* A failover that succeeds has sent the cookie, when there is one; otherwise no
\* notification waits for the client.  Only a client has a cookie.
CookieSent ==
  /\ DOMAIN sent = {"first", "expected", "success"}
  /\ sent.success /\ sent.expected # 0 => sent.first = "echo"
  /\ role = "server" => sent.expected = 0
  /\ role # "server" => sent.success \/ rs.preRead = << >>

\* What rsp_connect() and rsp_forcefailover() leave in the queue.
LEMMA FailoverQuiet ==
  ASSUME SessionInv, RspConnect \/ \E u \in BOOLEAN : ForceFailover(u)
  PROVE  sent'.success \/ rs'.preRead = << >>
<1>1. role = "client" /\ SocketOK(rs) /\ rs.mask \subseteq NotificationMask
  BY Zenon DEF RspConnect, ForceFailover, SessionInv, SocketOK, QueuesOK
<1>2. CASE RspConnect
  <2> DEFINE s == [AddSession(rs, 0, FALSE) EXCEPT !.connected = AllocateID(rs.bitmap), !.mask = {}]
  <2>1. DOMAIN rs.sessions = {} /\ DoFailover(s, FALSE, rs.mask \ {"change"}, FALSE)
    BY Zenon, <1>2 DEF RspConnect
  <2>2. SocketOK(s) /\ s.connected = 1
    <3>1. PICK f \in BOOLEAN : f = FALSE
      BY Zenon
    <3> DEFINE t == FirstSession(rs, f)
    <3>2. SocketOK(t) /\ t.connected = 1
      BY <1>1, <2>1, FirstSessionIs
    <3>3. t = s
      BY <3>1, Zenon DEF FirstSession
    <3> QED
      BY <3>2, <3>3, Zenon
  <2> HIDE DEF s
  <2>3. PICK x, y : DoFailover(s, x, rs.mask \ {"change"}, y)
    BY Zenon, <2>1
  <2>4. s.connected # 0
    BY <2>2
  <2>5. rs.mask \ {"change"} \subseteq NotificationMask
    BY Zenon, <1>1
  <2> QED
    BY Zenon, <2>2, <2>3, <2>4, <2>5, DoFailoverMoves
<1>3. CASE \E u \in BOOLEAN : ForceFailover(u)
  <2>1. PICK u \in BOOLEAN : ForceFailover(u)
    BY <1>3
  <2>2. rs.connected # 0 /\ DoFailover(rs, u, rs.mask, ~told)
    BY Zenon, <2>1 DEF ForceFailover
  <2> QED
    BY Zenon, <1>1, <2>2, DoFailoverMoves
<1> QED
  BY Zenon, <1>2, <1>3

\* Reading queues nothing that a client gets before it reads.
LEMMA ReadQuiet ==
  ASSUME SessionInv, role # "server", rs.preRead = << >>, RspRecvmsg \/ RspPoll
  PROVE  rs'.preRead = << >>
<1>1. SessionType /\ SocketOK(rs) /\ ClientInv
  BY Zenon DEF SessionInv
<1>2. ASSUME TakeMessage PROVE NextMessage.kind \in Kinds
  BY Zenon, <1>1, <1>2, NextMessageIs
<1>3. CASE RspPoll
  <2>1. PICK r \in ReadSocket(rs, NextMessage) : rs' = r.rs
    BY Zenon, <1>3 DEF RspPoll
  <2>2. /\ TakeMessage
        /\ NextMessage.kind \in {"up", "lost", "shutdown", "cookie", "echo"}
    BY Zenon, <1>3 DEF RspPoll
  <2>3. rs.connected # 0
    BY Zenon, <1>1, <2>2 DEF ClientInv, NextMessage, ReadsNothing
  <2>4. Steady(rs, r.rs)
    BY Zenon, <1>1, <1>2, <2>2, <2>3, ReadSocketConnected DEF ReadConnected
  <2> QED
    BY Zenon, <2>1, <2>4, SteadySame
<1>4. CASE RspRecvmsg
  <2> DEFINE pre == GetCookieEchoOrNotification(rs, TRUE)
             s == IF inRecv THEN rs ELSE pre.socket
  <2>1. Takes(rs, "preRead", pre.socket, pre.given)
    BY <1>1, GetTakes, ZenonT(40)
  <2>2. rs.connected # 0
    BY Zenon, <1>1, <1>4 DEF RspRecvmsg, ClientInv, SessionType, Role
  <2>3. \/ Gives(Got(pre.socket, 1, pre.given))
        \/ /\ \E r \in ReadSocket(s, NextMessage) : Gives(AfterRead(r))
           /\ TakeMessage
    BY Zenon, <1>4 DEF RspRecvmsg
  <2> HIDE DEF pre
  <2>4. /\ pre.socket.preRead = << >> /\ SocketOK(pre.socket)
        /\ pre.socket.connected = rs.connected
    <3>1. DOMAIN rs.preRead = {} /\ SubSeq(rs.preRead, Len(rs.preRead) + 1, Len(rs.preRead)) = << >>
      OBVIOUS
    <3>2. pre.socket.preRead = << >>
      BY Zenon, <2>1, <3>1 DEF Takes
    <3> QED
      BY Zenon, <2>1, <3>2 DEF Takes, Same, Field
  <2>5. s.preRead = << >> /\ SocketOK(s) /\ s.connected # 0
    BY Zenon, <1>1, <2>2, <2>4
  <2> HIDE DEF s
  <2>6. CASE Gives(Got(pre.socket, 1, pre.given))
    BY <2>4, <2>6 DEF Gives, Got
  <2>7. ASSUME NEW r \in ReadSocket(s, NextMessage), Gives(AfterRead(r)), TakeMessage
        PROVE  rs'.preRead = << >>
    <3>1. NextMessage.kind \in Kinds
      BY <1>2, <2>7
    <3>2. Steady(s, r.rs)
      BY Zenon, <2>5, <3>1, ReadSocketConnected DEF ReadConnected
    <3>3. r.received \in {-1, 0, 1} /\ r.given.type \in {"nothing", "data"}
      <4>1. ReadIs(s, NextMessage, r)
        BY Zenon, <3>1, ReadCases
      <4>2. s.sock \in BOOLEAN
        BY Zenon, <2>5 DEF SocketOK, QueuesOK
      <4> QED
        BY Zenon, <3>1, <4>1, <4>2 DEF ReadIs, Kinds
    <3>4. Steady(r.rs, AfterRead(r).rs)
      BY Zenon, <3>2, <3>3, AfterReadIs, SteadySame
    <3>5. rs' = AfterRead(r).rs
      BY Zenon, <2>7 DEF Gives
    <3>6. r.rs.preRead = s.preRead
      BY Zenon, <3>2, SteadySame
    <3>7. AfterRead(r).rs.preRead = r.rs.preRead
      BY Zenon, <3>4, SteadySame
    <3> QED
      BY Zenon, <2>5, <3>5, <3>6, <3>7
  <2> QED
    BY Zenon, <2>3, <2>6, <2>7
<1> QED
  BY Zenon, <1>3, <1>4

\* After a failover, data is sent before the cookie only when rsp_forcefailover() has
\* failed, and then no notification says that it is complete (rsp_forcefailover_tags(),
\* sendCookieEcho()).
THEOREM CookieFirstAlways ==
 SessionSpec => []CookieFirst

\* What a failover may have sent, whatever it comes to.
<1>FailoverSends.
  ASSUME NEW s, NEW reported, NEW p, NEW o \in FailoverTo(s, reported, p)
  PROVE  /\ DOMAIN o.sent = {"first", "expected", "success"}
         /\ o.sent.success /\ o.sent.expected # 0 => o.sent.first = "echo"
  <2> USE <1>FailoverSends
  <2> DEFINE cookie == s.sessions[s.connected].cookie
  <2>1. \E r, q, c, u, m, f, success :
          /\ o = [rs |-> r, pool |-> q, conn |-> c, up |-> u, incoming |-> m,
                  sent |-> [first |-> f, expected |-> cookie, success |-> success]]
          /\ success = FALSE \/ f = FirstMessage(cookie)
    BY ZenonT(40) DEF FailoverTo
  <2> HIDE DEF cookie
  <2> QED
    BY <2>1 DEF FirstMessage

\* The whole of rsp_forcefailover(): if it succeeds, the cookie has gone first.
<1>DoFailoverSends.
  ASSUME NEW s, NEW unreachable, NEW mask, NEW unexpected,
         DoFailover(s, unreachable, mask, unexpected)
  PROVE  /\ DOMAIN sent' = {"first", "expected", "success"}
         /\ sent'.success /\ sent'.expected # 0 => sent'.first = "echo"
  <2> USE <1>DoFailoverSends
  <2>1. \E reported, p : \E o \in FailoverTo(s, reported, p) : sent' = o.sent
    BY DEF DoFailover
  <2> QED
    BY <2>1, <1>FailoverSends
<1>1. SessionInit => CookieSent
  <2> SUFFICES ASSUME SessionInit PROVE CookieSent
    OBVIOUS
  <2>1. /\ DOMAIN sent = {"first", "expected", "success"}
        /\ sent.success = FALSE /\ sent.expected = 0
    BY DEF SessionInit, Unsent
  <2>2. rs.preRead = << >>
    <3>1. CASE rs = NewSocket("stream") \/ rs = NewSocket("seqpacket")
      BY <3>1 DEF NewSocket
    <3>2. CASE rs = AcceptedSocket
      BY <3>2 DEF AcceptedSocket, AddSession, NewSocket
    <3> QED
      BY Zenon, <3>1, <3>2 DEF SessionInit
  <2> QED
    BY <2>1, <2>2 DEF CookieSent
<1>2. SessionInv /\ CookieSent /\ [SessionNext]_sessionVars => CookieSent'
  <2> SUFFICES ASSUME SessionInv, CookieSent, [SessionNext]_sessionVars PROVE CookieSent'
    OBVIOUS
  <2>1. CASE RspConnect \/ \E u \in BOOLEAN : ForceFailover(u)
    <3>1. role = "client" /\ role' = role
      BY <2>1, Zenon DEF RspConnect, ForceFailover
    <3>2. /\ DOMAIN sent' = {"first", "expected", "success"}
          /\ sent'.success /\ sent'.expected # 0 => sent'.first = "echo"
      BY <2>1, <1>DoFailoverSends, Zenon DEF RspConnect, ForceFailover
    <3>3. sent'.success \/ rs'.preRead = << >>
      BY Zenon, <2>1, FailoverQuiet
    <3> QED
      BY <3>1, <3>2, <3>3 DEF CookieSent
  <2>2. CASE \E id \in 1..(Entries - 1) : RspSendmsg(id)
    <3>1. PICK id \in 1..(Entries - 1) : RspSendmsg(id)
      BY <2>2
    <3>2. role' = role /\ SocketOK(rs) /\ id \in DOMAIN rs.sessions
      BY Zenon, <3>1 DEF RspSendmsg, SessionInv
    <3>3. rs'.preRead = rs.preRead
      <4>1. rs' = rs \/ rs' = MarkFailed(rs, id)
        BY Zenon, <3>1 DEF RspSendmsg, MarkFailed
      <4>2. Steady(rs, MarkFailed(rs, id))
        BY Zenon, <3>2, MarkFailedIs
      <4> QED
        BY Zenon, <4>1, <4>2, SteadySame
    <3>4. /\ DOMAIN sent' = {"first", "expected", "success"}
          /\ sent'.success = sent.success /\ sent'.expected = sent.expected
          /\ sent.first = "echo" => sent'.first = "echo"
      <4>1. sent' = sent \/ (sent.first = "nothing" /\ sent' = [sent EXCEPT !.first = "data"])
        BY Zenon, <3>1 DEF RspSendmsg
      <4>2. DOMAIN sent = {"first", "expected", "success"}
        BY DEF CookieSent
      <4> QED
        BY <4>1, <4>2
    <3> QED
      BY Zenon, <3>2, <3>3, <3>4 DEF CookieSent
  <2>3. CASE RspClose
    <3>1. rs' = NewSocket(rs.type) /\ sent' = Unsent
      BY Zenon, <2>3 DEF RspClose
    <3> QED
      BY <3>1 DEF CookieSent, Unsent, NewSocket
  <2>4. CASE RspRecvmsg \/ RspPoll
    <3>1. UNCHANGED <<sent, role>>
      BY Zenon, <2>4 DEF RspRecvmsg, RspPoll
    <3>2. role # "server" /\ rs.preRead = << >> => rs'.preRead = << >>
      BY Zenon, <2>4, ReadQuiet
    <3> QED
      BY Zenon, <3>1, <3>2 DEF CookieSent
  <2>5. CASE UNCHANGED <<sent, role, rs>>
    BY Zenon, <2>5 DEF CookieSent
  <2>6. ASSUME PeerSends \/ AssociationFails \/ AssociationBegins \/ ShutdownBegins
                 \/ PEFails \/ PERegisters
        PROVE  UNCHANGED <<sent, role, rs>>
    <3>1. PeerSends \/ AssociationFails => UNCHANGED <<sent, role, rs>>
      BY Zenon DEF PeerSends, AssociationFails, Arrives
    <3>2. AssociationBegins \/ ShutdownBegins => UNCHANGED <<sent, role, rs>>
      BY Zenon DEF AssociationBegins, ShutdownBegins, Arrives
    <3>3. PEFails \/ PERegisters => UNCHANGED <<sent, role, rs>>
      BY Zenon DEF PEFails, PERegisters, Arrives
    <3> QED
      BY Zenon, <2>6, <3>1, <3>2, <3>3
  <2>7. CASE UNCHANGED sessionVars
    BY Zenon, <2>5, <2>7 DEF sessionVars
  <2> QED
    BY Zenon, <2>1, <2>2, <2>3, <2>4, <2>5, <2>6, <2>7 DEF SessionNext
<1>3. CookieSent => CookieFirst
  <2> SUFFICES ASSUME CookieSent, sent.first = "data", sent.expected # 0
               PROVE  ~sent.success /\ \A i \in DOMAIN rs.preRead : rs.preRead[i].what # "complete"
    BY Zenon DEF CookieFirst
  <2>1. ~sent.success
    BY DEF CookieSent
  <2>2. rs.preRead = << >>
    BY Zenon, <2>1 DEF CookieSent
  <2> QED
    BY <2>1, <2>2
<1> QED
  BY <1>1, <1>2, <1>3, SessionInvariant, PTL DEF SessionSpec
=============================================================================
