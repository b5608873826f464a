------------------------------ MODULE Session ------------------------------
(***************************************************************************)
(* The calls of the Enhanced Mode on an RSerPool socket, with the network  *)
(* on the other side: rsp_connect(), rsp_forcefailover(), rsp_sendmsg(),   *)
(* rsp_recvmsg(), rsp_poll(), rsp_close() (rspenhancedmode.c).  The socket *)
(* has one application thread; messages and SCTP notifications that arrive *)
(* wait in incoming until rsp_recvmsg() reads them.  Pool elements fail,   *)
(* and an association may fail without them.                               *)
(***************************************************************************)
EXTENDS SessionSocket

CONSTANTS PE,              \* pool elements of the client's pool
          Assoc,           \* association IDs of the server's socket
          MaxNetwork,      \* bound: messages and events of the network, by role
          MaxCookie,       \* bound: cookies sent by pool elements
          MaxIncoming      \* bound: messages waiting in the socket

Role == {"client", "server", "accepted"}

ASSUME SessionAssumption == /\ 0 \notin PE /\ 0 \notin Assoc
                            /\ MaxNetwork \in [Role -> Nat] /\ MaxCookie \in Nat
                            /\ MaxIncoming \in Nat

VARIABLES rs,         \* struct RSerPoolSocket
          role,       \* "client", "server" or "accepted"
          conn,       \* client: the PE Socket is connected to, 0: none
          up,         \* the association of Socket is up
          incoming,   \* what can be read from Socket, in order
          sent,       \* the first message sent via this association
          inRecv,     \* rsp_recvmsg() goes on with its loop
          given,      \* what the last call has given to the application
          told,       \* the application knows that a failover is necessary
          pieces,     \* a partial message was read since the last failover
          appSessions,\* server: sessions the application was told of
          pool,       \* PEs a handle resolution may return
          alive,      \* PEs that are working
          assocs,     \* server: associations that are up
          network, cookies

peerVars == <<pool, alive, assocs, network, cookies>>
sessionVars == <<rs, role, conn, up, incoming, sent, inRecv, given, told,
                 pieces, appSessions, peerVars>>

Unsent == [first |-> "nothing", expected |-> 0, success |-> FALSE]

\* rsp_socket_internal(); identifier 0 is never used for a session.
NewSocket(type) ==
  [type |-> type, sessions |-> << >>, bitmap |-> MarkID(EmptyBitmap, 0),
   connected |-> 0, sock |-> TRUE, preRead |-> << >>, postRead |-> << >>,
   mask |-> IF type = "stream" THEN {} ELSE NotificationMask,
   partial |-> FALSE, waitingForFirst |-> FALSE]

\* rsp_accept_tags()
AcceptedSocket == LET s == AddSession(NewSocket("stream"), 0, TRUE)
                  IN [s EXCEPT !.connected = 1]

SessionInit ==
  /\ \/ role = "client" /\ rs \in {NewSocket("stream"), NewSocket("seqpacket")}
     \/ role = "server" /\ rs = NewSocket("seqpacket")
     \/ role = "accepted" /\ rs = AcceptedSocket
  /\ conn = 0 /\ up = (role = "accepted")
  /\ incoming = << >> /\ sent = Unsent
  /\ inRecv = FALSE /\ given = Nothing /\ told = FALSE /\ pieces = FALSE
  /\ appSessions = {}
  /\ pool = PE /\ alive = PE /\ assocs = {}
  /\ network = 0 /\ cookies = 0

-----------------------------------------------------------------------------
(* rsp_connect_tags(), rsp_forcefailover_tags()                              *)

\* Mutation of BeginFailover: the session stays marked as failed.
BeginFailoverStillFailed(s, reported) ==
  [ClearNotifications(s) EXCEPT
     !.sessions[s.connected].assoc = 0, !.sock = FALSE,
     !.sessions[s.connected].pe = IF reported = {} THEN @ ELSE 0]

\* Begin of a failover of the connected session of s: what is queued is out
\* of date, an unreachable PE is reported, the association is aborted.  The
\* message buffer keeps its contents.
BeginFailover(s, reported) ==
  LET c == s.connected IN
  [ClearNotifications(s) EXCEPT
     !.sessions[c].failed = FALSE, !.sessions[c].assoc = 0, !.sock = FALSE,
     !.sessions[c].pe = IF reported = {} THEN @ ELSE 0]

\* rsp_send_failure_report() removes the PE from the cache.
ReportedPE(s, unreachable) ==
  LET p == s.sessions[s.connected].pe IN
  IF unreachable /\ p # 0 THEN {p} ELSE {}

\* Mutation of WithoutPE: the failed connect is not reported.
StillWithPE(known, p) == known

\* A PE that cannot be reached is reported, too.
WithoutPE(known, p) == known \ {p}

\* Mutation of FirstMessage: the cookie is not sent.
FirstMessageMissing(cookie) == "nothing"

\* The cookie, if there is one, is sent before anything else.
FirstMessage(cookie) == IF cookie # 0 THEN "echo" ELSE "nothing"

\* What a failover of s may come to, with the PE p that the handle resolution
\* selects (0: none was found).  If the cookie cannot be sent, the PE is
\* reported, but the socket stays: sendCookieEcho() does not wait, so it fails
\* with the association, or on one that is up.  Only success is announced, and
\* returned to the application.
FailoverTo(s, reported, p) ==
  LET t == BeginFailover(s, reported)
      i == s.connected
      cookie == s.sessions[i].cookie
      connected == [t EXCEPT !.sock = TRUE, !.waitingForFirst = TRUE,
                             !.sessions[i].pe = p]
      known == pool \ reported
      commUp == [kind |-> "up", assoc |-> 0]
      lost == [kind |-> "lost", assoc |-> 0]
      Outcome(r, q, c, u, m, f, success) ==
        [rs |-> r, pool |-> q, conn |-> c, up |-> u, incoming |-> m,
         sent |-> [first |-> f, expected |-> cookie, success |-> success]]
      Unechoed(u, m) == Outcome([connected EXCEPT !.sessions[i].pe = 0],
                                WithoutPE(known, p), p, u, m, "nothing", FALSE)
  IN CASE p = 0 -> {Outcome(t, known, 0, FALSE, << >>, "nothing", FALSE)}
       [] p # 0 /\ p \notin alive ->
            {Outcome([t EXCEPT !.sessions[i].pe = 0], WithoutPE(known, p), 0,
                     FALSE, << >>, "nothing", FALSE)}
       [] OTHER ->
            {Outcome(Enqueue(connected, TRUE, Failover("complete", i)), known,
                     p, TRUE, <<commUp>>, FirstMessage(cookie), TRUE)}
            \cup {o \in {Unechoed(FALSE, <<commUp, lost>>), Unechoed(TRUE, <<commUp>>)} :
                    cookie # 0}

DoFailover(s, unreachable, mask, unexpected) ==
  LET reported == ReportedPE(s, unreachable) IN
  \E p \in (pool \ reported) \cup {0} : \E o \in FailoverTo(s, reported, p) :
    /\ network' = IF \/ unexpected
                     \/ p = 0 /\ pool \ reported # {}
                     \/ o.conn # 0 /\ ~o.sent.success
                  THEN network + 1 ELSE network
    /\ network' <= MaxNetwork[role]
    /\ rs' = [o.rs EXCEPT !.mask = mask]
    /\ pool' = o.pool /\ conn' = o.conn /\ up' = o.up
    /\ incoming' = o.incoming /\ sent' = o.sent

\* The notifications are off during the first connection establishment, and
\* session changes are never reported for a connected session.
RspConnect ==
  LET s == AddSession(rs, 0, FALSE) IN
  /\ role = "client" /\ ~inRecv
  /\ DOMAIN rs.sessions = {}
  /\ DoFailover([s EXCEPT !.connected = AllocateID(rs.bitmap), !.mask = {}],
                FALSE, rs.mask \ {"change"}, FALSE)
  /\ UNCHANGED <<role, inRecv, given, told, pieces, appSessions, alive, assocs,
                 cookies>>

\* The application calls it when it was told to, or whenever it likes to.
ForceFailover(unreachable) ==
  /\ role = "client" /\ rs.connected # 0 /\ ~inRecv
  /\ DoFailover(rs, unreachable, rs.mask, ~told)
  /\ told' = FALSE /\ pieces' = FALSE /\ given' = Nothing
  /\ UNCHANGED <<role, inRecv, appSessions, alive, assocs, cookies>>

-----------------------------------------------------------------------------
(* rsp_sendmsg(), rsp_send_cookie()                                          *)

Reachable(id) == IF role = "server" THEN rs.sessions[id].assoc \in assocs
                                    ELSE rs.sock /\ up

RspSendmsg(id) ==
  /\ ~inRecv /\ id \in DOMAIN rs.sessions
  /\ ~rs.sessions[id].failed
  /\ IF Reachable(id)
     THEN /\ sent' = IF sent.first = "nothing" THEN [sent EXCEPT !.first = "data"]
                     ELSE sent
          /\ rs' = rs
     ELSE /\ rs' = [Enqueue(rs, FALSE, Failover("necessary", id))
                      EXCEPT !.sessions[id].failed = TRUE]
          /\ sent' = sent
  /\ UNCHANGED <<role, conn, up, incoming, inRecv, given, told, pieces,
                 appSessions, peerVars>>

-----------------------------------------------------------------------------
(* rsp_recvmsg(), messageBufferRead()                                        *)

Got(r, n, g) == [rs |-> r, received |-> n, given |-> g]
ReadsNothing == [kind |-> "nothing"]

\* One read from the socket of s.  A piece of a message makes the buffer
\* partial; errno is not set by that, and may hold an old value that looks
\* like a failure.  A message or notification that completes a partial one
\* begins with the old bytes and is not recognised.
ReadSocket(s, m) ==
  LET complete == [s EXCEPT !.partial = FALSE]
      first == [complete EXCEPT !.waitingForFirst = FALSE]
      id == IF s.connected # 0 THEN s.connected
            ELSE IF WithAssoc(s, m.assoc) = {} THEN 0 ELSE Min(WithAssoc(s, m.assoc))
  IN CASE ~s.sock -> {Got(IF s.connected # 0 /\ ~s.sessions[s.connected].failed
                          THEN SessionFailed(s) ELSE s, 0, Nothing)}
       [] s.sock /\ m.kind = "nothing" ->
            {IF up \/ role = "server" THEN Got(s, -1, Nothing)
             ELSE Got(SessionFailed(s), 0, Nothing)}
       [] s.sock /\ m.kind = "piece" ->
            {Got([t EXCEPT !.partial = TRUE], -1, Nothing) : t \in {s, SessionFailed(s)}}
       [] s.sock /\ m.kind \in {"up", "lost", "shutdown"} ->
            {IF s.partial THEN Got(complete, -1, Nothing)
             ELSE Got(HandleNotification(complete, m),
                      IF m.kind = "lost" THEN 0 ELSE -1, Nothing)}
       [] s.sock /\ m.kind \in {"cookie", "echo"} ->
            {Got(IF s.partial THEN first ELSE HandleControlChannelMessage(first, m),
                 -1, Nothing)}
       [] OTHER -> {Got(first, 1, [type |-> "data", session |-> id])}

\* The post-read notifications, and then what is there of a partial message.
AfterRead(g) ==
  LET n == GetCookieEchoOrNotification(g.rs, FALSE) IN
  CASE g.received > 0 -> g
    [] g.received <= 0 /\ n.given # Nothing -> Got(n.socket, 1, n.given)
    [] g.received < 0 /\ n.given = Nothing /\ n.socket.partial ->
         Got([n.socket EXCEPT !.partial = FALSE], 1, [type |-> "partial"])
    [] g.received < 0 /\ n.given = Nothing /\ ~n.socket.partial ->
         Got(n.socket, -1, Nothing)
    [] OTHER -> Got(n.socket, 0, [type |-> "closed"])

\* What the application learns from g.
Gives(g) ==
  /\ rs' = g.rs /\ given' = g.given
  /\ told' = (told \/ g.given.type = "closed"
                   \/ (g.given.type = "failover" /\ g.given.what = "necessary"))
  /\ appSessions' = CASE g.given.type # "change" -> appSessions
                      [] g.given.type = "change" /\ g.given.what = "add" ->
                           appSessions \cup {g.given.session}
                      [] OTHER -> appSessions \ {g.given.session}

NextMessage == IF incoming = << >> THEN ReadsNothing ELSE Head(incoming)
TakeMessage == /\ incoming' = IF rs.sock /\ incoming # << >> THEN Tail(incoming)
                              ELSE incoming
               /\ pieces' = (pieces \/ (rs.sock /\ NextMessage.kind = "piece"))

\* Without a result, the loop goes on until its time is over; it does not
\* look at the pre-read notifications again.
RspRecvmsg ==
  LET pre == GetCookieEchoOrNotification(rs, TRUE) IN
  /\ role = "client" => rs.connected # 0
  /\ IF ~inRecv /\ pre.given # Nothing
     THEN /\ Gives(Got(pre.socket, 1, pre.given))
          /\ UNCHANGED <<inRecv, incoming, pieces>>
     ELSE /\ \E r \in ReadSocket(IF inRecv THEN rs ELSE pre.socket, NextMessage) :
               LET g == AfterRead(r) IN
               /\ Gives(g)
               /\ inRecv' \in IF g.received < 0 THEN BOOLEAN ELSE {FALSE}
          /\ TakeMessage
  /\ UNCHANGED <<role, conn, up, sent, peerVars>>

\* rsp_poll(), rsp_select(): handleControlChannelAndNotifications() reads what
\* is for the library only.
RspPoll ==
  /\ ~inRecv /\ rs.sock
  /\ NextMessage.kind \in {"up", "lost", "shutdown", "cookie", "echo"}
  /\ \E r \in ReadSocket(rs, NextMessage) : rs' = r.rs
  /\ given' = Nothing
  /\ TakeMessage
  /\ UNCHANGED <<role, conn, up, sent, inRecv, told, appSessions, peerVars>>

\* rsp_close() deletes the sessions one by one, and then the socket.
RspClose ==
  /\ ~inRecv /\ role = "client"
  /\ rs' = NewSocket(rs.type)
  /\ conn' = 0 /\ up' = FALSE /\ incoming' = << >> /\ sent' = Unsent
  /\ told' = FALSE /\ pieces' = FALSE /\ given' = Nothing
  /\ UNCHANGED <<role, inRecv, appSessions, pool, alive, assocs, cookies>>
  /\ network < MaxNetwork[role] /\ network' = network + 1

-----------------------------------------------------------------------------
(* The peers and the network.                                                *)

Arrives(m) ==
  /\ Len(incoming) < MaxIncoming /\ network < MaxNetwork[role]
  /\ incoming' = Append(incoming, m)
  /\ network' = network + 1
  /\ UNCHANGED <<rs, role, conn, sent, inRecv, given, told, pieces, appSessions>>

PeerOf == IF role = "server" THEN assocs ELSE IF up THEN {0} ELSE {}

\* A message of a peer: data, a piece of it, the cookie of a PE, or, at a PE,
\* the echo of the cookie a PU has obtained from another PE.
PeerSends ==
  \E a \in PeerOf :
    /\ \/ Arrives([kind |-> "data", assoc |-> a]) /\ UNCHANGED cookies
       \/ Arrives([kind |-> "piece", assoc |-> a]) /\ UNCHANGED cookies
       \/ /\ cookies < MaxCookie /\ cookies' = cookies + 1
          /\ Arrives([kind |-> IF role = "client" THEN "cookie" ELSE "echo",
                      assoc |-> a, cookie |-> cookies + 1])
    /\ UNCHANGED <<up, pool, alive, assocs>>

AssociationFails ==
  \/ /\ role # "server" /\ up /\ up' = FALSE
     /\ Arrives([kind |-> "lost", assoc |-> 0])
     /\ UNCHANGED <<pool, alive, assocs, cookies>>
  \/ \E a \in assocs : /\ assocs' = assocs \ {a}
                       /\ Arrives([kind |-> "lost", assoc |-> a])
                       /\ UNCHANGED <<up, pool, alive, cookies>>

PEFails ==
  \E p \in alive :
    /\ alive' = alive \ {p}
    /\ IF p = conn /\ up THEN Arrives([kind |-> "lost", assoc |-> 0])
       ELSE /\ network < MaxNetwork[role] /\ network' = network + 1
            /\ UNCHANGED <<rs, role, conn, incoming, sent, inRecv, given, told,
                           pieces, appSessions>>
    /\ up' = (up /\ p # conn)
    /\ UNCHANGED <<pool, assocs, cookies>>

\* A PE is in the pool again: it was started anew, or is known to work.
PERegisters ==
  /\ \E p \in PE : /\ p \notin alive \/ p \notin pool
                   /\ alive' = alive \cup {p} /\ pool' = pool \cup {p}
  /\ role = "client"
  /\ UNCHANGED <<rs, role, conn, up, incoming, sent, inRecv, given, told, pieces,
                 appSessions, assocs, network, cookies>>

AssociationBegins ==
  /\ role = "server"
  /\ \E a \in Assoc \ assocs : /\ assocs' = assocs \cup {a}
                               /\ Arrives([kind |-> "up", assoc |-> a])
  /\ UNCHANGED <<up, pool, alive, cookies>>

ShutdownBegins ==
  /\ role = "server"
  /\ \E a \in assocs : Arrives([kind |-> "shutdown", assoc |-> a])
  /\ UNCHANGED <<up, pool, alive, assocs, cookies>>

SessionNext ==
  \/ RspConnect
  \/ \E u \in BOOLEAN : ForceFailover(u)
  \/ \E id \in 1..(Entries - 1) : RspSendmsg(id)
  \/ RspRecvmsg \/ RspPoll \/ RspClose
  \/ PeerSends \/ AssociationFails \/ PEFails \/ PERegisters
  \/ AssociationBegins \/ ShutdownBegins

\* The application goes on receiving, and makes a failover when it is told to;
\* while the pool has no PE, one is started.
SessionFairness ==
  /\ WF_sessionVars(RspConnect)
  /\ WF_sessionVars(RspRecvmsg)
  /\ SF_sessionVars(told /\ ForceFailover(TRUE))
  /\ WF_sessionVars(pool \cap alive = {} /\ PERegisters)

SessionSpec == SessionInit /\ [][SessionNext]_sessionVars /\ SessionFairness

-----------------------------------------------------------------------------
\* Over any sequence of sessions that begin and end (handleCommUp() and
\* handleCommLost() with addSession() and deleteSession()), the identifiers
\* marked in the bitmap are exactly those of the sessions, and its count of
\* available ones is right, so that identifierBitmapAllocateID() finds a free
\* one when there is one and never gives one away twice; no two sessions have
\* the same association (sessionStorageAddSession() CHECKs that), unless a
\* partial message was read: with its bytes left in the buffer, the end of an
\* association is not recognised, and its session stays when the association's
\* identifier is used again.
SessionIdentifiers ==
  /\ Allocated(rs.bitmap) = {0} \cup DOMAIN rs.sessions
  /\ rs.bitmap.available = Entries - Cardinality(Allocated(rs.bitmap))
  /\ rs.connected = 0 /\ ~pieces =>
       \A i, j \in DOMAIN rs.sessions :
         rs.sessions[i].assoc = rs.sessions[j].assoc => i = j

\* The sessions an application knows of after the notifications in queue: of those
\* about the same session, the last one counts.
Announced(known, queue) ==
  {id \in known : \A i \in DOMAIN queue : queue[i].session # id}
  \cup {id \in {queue[i].session : i \in DOMAIN queue} :
          \E i \in DOMAIN queue :
            /\ queue[i] = SessionChange("add", id)
            /\ \A j \in DOMAIN queue : j > i => queue[j].session # id}

\* A server that reads all its notifications knows exactly the sessions there
\* are: the queued RSERPOOL_SESSION_CHANGE notifications lead from the sessions
\* it was told of to the sessions of the socket, whatever the order in which
\* associations of reused identifiers begin and end.
NotificationsTellAll ==
  role = "server" => Announced(appSessions, rs.preRead) = DOMAIN rs.sessions

\* After a failover, the new PE has the state of the session before anything
\* else (client-based state sharing; sendCookieEcho() in
\* rsp_forcefailover_tags()).  When the cookie cannot be sent, the socket stays
\* open and the session is not marked as failed, so that data may go first; but
\* then rsp_forcefailover() has returned -1, and no RSERPOOL_FAILOVER_COMPLETE
\* waits for the application, not that of an earlier failover either.
CookieFirst ==
  sent.first = "data" /\ sent.expected # 0 =>
    /\ ~sent.success
    /\ \A i \in DOMAIN rs.preRead : rs.preRead[i].what # "complete"

\* A session marked as failed has lost its association, unless a partial
\* message was read (rsp_recvmsg() takes that for a failure when errno holds an
\* old value): rsp_forcefailover() leaves no mark behind, and no notification of
\* the previous association marks the new one.  And the mark does not stay
\* silent: a pool user with notifications has been told that a failover is
\* necessary, or will be with the next rsp_recvmsg() (rsp_sendmsg(),
\* rsp_recvmsg(), handleCommLost()).
FailureMarked ==
  role # "server" /\ rs.connected # 0 /\ rs.sessions[rs.connected].failed =>
    /\ ~up \/ pieces
    /\ role = "client" /\ rs.type = "seqpacket" =>
         told \/ \E i \in DOMAIN rs.postRead : rs.postRead[i].what = "necessary"

\* A PU whose association is lost is connected again, to a PE of the pool, when
\* it reads on and calls rsp_forcefailover() once it has been told, and as long as
\* PEs register: a failed PE is reported and not selected for ever.
SessionResumes == []<>(role = "client" /\ rs.connected # 0 => up)
=============================================================================
