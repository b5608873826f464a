--------------------------- MODULE SessionSocket ---------------------------
(***************************************************************************)
(* An RSerPool socket of the Enhanced Mode and its sessions                *)
(* (rspenhancedmode.c, sessioncontrol.c, sessionstorage.c,                 *)
(* notificationqueue.c, identifierbitmap.c, messagebuffer.c).  The socket  *)
(* is used in one of three ways:                                           *)
(*   client    a pool user; one outgoing session, which survives the       *)
(*             failure of the pool element it is connected to,             *)
(*   server    a one-to-many socket of a pool element; a session for each  *)
(*             association, reported by notifications,                     *)
(*   accepted  a socket obtained from rsp_accept(), with one session.      *)
(* This module holds the functions of the code on struct RSerPoolSocket:   *)
(* each maps the record of the socket to the next one.                     *)
(***************************************************************************)
EXTENDS Integers, Sequences, FiniteSetsExt

CONSTANTS Entries,         \* SESSION_SETSIZE, identifiers 0..Entries-1
          SlotSize         \* IdentifierBitmapSlotsize

ASSUME BitmapAssumption == Entries \in Nat \ {0, 1} /\ SlotSize \in Nat \ {0}

-----------------------------------------------------------------------------
(* identifierbitmap.c: a bit per identifier, SlotSize bits per word.         *)

Slots == ((Entries + (SlotSize - (Entries % SlotSize))) \div SlotSize) + 1

EmptyBitmap == [word |-> [i \in 0..(Slots - 1) |-> {}], available |-> Entries]

\* The first word with a free bit, and the first free bit in it.
AllocateID(b) ==
  LET i == Min({k \in DOMAIN b.word : b.word[k] # 0..(SlotSize - 1)})
      j == Min((0..(SlotSize - 1)) \ b.word[i])
  IN IF b.available = 0 THEN Entries ELSE (i * SlotSize) + j

MarkID(b, id) ==
  [b EXCEPT !.word[id \div SlotSize] = @ \cup {id % SlotSize},
            !.available = @ - 1]

FreeID(b, id) ==
  [b EXCEPT !.word[id \div SlotSize] = @ \ {id % SlotSize},
            !.available = @ + 1]

Allocated(b) == UNION {{(i * SlotSize) + j : j \in b.word[i]} : i \in DOMAIN b.word}

-----------------------------------------------------------------------------
(* notificationqueue.c: two queues, and a mask of the requested types.       *)

Enqueue(s, pre, n) == IF n.type \notin s.mask THEN s
                      ELSE IF pre THEN [s EXCEPT !.preRead = Append(@, n)]
                      ELSE [s EXCEPT !.postRead = Append(@, n)]

ClearNotifications(s) == [s EXCEPT !.preRead = << >>, !.postRead = << >>]

SessionChange(what, id) == [type |-> "change", what |-> what, session |-> id]
Failover(what, id) == [type |-> "failover", what |-> what, session |-> id]
ShutdownEvent(id) == [type |-> "shutdown", what |-> "shutdown", session |-> id]

NotificationMask == {"change", "failover", "shutdown"}
-----------------------------------------------------------------------------
(* sessioncontrol.c, sessionstorage.c                                        *)

Function(f, x, v) == [y \in DOMAIN f \cup {x} |-> IF y = x THEN v ELSE f[y]]

AddSession(s, assoc, isIncoming) ==
  LET id == AllocateID(s.bitmap) IN
  IF id = Entries THEN s
  ELSE [s EXCEPT !.bitmap = MarkID(@, id),
                 !.sessions = Function(@, id, [assoc |-> assoc,
                   incoming |-> isIncoming, failed |-> ~isIncoming,
                   cookie |-> 0, echo |-> 0, pe |-> 0])]

\* Mutation of DeleteSession: the identifier is not freed.
DeleteSessionKeepingID(s, id) ==
  [s EXCEPT !.connected = IF @ = id THEN 0 ELSE @,
            !.sessions = [i \in DOMAIN s.sessions \ {id} |-> s.sessions[i]]]

DeleteSession(s, id) ==
  [s EXCEPT !.connected = IF @ = id THEN 0 ELSE @,
            !.bitmap = FreeID(@, id),
            !.sessions = [i \in DOMAIN s.sessions \ {id} |-> s.sessions[i]]]

WithAssoc(s, assoc) == {id \in DOMAIN s.sessions : s.sessions[id].assoc = assoc}

\* findSession() for the sender of a control channel message.
FindSession(s, assoc) == IF s.connected # 0 THEN {s.connected}
                         ELSE WithAssoc(s, assoc)

\* Mutation of HandleCommUp: there is no notification of the new session.
HandleCommUpSilently(s, assoc) ==
  IF s.connected # 0 THEN s ELSE AddSession(s, assoc, TRUE)

HandleCommUp(s, assoc) ==
  IF s.connected # 0 THEN s
  ELSE LET t == AddSession(s, assoc, TRUE) IN
       IF t = s THEN s
       ELSE Enqueue(t, TRUE, SessionChange("add", AllocateID(s.bitmap)))

\* The connected session stays and loses its association; any other session
\* is removed.
HandleCommLost(s, assoc) ==
  IF s.connected # 0
  THEN IF s.sessions[s.connected].failed THEN s
       ELSE Enqueue([s EXCEPT !.sessions[s.connected].assoc = 0],
                    FALSE, Failover("necessary", s.connected))
  ELSE IF WithAssoc(s, assoc) = {} THEN s
       ELSE LET id == Min(WithAssoc(s, assoc)) IN
            DeleteSession(Enqueue(s, TRUE, SessionChange("remove", id)), id)

HandleShutdown(s, assoc) ==
  IF WithAssoc(s, assoc) = {} THEN s
  ELSE Enqueue(s, FALSE, ShutdownEvent(Min(WithAssoc(s, assoc))))

HandleNotification(s, m) ==
  IF s.type = "stream" THEN s
  ELSE CASE m.kind = "up" -> HandleCommUp(s, m.assoc)
         [] m.kind = "lost" -> HandleCommLost(s, m.assoc)
         [] m.kind = "shutdown" -> HandleShutdown(s, m.assoc)

HandleControlChannelMessage(s, m) ==
  IF FindSession(s, m.assoc) = {} THEN s
  ELSE LET id == Min(FindSession(s, m.assoc)) IN
       CASE m.kind = "cookie" -> [s EXCEPT !.sessions[id].cookie = m.cookie]
         [] m.kind = "echo" /\ s.sessions[id].echo = 0 ->
              [s EXCEPT !.sessions[id].echo = m.cookie]
         [] OTHER -> s

\* What a call gives to the application, when it gives nothing.
Nothing == [type |-> "nothing"]

\* getCookieEchoOrNotification(): notifications whose type is not requested
\* any more are skipped; without one, the first cookie echo is given.
GetCookieEchoOrNotification(s, pre) ==
  LET queue == IF pre THEN s.preRead ELSE s.postRead
      wanted == {i \in DOMAIN queue : queue[i].type \in s.mask}
      echoes == {id \in DOMAIN s.sessions : s.sessions[id].echo # 0}
      Rest(i) == IF pre THEN [s EXCEPT !.preRead = SubSeq(@, i + 1, Len(@))]
                        ELSE [s EXCEPT !.postRead = SubSeq(@, i + 1, Len(@))]
  IN CASE wanted # {} -> [socket |-> Rest(Min(wanted)), given |-> queue[Min(wanted)]]
       [] wanted = {} /\ echoes # {} ->
            LET id == Min(echoes) IN
            [socket |-> [Rest(Len(queue)) EXCEPT !.sessions[id].echo = 0],
             given |-> [type |-> "echo", session |-> id,
                        cookie |-> s.sessions[id].echo]]
       [] OTHER -> [socket |-> Rest(Len(queue)), given |-> Nothing]

\* The connected session has failed.
SessionFailed(s) ==
  IF s.connected = 0 THEN s
  ELSE [Enqueue(s, FALSE, Failover("necessary", s.connected))
          EXCEPT !.sessions[s.connected].failed = TRUE]
=============================================================================
