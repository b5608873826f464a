----------------------------- MODULE PoolServer -----------------------------
(***************************************************************************)
(* The connection-oriented server of a pool element (tcplikeserver.cc):    *)
(* the main thread accepts sessions, gives each one a thread (thread.cc),  *)
(* removes the finished ones and registers again when the load changes;    *)
(* the session threads report their load to the list of the threads and    *)
(* write to the notification pipe of the main thread.                      *)
(*                                                                         *)
(* The handlers of the service (calcappservice.cc, scriptingservice.cc,    *)
(* fractalgeneratorservice.cc) are any choice of a result and of a load.   *)
(* The pipe is whether it holds something.  The list is locked exactly     *)
(* while handleRemovalsAndTimers() goes through it: every other section    *)
(* under its lock is one step.                                             *)
(***************************************************************************)
EXTENDS Integers, Sequences, FiniteSetsExt, Lists

CONSTANTS Session,          \* the objects of the session threads: MaxThreads of them
          SessionLoads,     \* loads that a session may set
          FullLoad,         \* PPV_MAX_LOAD
          MaxLoadChanges    \* bound of the calls of setLoad() by sessions

ASSUME PoolServerAssumption ==
  /\ IsFiniteSet(Session) /\ FullLoad \in Nat \ {0} /\ SessionLoads \subseteq Nat
  /\ MaxLoadChanges \in Nat

VARIABLES session,       \* the thread objects
          threadList, threads, loadSum,   \* TCPLikeServerList
          notified,      \* the notification pipe is not empty
          server,        \* where the main thread is
          polled,        \* the events of its last rsp_poll()
          todo,          \* entries handleRemovalsAndTimers() has not seen
          announced,     \* the load of the last registration
          missed,        \* a notification came between the look at the load and the
                         \* read of the pipe
          breakDetected,
          loadChanges

listVars       == <<threadList, threads, loadSum>>
mainThreadVars == <<server, polled, todo, announced, missed>>
serverVars     == <<session, listVars, notified, mainThreadVars, breakDetected, loadChanges>>

\* at: where run() is; load and shutdown: Load and Shutdown; want, after: the
\* load of the setLoad() it is in, and where it goes on.
NoSession == [at |-> "none", load |-> 0, shutdown |-> FALSE, want |-> 0, after |-> "none"]

ServerInit ==
  /\ session = [s \in Session |-> NoSession]
  /\ threadList = <<>> /\ threads = 0 /\ loadSum = 0
  /\ notified = FALSE
  /\ server = "poll" /\ polled = {} /\ todo = <<>>
  /\ announced = 0 /\ missed = FALSE
  /\ breakDetected = FALSE
  /\ loadChanges = 0

\* Mutation of ListLocked: the list is locked until the thread has ended.
ListLockedWhileJoining == server \in {"removals", "join"}

ListLocked == server = "removals"

-----------------------------------------------------------------------------
(* Session threads.  A handler may set the load before it returns.         *)

Goes(s, place) ==
  session' = [session EXCEPT ![s].at = place, ![s].want = 0, ![s].after = "none"]

Handler(s, after) ==
  \/ Goes(s, after) /\ UNCHANGED loadChanges
  \/ /\ loadChanges < MaxLoadChanges
     /\ \E load \in SessionLoads :
          session' = [session EXCEPT ![s].at = "setLoad", ![s].want = load, ![s].after = after]
     /\ loadChanges' = loadChanges + 1

\* initializeSession: the loop is not entered when it fails.
InitializeSession(s) ==
  /\ session[s].at = "initialize"
  /\ \E after \in {"loop", "finish"} : Handler(s, after)
  /\ UNCHANGED <<listVars, notified, mainThreadVars, breakDetected>>

\* A turn of the loop of run(): a message, notification or timer and its
\* handler, which may end the loop.  The end of the association and a cookie
\* echo that is not the first message end it too, and no handler sees them.  A
\* timeout changes nothing.
ReceiveEvent(s) ==
  /\ session[s].at = "loop"
  /\ ~session[s].shutdown
  /\ \E after \in {"loop", "finish"} : Handler(s, after)
  /\ UNCHANGED <<listVars, notified, mainThreadVars, breakDetected>>

\* isShuttingDown()
LeaveLoop(s) ==
  /\ session[s].at = "loop"
  /\ session[s].shutdown
  /\ Goes(s, "finish")
  /\ UNCHANGED <<listVars, notified, mainThreadVars, breakDetected, loadChanges>>

\* finishSession, then Finished = true and the end of the thread.
FinishSession(s) ==
  /\ session[s].at = "finish"
  /\ Handler(s, "finished")
  /\ UNCHANGED <<listVars, notified, mainThreadVars, breakDetected>>

\* setLoad: under the lock of the list.  A load that would take the sum beyond
\* the limit is not set.
SetLoad(s) ==
  LET sum     == loadSum - session[s].load + session[s].want
      changed == sum <= FullLoad /\ sum # loadSum
  IN  /\ session[s].at = "setLoad"
      /\ ~ListLocked
      /\ loadSum' = IF sum <= FullLoad THEN sum ELSE loadSum
      /\ session' = [session EXCEPT
           ![s].load  = IF sum <= FullLoad THEN session[s].want ELSE @,
           ![s].want  = 0,
           ![s].at    = IF changed THEN "write" ELSE session[s].after,
           ![s].after = IF changed THEN @ ELSE "none"]
      /\ UNCHANGED <<threadList, threads, notified, mainThreadVars, breakDetected, loadChanges>>

\* Mutation of WriteNotification: nothing is written.
WriteNothing(s) ==
  /\ session[s].at = "write"
  /\ Goes(s, session[s].after)
  /\ UNCHANGED <<listVars, notified, mainThreadVars, breakDetected, loadChanges>>

\* The rest of setLoad, without the lock.
WriteNotification(s) ==
  /\ session[s].at = "write"
  /\ notified' = TRUE
  /\ missed' = (missed \/ server = "clear")
  /\ Goes(s, session[s].after)
  /\ UNCHANGED <<listVars, server, polled, todo, announced, breakDetected, loadChanges>>

SessionStep(s) ==
  \/ InitializeSession(s) \/ ReceiveEvent(s) \/ LeaveLoop(s) \/ FinishSession(s)
  \/ SetLoad(s) \/ WriteNotification(s)

-----------------------------------------------------------------------------
(* The main thread.                                                        *)

\* Mutation of RemoveSession: the load of the session stays in the sum.
RemoveSessionKeepingLoad(s) ==
  /\ session' = [session EXCEPT ![s] = NoSession]
  /\ \E i \in DOMAIN threadList : threadList[i] = s /\ threadList' = RemNode(threadList, i)
  /\ threads' = threads - 1
  /\ UNCHANGED <<loadSum, notified>>

\* TCPLikeServerList::remove, once the thread has ended: setLoad(0.0), with
\* its notification, then the entry and the object are deleted.
RemoveSession(s) ==
  /\ session' = [session EXCEPT ![s] = NoSession]
  /\ loadSum' = loadSum - session[s].load
  /\ notified' = (notified \/ session[s].load # 0)
  /\ \E i \in DOMAIN threadList : threadList[i] = s /\ threadList' = RemNode(threadList, i)
  /\ threads' = threads - 1

\* Mutation of PollEvents: the list is only looked at after an event.
PollEventsOnly ==
  /\ server = "poll"
  /\ IF breakDetected
       THEN server' = "removeAll" /\ UNCHANGED <<polled, todo>>
       ELSE /\ \E connection \in {{}, {"connection"}} :
                 polled' = connection \cup (IF notified THEN {"pipe"} ELSE {})
            /\ server' = IF polled' = {} THEN "auto-stop" ELSE "removals"
            /\ todo' = IF polled' = {} THEN <<>> ELSE threadList
  /\ UNCHANGED <<session, listVars, notified, announced, missed, breakDetected, loadChanges>>

\* The head of the main loop: rsp_poll() ends after 2500 ms at the latest.
PollEvents ==
  /\ server = "poll"
  /\ IF breakDetected
       THEN server' = "removeAll" /\ UNCHANGED <<polled, todo>>
       ELSE /\ \E connection \in {{}, {"connection"}} :
                 polled' = connection \cup (IF notified THEN {"pipe"} ELSE {})
            /\ server' = "removals"
            /\ todo' = threadList
  /\ UNCHANGED <<session, listVars, notified, announced, missed, breakDetected, loadChanges>>

\* An entry of the list in handleRemovalsAndTimers().  The asyncTimerEvent() of
\* a session that goes on sets a flag (Alert) which only the handlers of its
\* service look at, and they are any choice here.
HandleRemovals ==
  /\ server = "removals"
  /\ todo # <<>>
  /\ IF session[Head(todo)].at = "finished"
       THEN RemoveSession(Head(todo))
       ELSE UNCHANGED <<session, listVars, notified>>
  /\ todo' = Tail(todo)
  /\ UNCHANGED <<server, polled, announced, missed, breakDetected, loadChanges>>

\* The end of it; rsp_poll() may have had no event.
RemovalsDone ==
  /\ server = "removals"
  /\ todo = <<>>
  /\ server' = IF polled = {} THEN "auto-stop" ELSE "accept"
  /\ UNCHANGED <<session, listVars, notified, polled, todo, announced, missed,
                 breakDetected, loadChanges>>

\* A new session gets a thread when there is capacity, its object can be made
\* and its thread be started.  Where that last step fails, the object is
\* deleted by TCPLikeServerList::remove and once more by the caller.
AcceptSession ==
  /\ server = "accept"
  /\ \/ /\ "connection" \in polled
        /\ threads < Cardinality(Session)
        /\ LET s == CHOOSE x \in Session : session[x].at = "none"
           IN  /\ session' = [session EXCEPT ![s].at = "initialize"]
               /\ threadList' = <<s>> \o threadList
        /\ threads' = threads + 1
        /\ server' = "announce"
     \/ /\ "connection" \in polled
        /\ threads < Cardinality(Session)
        /\ server' = "aborted"
        /\ UNCHANGED <<session, threadList, threads>>
     \/ /\ server' = "announce"
        /\ UNCHANGED <<session, threadList, threads>>
  /\ UNCHANGED <<loadSum, notified, polled, todo, announced, missed, breakDetected, loadChanges>>

\* Two loads that differ by less than 1%.
Near(load1, load2) ==
  100 * (load1 - load2) < FullLoad /\ 100 * (load2 - load1) < FullLoad

\* Reregistration on load changes, for an adaptive policy: getTotalLoad() is
\* compared with the load of the last registration.
AnnounceLoad ==
  /\ server = "announce"
  /\ LET newLoad == IF threads > 0 THEN loadSum ELSE 0
     IN  announced' = IF Near(newLoad, announced) THEN announced ELSE newLoad
  /\ missed' = FALSE
  /\ server' = "clear"
  /\ UNCHANGED <<session, listVars, notified, polled, todo, breakDetected, loadChanges>>

\* The pipe is read when it was reported; then auto-stop is looked at.
ClearPipe ==
  /\ server = "clear"
  /\ notified' = (notified /\ "pipe" \notin polled)
  /\ missed' = (missed /\ "pipe" \in polled)
  /\ server' = "auto-stop"
  /\ UNCHANGED <<session, listVars, polled, todo, announced, breakDetected, loadChanges>>

AutoStop ==
  /\ server = "auto-stop"
  /\ server' \in {"poll", "removeAll"}
  /\ polled' = {}
  /\ UNCHANGED <<session, listVars, notified, todo, announced, missed,
                 breakDetected, loadChanges>>

\* removeAll: shut down the first thread of the list, which is not locked.
ShutdownFirst ==
  /\ server = "removeAll"
  /\ IF threadList = <<>>
       THEN server' = "done" /\ UNCHANGED session
       ELSE /\ session' = [session EXCEPT ![threadList[1]].shutdown = TRUE]
            /\ server' = "join"
  /\ UNCHANGED <<listVars, notified, polled, todo, announced, missed, breakDetected, loadChanges>>

\* waitForFinish, and the rest of remove.
JoinFirst ==
  /\ server = "join"
  /\ session[threadList[1]].at = "finished"
  /\ RemoveSession(threadList[1])
  /\ server' = "removeAll"
  /\ UNCHANGED <<polled, todo, announced, missed, breakDetected, loadChanges>>

ServerStep ==
  \/ PollEvents \/ HandleRemovals \/ RemovalsDone \/ AcceptSession \/ AnnounceLoad
  \/ ClearPipe \/ AutoStop \/ ShutdownFirst \/ JoinFirst

BreakSignal ==
  /\ server \notin {"done", "aborted"}
  /\ breakDetected' = TRUE
  /\ UNCHANGED <<session, listVars, notified, mainThreadVars, loadChanges>>

\* An abort ends all threads.
ServerNext ==
  \/ ServerStep
  \/ server # "aborted" /\ \E s \in Session : SessionStep(s)
  \/ BreakSignal

\* Threads are scheduled, and rsp_poll() and rsp_recvfullmsg() have timeouts.
ServerFairness ==
  /\ WF_serverVars(ServerStep)
  /\ \A s \in Session : WF_serverVars(server # "aborted" /\ SessionStep(s))

ServerSpec == ServerInit /\ [][ServerNext]_serverVars /\ ServerFairness

-----------------------------------------------------------------------------
\* The list holds each thread object at most once, its counters are those of
\* its entries, and the sum of the loads is that of the sessions and within
\* the limit, whatever the order in which sessions set loads, end and are
\* removed (setLoad, TCPLikeServerList::add and ::remove).
LoadAccounted ==
  /\ threads = Len(threadList)
  /\ Range(threadList) = {s \in Session : session[s].at # "none"}
  /\ Cardinality(Range(threadList)) = Len(threadList)
  /\ loadSum = SumFunctionOnSet([s \in Session |-> session[s].load], Session)
  /\ loadSum <= FullLoad

\* When the main thread goes to sleep and nothing is going to wake it, the
\* load the registrar knows is less than 1% off: changes below that are left
\* out (the comparison in poolElement), but they never add up to more, and
\* every larger one is announced in the same turn or wakes the main thread once
\* more, also when the main thread made it itself by removing a session.  There
\* is one exception: a notification that a session writes after getTotalLoad()
\* and before ext_read() is taken from the pipe without another look at the
\* load, which stays unknown until the next event.
LoadChangesTold ==
  /\ server = "poll"
  /\ ~notified
  /\ ~missed
  /\ \A s \in Session : session[s].at # "write"
  => Near(announced, loadSum)

\* A session that has ended is removed, also when no event follows: its place
\* in the list does not stay taken (handleRemovalsAndTimers).
FinishedSessionRemoved ==
  \A s \in Session :
    []<>(session[s].at # "finished" \/ server = "aborted")

\* Once the server is told to stop, it ends, whatever its sessions are doing:
\* it never waits for a session that waits for the list (removeAll, setLoad).
ServerStops ==
  []<>(breakDetected \/ server \in {"removeAll", "join"} => server \in {"done", "aborted"})
=============================================================================
