---------------------------- MODULE AsapInstance ----------------------------
(***************************************************************************)
(* The ASAP instance of a pool element or pool user (asapinstance.c, with  *)
(* interthreadmessageport.c and asapinterthreadmessage.c).  The threads of *)
(* the application put their requests to the registrar into a queue, the   *)
(* port of the main loop.  The main loop thread sends them over its only   *)
(* connection, in order and without waiting for the responses, which carry *)
(* no request identifier: a response belongs to the first request of the   *)
(* queue.  A timeout or a failure of the connection leads to a new         *)
(* connection, over which all queued requests are sent again.              *)
(*                                                                         *)
(* A critical section of the code is one action.  The main loop is about   *)
(* to poll ("poll"), in a poll that waits ("block") or that has returned   *)
(* ("pass"), in a registrar hunt ("hunt") or past the hunt in              *)
(* asapInstanceHandleQueuedAITMs ("send"), where it holds the lock of the  *)
(* port while it has a request to handle.  It ends when the instance is   *)
(* deleted ("end") or a CHECK fails ("abort").                             *)
(***************************************************************************)
EXTENDS Naturals, Sequences, Lists

CONSTANTS
  AppThread,                 \* the application's threads
  Requests,                  \* the types of requests of each thread
  CallLimit,                 \* calls of all threads together
  RegistrarRequestMaxTrials,
  FaultLimit                 \* see Fault

RequestType == {"Registration", "Deregistration", "HandleResolution",
                "EndpointUnreachable"}

ASSUME ASAPAssumption ==
  /\ Requests \in [AppThread -> SUBSET RequestType]
  /\ CallLimit \in Nat
  /\ RegistrarRequestMaxTrials \in Nat
  /\ FaultLimit \in Nat

VARIABLES
  aitmPort,     \* MainLoopPort: the queue of requests
  lastAITM,     \* LastAITM: id of the last request sent, or 0
  cursor,       \* aitm of asapInstanceHandleQueuedAITMs (id or 0)
  unscheduled,  \* ResponseTimeoutNeedsScheduling of a request
  mainLoop,     \* where the main loop is
  registrarFD,  \* RegistrarSocket >= 0
  responseTimer,\* RegistrarTimeoutTimer is running
  pipe,         \* the main loop's pipe holds a notification
  shutdown,     \* MainLoopShutdown
  ownPEs,       \* OwnPoolElements: the threads that have registered their PE
  peCache,      \* Cache: the PE which the threads look for is in it
  appThread,    \* what each thread is doing, and its request
  replyPort,    \* the answer to each thread
  toRegistrar,  \* requests the registrar has to respond to (ids)
  fromRegistrar,\* responses on their way from the registrar
  calls,        \* number of requests so far
  faults        \* faults so far

connectionVars == <<lastAITM, registrarFD, responseTimer, toRegistrar, fromRegistrar>>
mainVars == <<connectionVars, cursor, unscheduled, mainLoop, faults>>
appVars == <<ownPEs, peCache, appThread, calls, shutdown>>
asapVars == <<mainVars, appVars, aitmPort, pipe, replyPort>>

-----------------------------------------------------------------------------
(* struct ASAPInterThreadMessage: wait says whether there is a reply port.  *)

AITM == [id : 1 .. CallLimit, type : RequestType, wait : BOOLEAN,
         from : AppThread, trials : Nat]
NoAITM == [id |-> 0]

\* A thread without a call.
Idle == [at |-> "idle", aitm |-> NoAITM]

ResponseExpected(aitm) == aitm.type # "EndpointUnreachable"

\* An answer to a call: the request whose response it is, or 0, and the error.
Answer(request, error) == [request |-> request, error |-> error]
NoAnswer == Answer(0, "none")

\* The position of a request in the queue; behind its end for the request 0.
PositionOf(id) ==
  IF \E i \in DOMAIN aitmPort : aitmPort[i].id = id
  THEN CHOOSE i \in DOMAIN aitmPort : aitmPort[i].id = id
  ELSE Len(aitmPort) + 1

\* Mutation of IsFirstMessage: the poll always waits.
IsAnyMessage(id) == TRUE

\* interThreadMessagePortIsFirstMessage.
IsFirstMessage(id) == id = IF aitmPort = <<>> THEN 0 ELSE Head(aitmPort).id

\* Something goes wrong: a lost connection, a failed send, a registrar that takes
\* over as home and so replaces the connection, a hunt without result, a response
\* that is an error or not one at all.
Fault ==
  /\ faults < FaultLimit
  /\ faults' = faults + 1

\* asapInstanceNew and asapInstanceStartThread: the main loop starts with a hunt.
ASAPInit ==
  /\ aitmPort = <<>>
  /\ lastAITM = 0
  /\ cursor = 0
  /\ unscheduled = FALSE
  /\ mainLoop = "hunt"
  /\ registrarFD = FALSE
  /\ responseTimer = FALSE
  /\ pipe = FALSE
  /\ shutdown = FALSE
  /\ ownPEs = {}
  /\ peCache = FALSE
  /\ appThread = [t \in AppThread |-> Idle]
  /\ replyPort = [t \in AppThread |-> NoAnswer]
  /\ toRegistrar = <<>>
  /\ fromRegistrar = <<>>
  /\ calls = 0
  /\ faults = 0

-----------------------------------------------------------------------------
(* The application's threads *)

\* A call that needs the registrar: the request is made.
NewRequest(t, type, wait) ==
  /\ ~shutdown
  /\ appThread[t].at = "idle"
  /\ type \in Requests[t]
  /\ calls < CallLimit
  /\ calls' = calls + 1
  /\ appThread' = [appThread EXCEPT ![t] =
       [at |-> "enqueue",
        aitm |-> [id |-> calls + 1, type |-> type, wait |-> wait, from |-> t,
                  trials |-> 0]]]
  /\ UNCHANGED <<mainVars, shutdown, aitmPort, pipe, replyPort>>

\* asapInstanceRegister: the PE is put into OwnPoolElements, if it is not there.
ASAPRegister(t) ==
  /\ \E wait \in BOOLEAN : NewRequest(t, "Registration", wait)
  /\ ownPEs' = ownPEs \cup {t}
  /\ UNCHANGED peCache

\* asapInstanceDeregister: only a PE that is there.
ASAPDeregister(t) ==
  /\ t \in ownPEs
  /\ \E wait \in BOOLEAN : NewRequest(t, "Deregistration", wait)
  /\ ownPEs' = ownPEs \ {t}
  /\ UNCHANGED peCache

\* asapInstanceHandleResolutionFromCache purges what is out of date.  A call that
\* finds a PE in the cache then returns without a request, and changes nothing.
CacheWithoutResult == peCache' = FALSE

\* asapInstanceHandleResolution and asapInstanceHandleResolutionAtRegistrar: without
\* a result from the cache, the registrar is asked.
ASAPHandleResolution(t) ==
  /\ CacheWithoutResult
  /\ NewRequest(t, "HandleResolution", TRUE)
  /\ UNCHANGED ownPEs

\* asapInstanceReportFailure: the PE leaves the cache; nobody waits for a response.
ASAPReportFailure(t) ==
  /\ NewRequest(t, "EndpointUnreachable", FALSE)
  /\ peCache' = FALSE
  /\ UNCHANGED ownPEs

\* asapInstanceHandleQueuedAITMs goes through the queue.
PortLocked == mainLoop = "send" /\ cursor # 0

\* asapInstanceBeginIO and asapInstanceSendRequest: the request is enqueued ...
BeginIO(t) ==
  /\ appThread[t].at = "enqueue"
  /\ ~PortLocked
  /\ aitmPort' = Append(aitmPort, appThread[t].aitm)
  /\ appThread' = [appThread EXCEPT ![t].at = "notify"]
  /\ UNCHANGED <<mainVars, ownPEs, peCache, calls, shutdown, pipe, replyPort>>

\* ... then asapInstanceNotifyMainLoop wakes up the main loop.
NotifyMainLoop(t) ==
  /\ appThread[t].at = "notify"
  /\ pipe' = TRUE
  /\ appThread' = [appThread EXCEPT ![t] = IF @.aitm.wait THEN [@ EXCEPT !.at = "wait"]
                                           ELSE Idle]
  /\ UNCHANGED <<mainVars, ownPEs, peCache, calls, shutdown, aitmPort, replyPort>>

\* asapInstanceWaitIO and what the caller does with the answer: the PEs of a
\* handle resolution go into the cache.
WaitIO(t) ==
  /\ appThread[t].at = "wait"
  /\ replyPort[t] # NoAnswer
  /\ replyPort' = [replyPort EXCEPT ![t] = NoAnswer]
  /\ appThread' = [appThread EXCEPT ![t] = Idle]
  /\ peCache' = (peCache \/ /\ appThread[t].aitm.type = "HandleResolution"
                            /\ replyPort[t].error = "okay")
  /\ UNCHANGED <<mainVars, ownPEs, calls, shutdown, aitmPort, pipe>>

\* asapInstanceDelete, which is called when no thread uses the instance any more.
ASAPDelete ==
  /\ ~shutdown
  /\ \A t \in AppThread : appThread[t].at = "idle"
  /\ shutdown' = TRUE
  /\ pipe' = TRUE
  /\ UNCHANGED <<mainVars, ownPEs, peCache, appThread, calls, aitmPort, replyPort>>

-----------------------------------------------------------------------------
(* The connection to the registrar *)

\* asapInstanceDisconnectFromRegistrar.
Disconnect ==
  /\ lastAITM' = 0
  /\ registrarFD' = FALSE
  /\ responseTimer' = FALSE
  /\ toRegistrar' = <<>>
  /\ fromRegistrar' = <<>>

\* asapInstanceHandleRegistrarConnectionEvent, a notification that the
\* association has ended.
ConnectionLost ==
  /\ mainLoop \in {"block", "pass"}
  /\ registrarFD
  /\ Fault
  /\ Disconnect
  /\ mainLoop' = "pass"
  /\ UNCHANGED <<cursor, unscheduled, appVars, aitmPort, pipe, replyPort>>

\* asapInstanceHandleEndpointKeepAlive, over the hunt socket and with the HOME
\* flag: the association it came over replaces the connection.
KeepAliveFromNewHome ==
  /\ mainLoop \in {"block", "pass"}
  /\ Fault
  /\ lastAITM' = 0
  /\ registrarFD' = TRUE
  /\ responseTimer' = (responseTimer /\ ~registrarFD)
  /\ toRegistrar' = <<>>
  /\ fromRegistrar' = <<>>
  /\ mainLoop' = "pass"
  /\ UNCHANGED <<cursor, unscheduled, appVars, aitmPort, pipe, replyPort>>

\* The registrar responds to the next request of a connection.
RegistrarAnswers ==
  /\ toRegistrar # <<>>
  /\ toRegistrar' = Tail(toRegistrar)
  /\ \E error \in {"okay", "reject", "unusable", "garbage"} :
       /\ fromRegistrar' = Append(fromRegistrar, Answer(Head(toRegistrar), error))
       /\ IF error = "okay" THEN UNCHANGED faults ELSE Fault
  /\ UNCHANGED <<lastAITM, registrarFD, responseTimer, cursor, unscheduled, mainLoop,
                 appVars, aitmPort, pipe, replyPort>>

\* interThreadMessageReply, for a request that has a reply port.
ReplyTo(aitm, answer) ==
  replyPort' = IF aitm.wait THEN [replyPort EXCEPT ![aitm.from] = answer] ELSE replyPort

\* Mutation of TimerFor: a response always stops the timer.
NoTimerFor(last) == FALSE

\* The timer runs on for the next response, unless the last one has come.
TimerFor(last) == last # 0

\* asapInstanceHandleResponseFromRegistrar: the response is for the first request.
\* Unless it is a response to a request of that type, the connection ends, and
\* also when the registrar cannot use the addresses of a PE that registers
\* without waiting.  Otherwise, the timer is for the next request.
HandleResponse ==
  /\ mainLoop \in {"block", "pass"}
  /\ fromRegistrar # <<>>
  /\ LET response == Head(fromRegistrar)
         aitm == Head(aitmPort)
         unusable == /\ aitm.type = "Registration"
                     /\ ~aitm.wait
                     /\ response.error = "unusable"
         disconnects == aitmPort = <<>> \/ response.error = "garbage" \/ unusable
     IN /\ IF disconnects
           THEN Disconnect
           ELSE /\ lastAITM' = IF lastAITM = aitm.id THEN 0 ELSE lastAITM
                /\ responseTimer' = TimerFor(lastAITM')
                /\ fromRegistrar' = Tail(fromRegistrar)
                /\ UNCHANGED <<registrarFD, toRegistrar>>
        /\ IF aitmPort = <<>>
           THEN UNCHANGED <<aitmPort, replyPort>>
           ELSE /\ aitmPort' = Tail(aitmPort)
                /\ ReplyTo(aitm, response)
  /\ mainLoop' = "pass"
  /\ UNCHANGED <<cursor, unscheduled, appVars, pipe, faults>>

\* asapInstanceHandleRegistrarTimeout, with its CHECK.
HandleRegistrarTimeout ==
  /\ mainLoop \in {"block", "pass"}
  /\ responseTimer
  /\ IF lastAITM = 0
     THEN /\ mainLoop' = "abort"
          /\ UNCHANGED connectionVars
     ELSE /\ mainLoop' = "pass"
          /\ Disconnect
  /\ UNCHANGED <<cursor, unscheduled, faults, appVars, aitmPort, pipe, replyPort>>

-----------------------------------------------------------------------------
(* asapInstanceMainLoop and asapInstanceHandleQueuedAITMs *)

\* The poll waits when the first request is the last one sent.
Poll ==
  /\ mainLoop = "poll"
  /\ mainLoop' = IF shutdown THEN "end"
                 ELSE IF IsFirstMessage(lastAITM) THEN "block" ELSE "pass"
  /\ IF shutdown THEN Disconnect ELSE UNCHANGED connectionVars
  /\ aitmPort' = IF shutdown THEN <<>> ELSE aitmPort
  /\ UNCHANGED <<cursor, unscheduled, faults, appVars, pipe, replyPort>>

\* The notification in the pipe ends the poll and is read.
ReadPipe ==
  /\ mainLoop \in {"block", "pass"}
  /\ pipe
  /\ pipe' = FALSE
  /\ mainLoop' = "pass"
  /\ UNCHANGED <<connectionVars, cursor, unscheduled, faults, appVars, aitmPort, replyPort>>

\* Mutation of NextAITM: it begins with the first request whatever was sent.
NextAITMFromFirst ==
  /\ mainLoop = "pass"
  /\ cursor' = IF aitmPort = <<>> THEN 0 ELSE aitmPort[1].id
  /\ mainLoop' = IF ~registrarFD /\ (cursor' # 0 \/ ownPEs # {})
                 THEN "hunt" ELSE "send"
  /\ UNCHANGED <<connectionVars, unscheduled, faults, appVars, aitmPort, pipe, replyPort>>

\* asapInstanceHandleQueuedAITMs chooses the first request to send, and connects.
NextAITM ==
  /\ mainLoop = "pass"
  /\ LET i == IF lastAITM = 0 THEN 1 ELSE PositionOf(lastAITM) + 1 IN
       cursor' = IF i \in DOMAIN aitmPort THEN aitmPort[i].id ELSE 0
  /\ mainLoop' = IF ~registrarFD /\ (cursor' # 0 \/ ownPEs # {})
                 THEN "hunt" ELSE "send"
  /\ UNCHANGED <<connectionVars, unscheduled, faults, appVars, aitmPort, pipe, replyPort>>

\* asapInstanceConnectToRegistrar, by a hunt, which may fail.
ConnectToRegistrar ==
  /\ mainLoop = "hunt"
  /\ \/ /\ registrarFD' = TRUE
        /\ UNCHANGED faults
     \/ /\ Fault
        /\ UNCHANGED registrarFD
  /\ mainLoop' = "send"
  /\ UNCHANGED <<lastAITM, responseTimer, toRegistrar, fromRegistrar, cursor,
                 unscheduled, appVars, aitmPort, pipe, replyPort>>

\* The loop of asapInstanceHandleQueuedAITMs, for the request at the cursor: it is
\* given up, when it has been tried too often, left in the queue when there is no
\* registrar, or sent.  A send may fail, which ends the connection and the loop.
QueuedAITM == aitmPort[PositionOf(cursor)]

NextCursor ==
  LET i == PositionOf(cursor) + 1 IN IF i \in DOMAIN aitmPort THEN aitmPort[i].id ELSE 0

TooOften == QueuedAITM.trials >= RegistrarRequestMaxTrials

GiveUpAITM ==
  /\ PortLocked
  /\ TooOften
  /\ aitmPort' = RemNode(aitmPort, PositionOf(cursor))
  /\ ReplyTo(QueuedAITM, Answer(0, IF registrarFD THEN "timeout" ELSE "no registrar"))
  /\ cursor' = NextCursor
  /\ UNCHANGED <<connectionVars, unscheduled, mainLoop, faults, appVars, pipe>>

CountTrial == aitmPort' = [aitmPort EXCEPT ![PositionOf(cursor)].trials = @ + 1]

KeepAITM ==
  /\ PortLocked
  /\ ~TooOften
  /\ ~registrarFD
  /\ CountTrial
  /\ cursor' = NextCursor
  /\ UNCHANGED <<connectionVars, unscheduled, mainLoop, faults, appVars, pipe, replyPort>>

SendAITM ==
  /\ PortLocked
  /\ ~TooOften
  /\ registrarFD
  /\ IF ResponseExpected(QueuedAITM)
     THEN /\ CountTrial
          /\ lastAITM' = cursor
          /\ toRegistrar' = Append(toRegistrar, cursor)
          /\ unscheduled' = TRUE
     ELSE /\ aitmPort' = RemNode(aitmPort, PositionOf(cursor))
          /\ UNCHANGED <<lastAITM, toRegistrar, unscheduled>>
  /\ cursor' = NextCursor
  /\ UNCHANGED <<registrarFD, responseTimer, fromRegistrar, mainLoop, faults, appVars,
                 pipe, replyPort>>

SendFails ==
  /\ PortLocked
  /\ ~TooOften
  /\ registrarFD
  /\ Fault
  /\ CountTrial
  /\ Disconnect
  /\ cursor' = 0
  /\ UNCHANGED <<unscheduled, mainLoop, appVars, pipe, replyPort>>

\* Its end: the timer is started for a request that has been sent, whether or not
\* the connection has ended since.
ScheduleTimeout ==
  /\ mainLoop = "send"
  /\ cursor = 0
  /\ responseTimer' = (responseTimer \/ unscheduled)
  /\ unscheduled' = FALSE
  /\ mainLoop' = "poll"
  /\ UNCHANGED <<lastAITM, registrarFD, toRegistrar, fromRegistrar, cursor, faults,
                 appVars, aitmPort, pipe, replyPort>>

-----------------------------------------------------------------------------
Call(t) ==
  \/ ASAPRegister(t)
  \/ ASAPDeregister(t)
  \/ ASAPHandleResolution(t)
  \/ ASAPReportFailure(t)

ThreadStep(t) ==
  /\ mainLoop # "abort"
  /\ BeginIO(t) \/ NotifyMainLoop(t) \/ WaitIO(t)

MainLoop ==
  \/ HandleResponse
  \/ HandleRegistrarTimeout
  \/ Poll
  \/ ReadPipe
  \/ NextAITM
  \/ ConnectToRegistrar
  \/ GiveUpAITM \/ KeepAITM \/ SendAITM \/ SendFails
  \/ ScheduleTimeout

\* A CHECK that fails ends the process, with all of its threads.
ASAPNext ==
  /\ mainLoop # "abort"
  /\ \/ \E t \in AppThread : Call(t) \/ ThreadStep(t)
     \/ ASAPDelete
     \/ MainLoop
     \/ ConnectionLost
     \/ KeepAliveFromNewHome
     \/ RegistrarAnswers

\* The operating system runs every thread, and the main loop handles an expired
\* timer whenever its poll has returned.  Neither the registrar nor the
\* application is assumed to do anything.
ASAPFairness ==
  /\ \A t \in AppThread : WF_asapVars(ThreadStep(t))
  /\ WF_asapVars(MainLoop)
  /\ SF_asapVars(HandleRegistrarTimeout)

ASAPSpec == ASAPInit /\ [][ASAPNext]_asapVars /\ ASAPFairness

-----------------------------------------------------------------------------
(* Properties *)

\* The requests whose responses are to come over the connection are the first
\* ones of the queue, in this order, up to LastAITM (asapInstanceHandleResponse
\* takes the first request for the one that is answered).
ResponsesInOrder ==
  LET sent == IF lastAITM = 0 THEN 0 ELSE PositionOf(lastAITM)
  IN [i \in 1 .. sent |-> aitmPort[i].id] =
       [i \in DOMAIN fromRegistrar |-> fromRegistrar[i].request] \o toRegistrar

\* The response that a thread gets is the one to its own request, although after
\* a timeout or a lost connection the request has been sent again, together with
\* others (asapInstanceHandleResponseFromRegistrar, asapInstanceWaitIO).
OwnResponse ==
  \A t \in AppThread :
    replyPort[t].request # 0 =>
      appThread[t].at # "idle" /\ replyPort[t].request = appThread[t].aitm.id

\* While the main loop waits for a response, the timer for it is running, so that
\* a registrar that is silent is given up (asapInstanceHandleRegistrarTimeout).
ResponseSupervised == lastAITM # 0 /\ mainLoop # "send" => responseTimer

\* A thread that waits for the answer to its request gets one, also when no
\* registrar answers, the connection is lost or a send fails, unless the CHECK in
\* asapInstanceHandleRegistrarTimeout ends the process.
CallsReturn ==
  \A t \in AppThread :
    []<>(appThread[t].at = "idle" \/ mainLoop = "abort")
=============================================================================
