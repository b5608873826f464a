---------------------------- MODULE LibraryProofs ----------------------------
(***************************************************************************)
(* The parts below the interface of the library.                           *)
(*                                                                         *)
(* A response reaches the thread that made the request: proved for any     *)
(* number of threads and calls, any bound of trials and any number of      *)
(* lost connections, timeouts and failed sends.  Responses carry no        *)
(* identifier, so this rests on the order in which requests are queued,    *)
(* sent, sent again, given up and answered.                                *)
(*                                                                         *)
(* An event reaches the callback it was polled for, and a registered pool  *)
(* element is registered again: proved for any number of descriptors,      *)
(* timers, callbacks and changes by other threads.                         *)
(***************************************************************************)
EXTENDS AsapInstance, Reregistration, TLAPS

-----------------------------------------------------------------------------
(* The ASAP instance: the inductive invariant *)

Id == 1 .. CallLimit

ThreadState == [at : {"enqueue", "notify", "wait"}, aitm : AITM] \cup {Idle}

AnswerType ==
  [request : Id \cup {0},
   error : {"none", "okay", "reject", "unusable", "garbage", "timeout", "no registrar"}]

Types ==
  /\ aitmPort \in Seq(AITM)
  /\ lastAITM \in Id \cup {0}
  /\ cursor \in Id \cup {0}
  /\ calls \in 0 .. CallLimit
  /\ appThread \in [AppThread -> ThreadState]
  /\ replyPort \in [AppThread -> AnswerType]
  /\ toRegistrar \in Seq(Id)
  /\ fromRegistrar \in Seq(AnswerType)

\* A request is in the queue at most once.
Unique ==
  \A i, j \in DOMAIN aitmPort : aitmPort[i].id = aitmPort[j].id => i = j

\* A thread has at most one call, with a number of its own, and its request is not
\* in the queue before it is put there.
Threads ==
  /\ \A i \in DOMAIN aitmPort : aitmPort[i].id <= calls
  /\ \A t \in AppThread : appThread[t] # Idle =>
       /\ appThread[t].aitm.from = t
       /\ appThread[t].aitm.id <= calls
       /\ appThread[t].at = "enqueue" =>
            \A i \in DOMAIN aitmPort : aitmPort[i].id # appThread[t].aitm.id
  /\ \A t, u \in AppThread :
       appThread[t] # Idle /\ appThread[u] # Idle
         /\ appThread[t].aitm.id = appThread[u].aitm.id => t = u

\* A queued request with a reply port is the one its thread is waiting for ...
Waiting ==
  \A i \in DOMAIN aitmPort : aitmPort[i].wait =>
    LET t == aitmPort[i].from IN
      /\ appThread[t] # Idle
      /\ appThread[t].at # "enqueue"
      /\ appThread[t].aitm.wait
      /\ appThread[t].aitm.id = aitmPort[i].id
      /\ replyPort[t] = NoAnswer

\* ... and a thread that has an answer is still waiting for it.
Answered ==
  \A t \in AppThread : replyPort[t] # NoAnswer =>
    /\ appThread[t] # Idle
    /\ appThread[t].at # "enqueue"
    /\ appThread[t].aitm.wait
    /\ replyPort[t].request \in {0, appThread[t].aitm.id}

\* The responses to come, and those that have come, are for the first requests.
Sent == Len(fromRegistrar) + Len(toRegistrar)

Order ==
  /\ lastAITM = 0 => Sent = 0
  /\ lastAITM # 0 =>
       registrarFD /\ Sent \in DOMAIN aitmPort /\ aitmPort[Sent].id = lastAITM
  /\ \A i \in 1 .. Len(fromRegistrar) : fromRegistrar[i].request = aitmPort[i].id
  /\ \A i \in 1 .. Len(toRegistrar) :
       toRegistrar[i] = aitmPort[Len(fromRegistrar) + i].id

\* The request at the cursor is the first one that has not been sent, as long as
\* requests are sent.
Cursor ==
  cursor # 0 =>
    /\ mainLoop \in {"hunt", "send"}
    /\ \E i \in DOMAIN aitmPort : aitmPort[i].id = cursor
    /\ registrarFD \/ mainLoop = "hunt" =>
         Sent + 1 \in DOMAIN aitmPort /\ aitmPort[Sent + 1].id = cursor

Supervised == lastAITM # 0 => responseTimer \/ (unscheduled /\ mainLoop = "send")

ASAPInv ==
  Types /\ Unique /\ Threads /\ Waiting /\ Answered /\ Order /\ Cursor /\ Supervised

-----------------------------------------------------------------------------
(* Sequences *)

\* What RemNode returns.
LEMMA RemNodeProperties ==
  ASSUME NEW S, NEW s \in Seq(S), NEW k \in 1 .. Len(s)
  PROVE  /\ RemNode(s, k) \in Seq(S)
         /\ Len(RemNode(s, k)) = Len(s) - 1
         /\ \A i \in 1 .. Len(s) - 1 :
              RemNode(s, k)[i] = IF i < k THEN s[i] ELSE s[i + 1]
<1>1. /\ SubSeq(s, 1, k - 1) \in Seq(S)
      /\ Len(SubSeq(s, 1, k - 1)) = k - 1
      /\ \A i \in 1 .. k - 1 : SubSeq(s, 1, k - 1)[i] = s[i]
  <2>1. \A i \in 1 .. k - 1 : s[i] \in S
    OBVIOUS
  <2> QED
    BY <2>1
<1>2. /\ SubSeq(s, k + 1, Len(s)) \in Seq(S)
      /\ Len(SubSeq(s, k + 1, Len(s))) = Len(s) - k
      /\ \A i \in 1 .. Len(s) - k : SubSeq(s, k + 1, Len(s))[i] = s[k + i]
  <2>1. \A i \in k + 1 .. Len(s) : s[i] \in S
    OBVIOUS
  <2>2. Len(s) \in Nat /\ k \in Nat
    OBVIOUS
  <2> QED
    BY <2>1, <2>2
<1> DEFINE low == SubSeq(s, 1, k - 1)
           high == SubSeq(s, k + 1, Len(s))
<1>3. /\ low \o high \in Seq(S)
      /\ Len(low \o high) = Len(low) + Len(high)
      /\ \A i \in 1 .. Len(low) + Len(high) :
           (low \o high)[i] = IF i <= Len(low) THEN low[i] ELSE high[i - Len(low)]
  <2>1. low \in Seq(S) /\ high \in Seq(S)
    BY Zenon, <1>1, <1>2
  <2> HIDE DEF low, high
  <2> QED
    BY <2>1
<1>4. RemNode(s, k) = low \o high
  BY DEF RemNode
<1>5. Len(low) = k - 1 /\ \A i \in 1 .. k - 1 : low[i] = s[i]
  BY <1>1
<1>6. Len(high) = Len(s) - k /\ \A i \in 1 .. Len(s) - k : high[i] = s[k + i]
  BY <1>2
<1> HIDE DEF low, high
<1>7. ASSUME NEW i \in 1 .. Len(s) - 1
      PROVE  (low \o high)[i] = IF i < k THEN s[i] ELSE s[i + 1]
  <2>1. CASE i < k
    BY <1>3, <1>5, <1>6, <2>1
  <2>2. CASE ~(i < k)
    <3>1. i - (k - 1) \in 1 .. Len(s) - k /\ k + (i - (k - 1)) = i + 1
      BY <2>2
    <3>2. (low \o high)[i] = high[i - (k - 1)]
      BY <1>3, <1>5, <1>6, <2>2
    <3> QED
      BY <1>6, <2>2, <3>1, <3>2
  <2> QED
    BY Zenon, <2>1, <2>2
<1> QED
  BY <1>3, <1>4, <1>5, <1>6, <1>7

\* The fields of queued requests.
LEMMA QueuedRequest ==
  ASSUME Types, NEW i \in DOMAIN aitmPort
  PROVE  /\ aitmPort[i] \in AITM
         /\ aitmPort[i].id \in Id
         /\ aitmPort[i].from \in AppThread
         /\ aitmPort[i].wait \in BOOLEAN
         /\ aitmPort[i].trials \in Nat
<1>1. aitmPort[i] \in AITM
  BY DEF Types
<1> QED
  BY <1>1 DEF AITM, Id

\* In a queue without duplicates, PositionOf finds the position.
LEMMA PositionOfRequest ==
  ASSUME Types, Unique, NEW i \in DOMAIN aitmPort
  PROVE  PositionOf(aitmPort[i].id) = i
  BY DEF Types, Unique, PositionOf

-----------------------------------------------------------------------------
(* The application's threads *)

LEMMA InitInv == ASAPInit => ASAPInv
<1> SUFFICES ASSUME ASAPInit PROVE ASAPInv
  OBVIOUS
<1>1. NoAnswer \in AnswerType
  BY DEF NoAnswer, Answer, AnswerType
<1>2. Types
  BY <1>1, ASAPAssumption DEF ASAPInit, Types, ThreadState
<1>3. Unique /\ Threads /\ Waiting /\ Answered
  BY DEF ASAPInit, Unique, Threads, Waiting, Answered
<1>4. Order /\ Cursor /\ Supervised
  BY DEF ASAPInit, Order, Cursor, Supervised, Sent
<1> QED
  BY <1>2, <1>3, <1>4 DEF ASAPInv

\* A call takes a number that no request has had before.
LEMMA NewRequestInv ==
  ASSUME ASAPInv, NEW t \in AppThread, NEW type \in RequestType, NEW wait \in BOOLEAN,
         NewRequest(t, type, wait)
  PROVE  ASAPInv'
<1> DEFINE aitm == [id |-> calls + 1, type |-> type, wait |-> wait, from |-> t, trials |-> 0]
           new == [at |-> "enqueue", aitm |-> aitm]
<1>1. /\ appThread' = [appThread EXCEPT ![t] = new] /\ calls' = calls + 1
      /\ calls < CallLimit /\ appThread[t].at = "idle"
      /\ UNCHANGED <<aitmPort, lastAITM, cursor, replyPort, toRegistrar, fromRegistrar,
                     mainLoop, registrarFD, responseTimer, unscheduled>>
  BY DEF NewRequest, mainVars, connectionVars
<1>2. aitm \in AITM /\ new \in ThreadState /\ new # Idle
  BY <1>1, ASAPAssumption DEF ASAPInv, Types, AITM, ThreadState, Idle
<1>3. appThread[t] = Idle
  BY Zenon, <1>1 DEF ASAPInv, Types, ThreadState
<1>4. replyPort[t] = NoAnswer
  BY <1>3 DEF ASAPInv, Answered
<1>5. Types'
  BY <1>1, <1>2, ASAPAssumption DEF ASAPInv, Types
<1>6. /\ \A u \in AppThread \ {t} : appThread'[u] = appThread[u]
      /\ appThread'[t] = new
  BY Zenon, <1>1 DEF ASAPInv, Types
<1>7. Threads'
  <2>1. \A i \in DOMAIN aitmPort : aitmPort[i].id \in Nat /\ aitmPort[i].id <= calls
    BY QueuedRequest DEF ASAPInv, Threads, Id
  <2>2. \A u \in AppThread : appThread[u] # Idle =>
           appThread[u].aitm.id \in Nat /\ appThread[u].aitm.id <= calls
    BY DEF ASAPInv, Types, Threads, ThreadState, AITM
  <2>3. calls \in Nat /\ aitm.id = calls + 1 /\ aitm.from = t
    <3>1. calls \in 0 .. CallLimit
      BY Zenon DEF ASAPInv, Types
    <3> QED
      BY <3>1, ASAPAssumption
  <2> HIDE DEF aitm
  <2> QED
    BY <1>1, <1>2, <1>6, <2>1, <2>2, <2>3 DEF ASAPInv, Threads
<1>8. Waiting' /\ Answered'
  BY <1>1, <1>3, <1>4, <1>6 DEF ASAPInv, Types, Waiting, Answered, AITM
<1> QED
  BY <1>1, <1>5, <1>7, <1>8
  DEF ASAPInv, Unique, Order, Cursor, Supervised, Sent

\* The request goes behind the others.
LEMMA BeginIOInv ==
  ASSUME ASAPInv, NEW t \in AppThread, BeginIO(t)
  PROVE  ASAPInv'
<1> DEFINE aitm == appThread[t].aitm
           new == [appThread[t] EXCEPT !.at = "notify"]
<1>1. /\ appThread' = [appThread EXCEPT ![t].at = "notify"]
      /\ appThread[t].at = "enqueue"
      /\ aitmPort' = Append(aitmPort, aitm)
      /\ UNCHANGED <<calls, lastAITM, cursor, replyPort, toRegistrar, fromRegistrar,
                     mainLoop, registrarFD, responseTimer, unscheduled>>
  BY DEF BeginIO, mainVars, connectionVars
<1>2. appThread[t] # Idle
  BY <1>1 DEF Idle
<1>3. /\ aitm \in AITM /\ new \in ThreadState /\ new # Idle
      /\ new.aitm = aitm /\ new.at = "notify"
  BY <1>1, <1>2 DEF ASAPInv, Types, ThreadState, Idle
<1>4. /\ appThread'[t] = new
      /\ \A u \in AppThread \ {t} : appThread'[u] = appThread[u]
      /\ appThread' \in [AppThread -> ThreadState]
  BY <1>1, <1>3 DEF ASAPInv, Types
<1>5. /\ aitmPort' \in Seq(AITM)
      /\ Len(aitmPort') = Len(aitmPort) + 1
      /\ \A i \in DOMAIN aitmPort : aitmPort'[i] = aitmPort[i]
      /\ aitmPort'[Len(aitmPort) + 1] = aitm
  BY <1>1, <1>3 DEF ASAPInv, Types
<1>6. DOMAIN aitmPort' = DOMAIN aitmPort \cup {Len(aitmPort) + 1}
  BY <1>5 DEF ASAPInv, Types
<1>7. replyPort[t] = NoAnswer
  BY <1>1 DEF ASAPInv, Answered
<1>8. Types'
  BY <1>1, <1>4, <1>5 DEF ASAPInv, Types
<1>9. \A i \in DOMAIN aitmPort : aitmPort[i].id # aitm.id
  BY Zenon, <1>1, <1>2 DEF ASAPInv, Threads
<1>10. Unique'
  BY Zenon, <1>5, <1>6, <1>9 DEF ASAPInv, Unique
<1>11. Threads'
  <2>1. aitm.from = t /\ aitm.id <= calls
    BY <1>2 DEF ASAPInv, Threads
  <2>2. \A u \in AppThread \ {t} : appThread[u] # Idle => appThread[u].aitm.id # aitm.id
    BY Zenon, <1>2 DEF ASAPInv, Threads
  <2> QED
    BY <1>1, <1>2, <1>3, <1>4, <1>5, <1>6, <2>1, <2>2 DEF ASAPInv, Threads
<1>12. Waiting'
  <2>1. aitm.from = t
    BY <1>2 DEF ASAPInv, Threads
  <2>2. \A i \in DOMAIN aitmPort : aitmPort[i].wait => aitmPort[i].from # t
    BY <1>1 DEF ASAPInv, Waiting
  <2>3. \A i \in DOMAIN aitmPort : aitmPort[i].from \in AppThread
    BY QueuedRequest DEF ASAPInv
  <2> SUFFICES ASSUME NEW i \in DOMAIN aitmPort', aitmPort'[i].wait
               PROVE  LET u == aitmPort'[i].from IN
                        /\ appThread'[u] # Idle
                        /\ appThread'[u].at # "enqueue"
                        /\ appThread'[u].aitm.wait
                        /\ appThread'[u].aitm.id = aitmPort'[i].id
                        /\ replyPort'[u] = NoAnswer
    BY Zenon DEF Waiting
  <2>4. CASE i = Len(aitmPort) + 1
    BY <1>1, <1>3, <1>4, <1>5, <1>7, <2>1, <2>4
  <2>5. CASE i \in DOMAIN aitmPort
    <3>1. aitmPort'[i] = aitmPort[i] /\ replyPort' = replyPort
      BY <1>1, <1>5, <2>5
    <3>2. appThread'[aitmPort[i].from] = appThread[aitmPort[i].from]
      BY <1>4, <2>2, <2>3, <2>5, <3>1
    <3> QED
      BY <2>5, <3>1, <3>2 DEF ASAPInv, Waiting
  <2> QED
    BY Zenon, <1>6, <2>4, <2>5
<1>13. Answered'
  BY <1>1, <1>4, <1>7 DEF ASAPInv, Answered
<1>14. Order'
  BY <1>1, <1>5, <1>6 DEF ASAPInv, Types, Order, Sent
<1>15. Cursor' /\ Supervised'
  BY <1>1, <1>5, <1>6 DEF ASAPInv, Types, Cursor, Supervised, Sent
<1> QED
  BY <1>8, <1>10, <1>11, <1>12, <1>13, <1>14, <1>15 DEF ASAPInv

LEMMA NotifyMainLoopInv ==
  ASSUME ASAPInv, NEW t \in AppThread, NotifyMainLoop(t)
  PROVE  ASAPInv'
<1> DEFINE new == IF appThread[t].aitm.wait THEN [appThread[t] EXCEPT !.at = "wait"]
                  ELSE Idle
<1>1. /\ appThread' = [appThread EXCEPT ![t] = new]
      /\ appThread[t].at = "notify"
      /\ UNCHANGED <<aitmPort, calls, lastAITM, cursor, replyPort, toRegistrar,
                     fromRegistrar, mainLoop, registrarFD, responseTimer, unscheduled>>
  BY DEF NotifyMainLoop, mainVars, connectionVars
<1>2. appThread[t] # Idle
  BY <1>1 DEF Idle
<1>3. /\ new \in ThreadState
      /\ new # Idle => new.aitm = appThread[t].aitm /\ new.at = "wait"
      /\ appThread[t].aitm.wait => new # Idle
  BY Zenon, <1>1, <1>2 DEF ASAPInv, Types, ThreadState, Idle
<1> HIDE DEF new
<1>4. /\ appThread'[t] = new
      /\ \A u \in AppThread \ {t} : appThread'[u] = appThread[u]
      /\ appThread' \in [AppThread -> ThreadState]
  BY <1>1, <1>3 DEF ASAPInv, Types
<1>5. Types'
  BY Zenon, <1>1, <1>4 DEF ASAPInv, Types
<1>6. Threads'
  BY <1>1, <1>2, <1>3, <1>4 DEF ASAPInv, Threads
<1>7. Waiting'
  <2> SUFFICES ASSUME NEW i \in DOMAIN aitmPort, aitmPort[i].wait
               PROVE  LET u == aitmPort[i].from IN
                        /\ appThread'[u] # Idle
                        /\ appThread'[u].at # "enqueue"
                        /\ appThread'[u].aitm.wait
                        /\ appThread'[u].aitm.id = aitmPort[i].id
                        /\ replyPort[u] = NoAnswer
    BY <1>1 DEF Waiting
  <2>1. aitmPort[i].from \in AppThread
    BY Zenon, QueuedRequest DEF ASAPInv
  <2>2. CASE aitmPort[i].from = t
    BY Zenon, <1>3, <1>4, <2>2 DEF ASAPInv, Waiting
  <2>3. CASE aitmPort[i].from # t
    BY Zenon, <1>4, <2>1, <2>3 DEF ASAPInv, Waiting
  <2> QED
    BY Zenon, <2>2, <2>3
<1>8. Answered'
  BY Zenon, <1>1, <1>3, <1>4 DEF ASAPInv, Answered
<1> QED
  BY <1>1, <1>5, <1>6, <1>7, <1>8
  DEF ASAPInv, Unique, Order, Cursor, Supervised, Sent

\* A thread that has its answer has no request in the queue.
LEMMA WaitIOInv ==
  ASSUME ASAPInv, NEW t \in AppThread, WaitIO(t)
  PROVE  ASAPInv'
<1>1. /\ appThread' = [appThread EXCEPT ![t] = Idle]
      /\ replyPort' = [replyPort EXCEPT ![t] = NoAnswer]
      /\ replyPort[t] # NoAnswer
      /\ UNCHANGED <<aitmPort, calls, lastAITM, cursor, toRegistrar, fromRegistrar,
                     mainLoop, registrarFD, responseTimer, unscheduled>>
  BY DEF WaitIO, mainVars, connectionVars
<1>2. NoAnswer \in AnswerType /\ Idle \in ThreadState
  BY DEF NoAnswer, Answer, AnswerType, ThreadState
<1>3. /\ appThread'[t] = Idle /\ replyPort'[t] = NoAnswer
      /\ \A u \in AppThread \ {t} : appThread'[u] = appThread[u]
      /\ \A u \in AppThread \ {t} : replyPort'[u] = replyPort[u]
      /\ appThread' \in [AppThread -> ThreadState]
      /\ replyPort' \in [AppThread -> AnswerType]
  BY <1>1, <1>2 DEF ASAPInv, Types
<1>4. Types'
  BY Zenon, <1>1, <1>3 DEF ASAPInv, Types
<1>5. Threads'
  BY ZenonT(40), <1>1, <1>3 DEF ASAPInv, Threads
<1>6. Waiting'
  <2> SUFFICES ASSUME NEW i \in DOMAIN aitmPort, aitmPort[i].wait
               PROVE  LET u == aitmPort[i].from IN
                        /\ appThread'[u] # Idle
                        /\ appThread'[u].at # "enqueue"
                        /\ appThread'[u].aitm.wait
                        /\ appThread'[u].aitm.id = aitmPort[i].id
                        /\ replyPort'[u] = NoAnswer
    BY Zenon, <1>1 DEF Waiting
  <2>1. aitmPort[i].from \in AppThread /\ aitmPort[i].from # t
    BY <1>1, QueuedRequest DEF ASAPInv, Waiting
  <2> QED
    BY Zenon, <1>3, <2>1 DEF ASAPInv, Waiting
<1>7. Answered'
  BY Zenon, <1>3 DEF ASAPInv, Answered
<1> QED
  BY Zenon, <1>1, <1>4, <1>5, <1>6, <1>7
  DEF ASAPInv, Unique, Order, Cursor, Supervised, Sent

-----------------------------------------------------------------------------
(* The connection *)

\* What a step that leaves the queue and the threads alone preserves.
LEMMA QueueUnchanged ==
  ASSUME ASAPInv, UNCHANGED <<aitmPort, appThread, replyPort, calls>>
  PROVE  (Unique /\ Threads /\ Waiting /\ Answered)'
  BY DEF ASAPInv, Unique, Threads, Waiting, Answered

\* A connection that ends leaves no response to come.
LEMMA DisconnectInv ==
  ASSUME ASAPInv, UNCHANGED <<aitmPort, appThread, replyPort, calls>>,
         lastAITM' = 0, toRegistrar' = <<>>, fromRegistrar' = <<>>, cursor' = 0
  PROVE  ASAPInv'
<1>1. Types'
  BY DEF ASAPInv, Types
<1>2. Order' /\ Cursor' /\ Supervised'
  BY DEF Order, Cursor, Supervised, Sent
<1> QED
  BY <1>1, <1>2, QueueUnchanged DEF ASAPInv

LEMMA ConnectionEndsInv ==
  ASSUME ASAPInv,
         ConnectionLost \/ KeepAliveFromNewHome \/ HandleRegistrarTimeout
  PROVE  ASAPInv'
<1>1. mainLoop \in {"block", "pass"} /\ cursor = 0 /\ cursor' = cursor
  BY Zenon DEF ConnectionLost, KeepAliveFromNewHome, HandleRegistrarTimeout, ASAPInv, Cursor
<1>2. UNCHANGED <<aitmPort, appThread, replyPort, calls>>
  BY DEF ConnectionLost, KeepAliveFromNewHome, HandleRegistrarTimeout, appVars
<1>3. CASE lastAITM' = 0 /\ toRegistrar' = <<>> /\ fromRegistrar' = <<>>
  BY Zenon, <1>1, <1>2, <1>3, DisconnectInv
<1>4. CASE lastAITM = 0 /\ UNCHANGED connectionVars
  BY <1>1, <1>2, <1>4, QueueUnchanged
  DEF ASAPInv, Types, Order, Cursor, Supervised, Sent, connectionVars
<1> QED
  BY Zenon, <1>3, <1>4
  DEF ConnectionLost, KeepAliveFromNewHome, HandleRegistrarTimeout, Disconnect

\* The registrar responds in the order of the requests.
LEMMA RegistrarAnswersInv ==
  ASSUME ASAPInv, RegistrarAnswers
  PROVE  ASAPInv'
<1> DEFINE m == Len(fromRegistrar)
           n == Len(toRegistrar)
<1>1. PICK error \in {"okay", "reject", "unusable", "garbage"} :
        fromRegistrar' = Append(fromRegistrar, Answer(Head(toRegistrar), error))
  BY DEF RegistrarAnswers
<1>2. /\ toRegistrar # <<>> /\ toRegistrar' = Tail(toRegistrar)
      /\ UNCHANGED <<aitmPort, appThread, replyPort, calls, lastAITM, cursor, mainLoop,
                     registrarFD, responseTimer, unscheduled>>
  BY DEF RegistrarAnswers, appVars
<1>3. /\ toRegistrar' \in Seq(Id) /\ Len(toRegistrar') = n - 1
      /\ \A i \in 1 .. n - 1 : toRegistrar'[i] = toRegistrar[i + 1]
      /\ Head(toRegistrar) \in Id /\ Head(toRegistrar) = toRegistrar[1]
      /\ n \in Nat \ {0} /\ m \in Nat
  BY <1>2 DEF ASAPInv, Types
<1> DEFINE a == Answer(Head(toRegistrar), error)
<1>4. a \in AnswerType /\ a.request = toRegistrar[1]
  BY Zenon, <1>3 DEF Answer, AnswerType
<1> HIDE DEF a
<1>5. /\ fromRegistrar' \in Seq(AnswerType) /\ Len(fromRegistrar') = m + 1
      /\ \A i \in 1 .. m : fromRegistrar'[i] = fromRegistrar[i]
      /\ fromRegistrar'[m + 1] = a
  BY <1>1, <1>4 DEF ASAPInv, Types, a
<1>6. Types'
  BY <1>2, <1>3, <1>5 DEF ASAPInv, Types
<1>7. Sent' = Sent
  BY <1>3, <1>5 DEF Sent
<1>8. Order'
  <2>1. \A i \in 1 .. m + 1 : fromRegistrar'[i].request = aitmPort[i].id
    <3>1. \A i \in 1 .. m : fromRegistrar'[i].request = aitmPort[i].id
      BY <1>5 DEF ASAPInv, Order
    <3>2. toRegistrar[1] = aitmPort[m + 1].id
      BY <1>3 DEF ASAPInv, Order
    <3>3. fromRegistrar'[m + 1].request = aitmPort[m + 1].id
      BY <1>4, <1>5, <3>2
    <3>4. m \in Nat
      BY <1>3
    <3> HIDE DEF m
    <3>5. \A i \in 1 .. m + 1 : i \in 1 .. m \/ i = m + 1
      BY <3>4
    <3> QED
      BY <3>1, <3>3, <3>5
  <2>2. \A i \in 1 .. n - 1 : toRegistrar'[i] = aitmPort[m + 1 + i].id
    BY <1>3 DEF ASAPInv, Order
  <2> QED
    BY <1>2, <1>3, <1>5, <1>7, <2>1, <2>2 DEF ASAPInv, Order
<1>9. Cursor' /\ Supervised'
  BY Zenon, <1>2, <1>7 DEF ASAPInv, Cursor, Supervised
<1> QED
  BY <1>2, <1>6, <1>8, <1>9, QueueUnchanged DEF ASAPInv

-----------------------------------------------------------------------------
(* The queue *)

\* The k-th request leaves the queue.
Removes(k) ==
  /\ aitmPort' \in Seq(AITM)
  /\ Len(aitmPort') = Len(aitmPort) - 1
  /\ \A i \in 1 .. Len(aitmPort) - 1 :
       aitmPort'[i] = IF i < k THEN aitmPort[i] ELSE aitmPort[i + 1]

\* A request leaves the queue with an answer to its thread, or without one.
LEMMA RequestRemoved ==
  ASSUME ASAPInv, NEW k \in DOMAIN aitmPort, Removes(k),
         NEW answer \in AnswerType, answer # NoAnswer,
         answer.request \in {0, aitmPort[k].id},
         ReplyTo(aitmPort[k], answer) \/ UNCHANGED replyPort,
         UNCHANGED <<appThread, calls>>
  PROVE  /\ replyPort' \in [AppThread -> AnswerType]
         /\ (Unique /\ Threads /\ Waiting /\ Answered)'
<1> DEFINE Old(i) == IF i < k THEN i ELSE i + 1
           u == aitmPort[k].from
<1>1. /\ Len(aitmPort) \in Nat /\ DOMAIN aitmPort = 1 .. Len(aitmPort)
      /\ DOMAIN aitmPort' = 1 .. Len(aitmPort) - 1
  BY DEF ASAPInv, Types, Removes
<1>2. \A i \in DOMAIN aitmPort' : Old(i) \in DOMAIN aitmPort /\ Old(i) # k
  BY <1>1
<1>3. \A i, j \in DOMAIN aitmPort' : Old(i) = Old(j) => i = j
  BY <1>1
<1>4. \A i \in DOMAIN aitmPort' : aitmPort'[i] = aitmPort[Old(i)]
  BY Zenon, <1>1 DEF Removes
<1> HIDE DEF Old
<1>5. Unique'
  BY ZenonT(40), <1>2, <1>3, <1>4 DEF ASAPInv, Unique
<1>6. Threads'
  BY <1>2, <1>4 DEF ASAPInv, Threads
<1>7. u \in AppThread
  BY QueuedRequest DEF ASAPInv
<1>8. /\ replyPort' \in [AppThread -> AnswerType]
      /\ \A t \in AppThread : replyPort'[t] = replyPort[t]
                              \/ (t = u /\ aitmPort[k].wait /\ replyPort'[t] = answer)
  BY <1>7 DEF ReplyTo, ASAPInv, Types
<1>9. Waiting'
  <2> SUFFICES ASSUME NEW i \in DOMAIN aitmPort', aitmPort'[i].wait
               PROVE  LET t == aitmPort'[i].from IN
                        /\ appThread[t] # Idle
                        /\ appThread[t].at # "enqueue"
                        /\ appThread[t].aitm.wait
                        /\ appThread[t].aitm.id = aitmPort'[i].id
                        /\ replyPort'[t] = NoAnswer
    BY Zenon DEF Waiting
  <2>1. PICK j \in DOMAIN aitmPort : j # k /\ aitmPort'[i] = aitmPort[j]
    BY Zenon, <1>2, <1>4
  <2>2. aitmPort[j].from \in AppThread
    BY Zenon, QueuedRequest DEF ASAPInv
  <2>3. aitmPort[j].id # aitmPort[k].id
    BY Zenon, <2>1 DEF ASAPInv, Unique
  <2>4. aitmPort[k].wait => aitmPort[j].from # u
    BY ZenonT(40), <2>1, <2>3 DEF ASAPInv, Waiting
  <2>5. replyPort'[aitmPort[j].from] = replyPort[aitmPort[j].from]
    BY Zenon, <1>8, <2>2, <2>4
  <2> QED
    BY Zenon, <2>1, <2>5 DEF ASAPInv, Waiting
<1>10. Answered'
  <2> SUFFICES ASSUME NEW t \in AppThread, replyPort'[t] # NoAnswer
               PROVE  /\ appThread[t] # Idle
                      /\ appThread[t].at # "enqueue"
                      /\ appThread[t].aitm.wait
                      /\ replyPort'[t].request \in {0, appThread[t].aitm.id}
    BY Zenon DEF Answered
  <2>1. CASE replyPort'[t] = replyPort[t]
    BY Zenon, <2>1 DEF ASAPInv, Answered
  <2>2. CASE t = u /\ aitmPort[k].wait /\ replyPort'[t] = answer
    BY <2>2 DEF ASAPInv, Waiting
  <2> QED
    BY Zenon, <1>8, <2>1, <2>2
<1> QED
  BY Zenon, <1>5, <1>6, <1>8, <1>9, <1>10

\* The response that comes is the one to the first request.
LEMMA HandleResponseInv ==
  ASSUME ASAPInv, HandleResponse
  PROVE  ASAPInv'
<1> DEFINE response == Head(fromRegistrar)
           m == Len(fromRegistrar)
           n == Len(toRegistrar)
<1>1. /\ mainLoop \in {"block", "pass"} /\ fromRegistrar # <<>>
      /\ mainLoop' = "pass"
      /\ UNCHANGED <<cursor, unscheduled, appThread, calls>>
  BY DEF HandleResponse, appVars
<1>2. cursor = 0
  BY <1>1 DEF ASAPInv, Cursor
<1>3. /\ m \in Nat \ {0} /\ n \in Nat /\ Sent = m + n
      /\ response \in AnswerType /\ response = fromRegistrar[1]
      /\ Tail(fromRegistrar) \in Seq(AnswerType) /\ Len(Tail(fromRegistrar)) = m - 1
      /\ \A i \in 1 .. m - 1 : Tail(fromRegistrar)[i] = fromRegistrar[i + 1]
  BY <1>1 DEF ASAPInv, Types, Sent
<1>4. /\ lastAITM # 0 /\ Sent \in DOMAIN aitmPort /\ aitmPort[Sent].id = lastAITM
      /\ registrarFD
  BY <1>3 DEF ASAPInv, Order
<1>5. /\ Len(aitmPort) \in Nat /\ DOMAIN aitmPort = 1 .. Len(aitmPort)
      /\ 1 \in DOMAIN aitmPort /\ aitmPort # <<>>
  BY <1>3, <1>4 DEF ASAPInv, Types
<1>6. response.request = aitmPort[1].id /\ aitmPort[1].id # 0
  BY <1>3, <1>5, QueuedRequest DEF ASAPInv, Order, Id
<1>7. response # NoAnswer
  BY <1>6 DEF NoAnswer, Answer
<1>8. /\ aitmPort' = Tail(aitmPort) /\ Head(aitmPort) = aitmPort[1]
      /\ ReplyTo(aitmPort[1], response)
  <2>1. Head(aitmPort) = aitmPort[1]
    BY <1>5 DEF ASAPInv, Types
  <2> QED
    BY <1>5, <2>1 DEF HandleResponse
<1>9. Removes(1)
  BY <1>5, <1>8 DEF ASAPInv, Types, Removes
<1> HIDE DEF response
<1>10. /\ replyPort' \in [AppThread -> AnswerType]
       /\ (Unique /\ Threads /\ Waiting /\ Answered)'
  BY <1>1, <1>3, <1>5, <1>6, <1>7, <1>8, <1>9, RequestRemoved
<1>11. CASE Disconnect
  <2>1. Types'
    BY <1>1, <1>9, <1>10, <1>11 DEF ASAPInv, Types, Disconnect, Removes
  <2>2. Order' /\ Cursor' /\ Supervised'
    BY <1>1, <1>2, <1>11 DEF Order, Cursor, Supervised, Disconnect, Sent
  <2> QED
    BY Zenon, <1>10, <2>1, <2>2 DEF ASAPInv
<1>12. CASE /\ lastAITM' = IF lastAITM = aitmPort[1].id THEN 0 ELSE lastAITM
            /\ responseTimer' = TimerFor(lastAITM')
            /\ fromRegistrar' = Tail(fromRegistrar)
            /\ UNCHANGED <<registrarFD, toRegistrar>>
  <2>1. lastAITM = aitmPort[1].id <=> Sent = 1
    BY Zenon, <1>4, <1>5 DEF ASAPInv, Unique
  <2>2. Types'
    BY Zenon, <1>1, <1>3, <1>9, <1>10, <1>12 DEF ASAPInv, Types, Removes
  <2>3. /\ Len(fromRegistrar') = m - 1 /\ Len(toRegistrar') = n
        /\ Sent' = Sent - 1
    BY <1>3, <1>12 DEF Sent
  <2>4. Len(aitmPort') = Len(aitmPort) - 1 /\ DOMAIN aitmPort' = 1 .. Len(aitmPort) - 1
    BY <1>5, <1>9 DEF Removes
  <2>5. \A i \in 1 .. Len(aitmPort) - 1 : aitmPort'[i] = aitmPort[i + 1]
    BY <1>5, <1>9 DEF Removes
  <2>6. lastAITM' = 0 => Sent' = 0
    BY <1>3, <1>4, <1>12, <2>1, <2>3
  <2>7. lastAITM' # 0 =>
          registrarFD' /\ Sent' \in DOMAIN aitmPort' /\ aitmPort'[Sent'].id = lastAITM'
    BY <1>3, <1>4, <1>5, <1>12, <2>1, <2>3, <2>4, <2>5
  <2>8. \A i \in 1 .. m - 1 : fromRegistrar'[i].request = aitmPort'[i].id
    <3> TAKE i \in 1 .. m - 1
    <3>1. i + 1 \in 1 .. m /\ i \in 1 .. Len(aitmPort) - 1
      BY <1>3, <1>4, <1>5
    <3> QED
      BY Zenon, <1>3, <1>12, <2>5, <3>1 DEF ASAPInv, Order
  <2>9. \A i \in 1 .. n : toRegistrar'[i] = aitmPort'[(m - 1) + i].id
    <3> TAKE i \in 1 .. n
    <3>1. (m - 1) + i \in 1 .. Len(aitmPort) - 1 /\ (m - 1) + i + 1 = m + i
      BY <1>3, <1>4, <1>5
    <3>2. aitmPort'[(m - 1) + i] = aitmPort[m + i]
      BY Zenon, <2>5, <3>1
    <3> QED
      BY <1>12, <3>2 DEF ASAPInv, Order
  <2>10. Order'
    BY Zenon, <2>3, <2>6, <2>7, <2>8, <2>9 DEF Order
  <2>11. Cursor' /\ Supervised'
    BY Zenon, <1>1, <1>2, <1>12 DEF Cursor, Supervised, TimerFor
  <2> QED
    BY <1>10, <2>2, <2>10, <2>11 DEF ASAPInv
<1> QED
  BY Zenon, <1>8, <1>11, <1>12 DEF HandleResponse

-----------------------------------------------------------------------------
(* The main loop *)

LEMMA PollInv ==
  ASSUME ASAPInv, Poll
  PROVE  ASAPInv'
<1>1. mainLoop = "poll" /\ cursor = 0 /\ cursor' = 0
  BY DEF Poll, ASAPInv, Cursor
<1>2. UNCHANGED <<appThread, replyPort, calls, unscheduled>>
  BY DEF Poll, appVars
<1>3. CASE shutdown
  <2>1. /\ aitmPort' = <<>> /\ lastAITM' = 0
        /\ toRegistrar' = <<>> /\ fromRegistrar' = <<>>
    BY <1>3 DEF Poll, Disconnect
  <2>2. Types'
    <3>1. <<>> \in Seq(AITM) /\ <<>> \in Seq(Id) /\ <<>> \in Seq(AnswerType)
      OBVIOUS
    <3> QED
      BY Zenon, <1>1, <1>2, <2>1, <3>1 DEF ASAPInv, Types
  <2>3. (Unique /\ Threads /\ Waiting /\ Answered)'
    BY <1>2, <2>1 DEF ASAPInv, Unique, Threads, Waiting, Answered
  <2>4. (Order /\ Cursor /\ Supervised)'
    BY <1>1, <2>1 DEF Order, Cursor, Supervised, Sent
  <2> QED
    BY <2>2, <2>3, <2>4 DEF ASAPInv
<1>4. CASE ~shutdown
  <2>1. UNCHANGED <<aitmPort, lastAITM, toRegistrar, fromRegistrar, registrarFD,
                    responseTimer>>
    BY Zenon, <1>4 DEF Poll, connectionVars
  <2> QED
    BY Zenon, <1>1, <1>2, <2>1, QueueUnchanged
    DEF ASAPInv, Types, Order, Cursor, Supervised, Sent
<1> QED
  BY <1>3, <1>4

\* The first request that has not been sent is the one behind LastAITM.
LEMMA NextAITMInv ==
  ASSUME ASAPInv, NextAITM
  PROVE  ASAPInv'
<1>1. /\ mainLoop = "pass" /\ mainLoop' \in {"hunt", "send"}
      /\ UNCHANGED <<aitmPort, appThread, replyPort, calls, lastAITM, registrarFD,
                     responseTimer, toRegistrar, fromRegistrar, unscheduled>>
  BY DEF NextAITM, connectionVars, appVars
<1>2. cursor' = IF Sent + 1 \in DOMAIN aitmPort THEN aitmPort[Sent + 1].id ELSE 0
  <2>1. CASE lastAITM = 0
    BY <2>1 DEF NextAITM, ASAPInv, Order
  <2>2. CASE lastAITM # 0
    <3>1. PositionOf(lastAITM) = Sent
      BY Zenon, <2>2, PositionOfRequest DEF ASAPInv, Order
    <3> QED
      BY Zenon, <2>2, <3>1 DEF NextAITM
  <2> QED
    BY Zenon, <2>1, <2>2
<1>3. Types'
  BY Zenon, <1>1, <1>2, QueuedRequest DEF ASAPInv, Types
<1>4. Order' /\ Supervised' /\ Sent' = Sent
  BY Zenon, <1>1 DEF ASAPInv, Order, Supervised, Sent
<1>5. Cursor'
  BY Zenon, <1>1, <1>2, <1>4 DEF Cursor
<1> QED
  BY Zenon, <1>1, <1>3, <1>4, <1>5, QueueUnchanged DEF ASAPInv

LEMMA ConnectToRegistrarInv ==
  ASSUME ASAPInv, ConnectToRegistrar
  PROVE  ASAPInv'
<1>1. /\ mainLoop = "hunt" /\ mainLoop' = "send"
      /\ registrarFD' = TRUE \/ registrarFD' = registrarFD
      /\ UNCHANGED <<aitmPort, appThread, replyPort, calls, lastAITM, cursor,
                     responseTimer, toRegistrar, fromRegistrar, unscheduled>>
  BY Zenon DEF ConnectToRegistrar, appVars
<1>2. Types' /\ Order' /\ Cursor' /\ Supervised'
  BY Zenon, <1>1 DEF ASAPInv, Types, Order, Cursor, Supervised, Sent
<1> QED
  BY <1>1, <1>2, QueueUnchanged DEF ASAPInv

LEMMA ScheduleTimeoutInv ==
  ASSUME ASAPInv, ScheduleTimeout
  PROVE  ASAPInv'
<1>1. /\ cursor = 0 /\ responseTimer' = (responseTimer \/ unscheduled)
      /\ UNCHANGED <<aitmPort, appThread, replyPort, calls, lastAITM, cursor,
                     registrarFD, toRegistrar, fromRegistrar>>
  BY Zenon DEF ScheduleTimeout, appVars
<1>2. Types' /\ Order' /\ Cursor'
  <2>1. Types'
    BY Zenon, <1>1 DEF ASAPInv, Types
  <2>2. Order'
    BY Zenon, <1>1 DEF ASAPInv, Order, Sent
  <2>3. Cursor'
    BY Zenon, <1>1 DEF ASAPInv, Cursor
  <2> QED
    BY Zenon, <2>1, <2>2, <2>3
<1>3. Supervised'
  BY Zenon, <1>1 DEF ASAPInv, Supervised
<1> QED
  BY <1>1, <1>2, <1>3, QueueUnchanged DEF ASAPInv

\* A step that changes neither the queue nor the connection.
LEMMA PipeInv ==
  ASSUME ASAPInv, ASAPDelete \/ ReadPipe
  PROVE  ASAPInv'
<1>1. UNCHANGED <<aitmPort, appThread, replyPort, calls, lastAITM, cursor, registrarFD,
                  responseTimer, toRegistrar, fromRegistrar, unscheduled>>
  BY DEF ASAPDelete, ReadPipe, mainVars, connectionVars, appVars
<1>2. mainLoop' = mainLoop \/ (mainLoop \in {"block", "pass"} /\ mainLoop' = "pass")
  BY Zenon DEF ASAPDelete, ReadPipe, mainVars
<1>3. Types' /\ Order' /\ Cursor' /\ Supervised'
  BY Zenon, <1>1, <1>2 DEF ASAPInv, Types, Order, Cursor, Supervised, Sent
<1> QED
  BY <1>1, <1>3, QueueUnchanged DEF ASAPInv

\* The request at the cursor is behind those that have been sent.
LEMMA AtCursor ==
  ASSUME ASAPInv, PortLocked
  PROVE  /\ PositionOf(cursor) \in DOMAIN aitmPort
         /\ aitmPort[PositionOf(cursor)].id = cursor
         /\ Sent \in Nat /\ Sent < PositionOf(cursor)
         /\ registrarFD => PositionOf(cursor) = Sent + 1
         /\ Len(aitmPort) \in Nat /\ DOMAIN aitmPort = 1 .. Len(aitmPort)
<1>1. PICK k \in DOMAIN aitmPort : aitmPort[k].id = cursor
  BY DEF PortLocked, ASAPInv, Cursor
<1>2. PositionOf(cursor) = k
  BY <1>1, PositionOfRequest DEF ASAPInv
<1>3. Sent \in Nat /\ Len(aitmPort) \in Nat /\ DOMAIN aitmPort = 1 .. Len(aitmPort)
  BY DEF ASAPInv, Types, Sent
<1>4. CASE registrarFD
  <2>1. Sent + 1 \in DOMAIN aitmPort /\ aitmPort[Sent + 1].id = cursor
    BY <1>4 DEF PortLocked, ASAPInv, Cursor
  <2>2. k = Sent + 1
    BY <1>1, <2>1 DEF ASAPInv, Unique
  <2> QED
    BY <1>1, <1>2, <1>3, <2>2
<1>5. CASE ~registrarFD
  <2>1. Sent = 0
    BY Zenon, <1>5 DEF ASAPInv, Order
  <2> QED
    BY <1>1, <1>2, <1>3, <1>5, <2>1
<1> QED
  BY <1>4, <1>5

\* What the trial of a request leaves as it was.
LEMMA CountTrialProperties ==
  ASSUME ASAPInv, PortLocked, CountTrial
  PROVE  /\ aitmPort' \in Seq(AITM)
         /\ Len(aitmPort') = Len(aitmPort)
         /\ DOMAIN aitmPort' = DOMAIN aitmPort
         /\ \A i \in DOMAIN aitmPort : /\ aitmPort'[i].id = aitmPort[i].id
                                       /\ aitmPort'[i].wait = aitmPort[i].wait
                                       /\ aitmPort'[i].from = aitmPort[i].from
<1> DEFINE k == PositionOf(cursor)
           tried == [aitmPort[k] EXCEPT !.trials = @ + 1]
<1>1. k \in 1 .. Len(aitmPort) /\ DOMAIN aitmPort = 1 .. Len(aitmPort)
  BY Zenon, AtCursor
<1>2. aitmPort[k] \in AITM /\ aitmPort[k].trials \in Nat
  BY <1>1, QueuedRequest DEF ASAPInv
<1>3. /\ tried \in AITM /\ tried.id = aitmPort[k].id /\ tried.wait = aitmPort[k].wait
      /\ tried.from = aitmPort[k].from
  BY <1>2 DEF AITM
<1>4. aitmPort' = [aitmPort EXCEPT ![k] = tried]
  BY Zenon DEF CountTrial
<1> HIDE DEF k, tried
<1>5. /\ aitmPort' \in Seq(AITM) /\ Len(aitmPort') = Len(aitmPort)
      /\ \A i \in 1 .. Len(aitmPort) :
           aitmPort'[i] = IF i = k THEN tried ELSE aitmPort[i]
  BY <1>1, <1>3, <1>4 DEF ASAPInv, Types
<1>6. DOMAIN aitmPort' = DOMAIN aitmPort
  BY <1>1, <1>4
<1> QED
  BY <1>1, <1>3, <1>5, <1>6

LEMMA CountTrialInv ==
  ASSUME ASAPInv, PortLocked, CountTrial, UNCHANGED <<appThread, replyPort, calls>>
  PROVE  (Unique /\ Threads /\ Waiting /\ Answered)'
<1>1. /\ DOMAIN aitmPort' = DOMAIN aitmPort
      /\ \A i \in DOMAIN aitmPort : /\ aitmPort'[i].id = aitmPort[i].id
                                    /\ aitmPort'[i].wait = aitmPort[i].wait
                                    /\ aitmPort'[i].from = aitmPort[i].from
  BY Zenon, CountTrialProperties
<1>2. Unique'
  BY Zenon, <1>1 DEF ASAPInv, Unique
<1>3. Threads'
  <2>1. Threads
    BY Zenon DEF ASAPInv
  <2>2. \A i \in DOMAIN aitmPort' : aitmPort'[i].id <= calls'
    BY Zenon, <1>1, <2>1 DEF Threads
  <2>3. ASSUME NEW t \in AppThread, appThread'[t] # Idle
        PROVE  /\ appThread'[t].aitm.from = t
               /\ appThread'[t].aitm.id <= calls'
               /\ appThread'[t].at = "enqueue" =>
                    \A i \in DOMAIN aitmPort' : aitmPort'[i].id # appThread'[t].aitm.id
    <3>1. appThread'[t] = appThread[t] /\ calls' = calls
      BY Zenon
    <3>2. /\ appThread[t].aitm.from = t /\ appThread[t].aitm.id <= calls
          /\ appThread[t].at = "enqueue" =>
               \A i \in DOMAIN aitmPort : aitmPort[i].id # appThread[t].aitm.id
      BY Zenon, <2>1, <2>3, <3>1 DEF Threads
    <3>3. appThread[t].at = "enqueue" =>
            \A i \in DOMAIN aitmPort : aitmPort'[i].id # appThread[t].aitm.id
      BY Zenon, <1>1, <3>2
    <3> QED
      BY Zenon, <1>1, <3>1, <3>2, <3>3
  <2>4. \A t, u \in AppThread :
          appThread'[t] # Idle /\ appThread'[u] # Idle
            /\ appThread'[t].aitm.id = appThread'[u].aitm.id => t = u
    BY Zenon, <2>1 DEF Threads
  <2> QED
    BY Zenon, <2>2, <2>3, <2>4 DEF Threads
<1>4. Waiting'
  BY ZenonT(40), <1>1 DEF ASAPInv, Waiting
<1>5. Answered'
  BY Zenon DEF ASAPInv, Answered
<1> QED
  BY Zenon, <1>2, <1>3, <1>4, <1>5

\* The request behind the one at the cursor, or none.
LEMMA NextCursorProperties ==
  ASSUME ASAPInv, PortLocked, NEW k, k = PositionOf(cursor)
  PROVE  /\ NextCursor \in Id \cup {0}
         /\ NextCursor # 0 => k + 1 \in DOMAIN aitmPort /\ aitmPort[k + 1].id = NextCursor
  BY Zenon, AtCursor, QueuedRequest DEF ASAPInv, NextCursor

\* A request that leaves the queue at the cursor does not move those that have been
\* sent, and its successor takes its place.
LEMMA RemovedAtCursor ==
  ASSUME ASAPInv, PortLocked, aitmPort' = RemNode(aitmPort, PositionOf(cursor)),
         cursor' = NextCursor,
         UNCHANGED <<lastAITM, registrarFD, toRegistrar, fromRegistrar, mainLoop>>
  PROVE  /\ Removes(PositionOf(cursor))
         /\ cursor' \in Id \cup {0}
         /\ Order' /\ Cursor'
<1> DEFINE k == PositionOf(cursor)
<1>1. /\ k \in 1 .. Len(aitmPort) /\ Sent \in Nat /\ Sent < k
      /\ registrarFD => k = Sent + 1
      /\ Len(aitmPort) \in Nat /\ DOMAIN aitmPort = 1 .. Len(aitmPort)
  BY Zenon, AtCursor
<1>2. Removes(k)
  BY Zenon, <1>1, RemNodeProperties DEF ASAPInv, Types, Removes
<1>3. /\ cursor' \in Id \cup {0}
      /\ cursor' # 0 => k + 1 \in DOMAIN aitmPort /\ aitmPort[k + 1].id = cursor'
  BY NextCursorProperties
<1> HIDE DEF k
<1>4. Sent' = Sent
  BY Zenon DEF Sent
<1>5. DOMAIN aitmPort' = 1 .. Len(aitmPort) - 1
  BY <1>1, <1>2 DEF Removes
<1>6. \A i \in 1 .. Sent : aitmPort'[i] = aitmPort[i]
  BY <1>1, <1>2 DEF Removes
<1>7. Order'
  <2>1. lastAITM' # 0 =>
          registrarFD' /\ Sent' \in DOMAIN aitmPort' /\ aitmPort'[Sent'].id = lastAITM'
    BY <1>1, <1>4, <1>5, <1>6 DEF ASAPInv, Order
  <2>2. \A i \in 1 .. Len(fromRegistrar) : fromRegistrar[i].request = aitmPort'[i].id
    BY <1>6 DEF ASAPInv, Types, Order, Sent
  <2>3. \A i \in 1 .. Len(toRegistrar) :
          toRegistrar[i] = aitmPort'[Len(fromRegistrar) + i].id
    <3> TAKE i \in 1 .. Len(toRegistrar)
    <3>1. Len(fromRegistrar) + i \in 1 .. Sent
      BY DEF ASAPInv, Types, Sent
    <3> QED
      BY Zenon, <1>6, <3>1 DEF ASAPInv, Order
  <2> QED
    BY Zenon, <1>4, <2>1, <2>2, <2>3 DEF ASAPInv, Order
<1>8. Cursor'
  <2>1. cursor' # 0 => k \in DOMAIN aitmPort' /\ aitmPort'[k].id = cursor'
    BY <1>1, <1>2, <1>3, <1>5 DEF Removes
  <2>2. mainLoop = "send" /\ mainLoop' = "send"
    BY DEF PortLocked
  <2> QED
    BY <1>1, <1>4, <2>1, <2>2 DEF Cursor
<1> QED
  BY Zenon, <1>2, <1>3, <1>7, <1>8 DEF k

LEMMA GiveUpAITMInv ==
  ASSUME ASAPInv, GiveUpAITM
  PROVE  ASAPInv'
<1> DEFINE k == PositionOf(cursor)
           answer == Answer(0, IF registrarFD THEN "timeout" ELSE "no registrar")
<1>1. /\ PortLocked /\ aitmPort' = RemNode(aitmPort, k) /\ cursor' = NextCursor
      /\ ReplyTo(aitmPort[k], answer)
      /\ UNCHANGED <<appThread, calls, lastAITM, registrarFD, responseTimer, toRegistrar,
                     fromRegistrar, unscheduled, mainLoop>>
  BY Zenon DEF GiveUpAITM, QueuedAITM, connectionVars, appVars
<1>2. answer \in AnswerType /\ answer # NoAnswer /\ answer.request = 0
  BY Zenon DEF Answer, AnswerType, NoAnswer
<1> HIDE DEF answer
<1>3. k \in DOMAIN aitmPort
  BY Zenon, <1>1, AtCursor
<1>4. Removes(k) /\ cursor' \in Id \cup {0} /\ Order' /\ Cursor'
  BY Zenon, <1>1, RemovedAtCursor
<1> HIDE DEF k
<1>5. /\ replyPort' \in [AppThread -> AnswerType]
      /\ (Unique /\ Threads /\ Waiting /\ Answered)'
  BY Zenon, <1>1, <1>2, <1>3, <1>4, RequestRemoved
<1>6. Types'
  BY Zenon, <1>1, <1>4, <1>5 DEF ASAPInv, Types, Removes
<1>7. Supervised'
  BY Zenon, <1>1 DEF ASAPInv, Supervised
<1> QED
  BY Zenon, <1>4, <1>5, <1>6, <1>7 DEF ASAPInv

LEMMA KeepAITMInv ==
  ASSUME ASAPInv, KeepAITM
  PROVE  ASAPInv'
<1>1. /\ PortLocked /\ ~registrarFD /\ CountTrial /\ cursor' = NextCursor
      /\ UNCHANGED <<appThread, replyPort, calls, lastAITM, registrarFD, responseTimer,
                     toRegistrar, fromRegistrar, unscheduled, mainLoop>>
  BY DEF KeepAITM, connectionVars, appVars
<1>2. mainLoop = "send"
  BY Zenon, <1>1 DEF PortLocked
<1>3. /\ NextCursor \in Id \cup {0}
      /\ NextCursor # 0 => \E i \in DOMAIN aitmPort : aitmPort[i].id = NextCursor
  BY Zenon, <1>1, NextCursorProperties
<1>4. Types'
  BY Zenon, <1>1, <1>3, CountTrialProperties DEF ASAPInv, Types
<1>5. lastAITM = 0 /\ Sent = 0 /\ Len(fromRegistrar) = 0 /\ Len(toRegistrar) = 0
  BY <1>1 DEF ASAPInv, Types, Order, Sent
<1>6. Order' /\ Supervised'
  BY <1>1, <1>5 DEF Order, Sent, Supervised
<1>7. Cursor'
  BY Zenon, <1>1, <1>2, <1>3, CountTrialProperties DEF Cursor
<1> QED
  BY Zenon, <1>1, <1>4, <1>6, <1>7, CountTrialInv DEF ASAPInv

\* A request that is sent becomes LastAITM, the last one that is waited for.
LEMMA SendAITMInv ==
  ASSUME ASAPInv, SendAITM
  PROVE  ASAPInv'
<1> DEFINE n == Len(toRegistrar)
<1>1. /\ PortLocked /\ registrarFD /\ cursor' = NextCursor
      /\ UNCHANGED <<appThread, replyPort, calls, registrarFD, responseTimer,
                     fromRegistrar, mainLoop>>
  BY DEF SendAITM, appVars
<1>2. mainLoop = "send" /\ cursor \in Id
  BY <1>1 DEF PortLocked, ASAPInv, Types
<1>3. CASE /\ CountTrial /\ lastAITM' = cursor /\ unscheduled' = TRUE
           /\ toRegistrar' = Append(toRegistrar, cursor)
  <2>1. /\ toRegistrar' \in Seq(Id) /\ Len(toRegistrar') = n + 1
        /\ \A i \in 1 .. n : toRegistrar'[i] = toRegistrar[i]
        /\ toRegistrar'[n + 1] = cursor
    BY <1>2, <1>3 DEF ASAPInv, Types
  <2>2. /\ Len(fromRegistrar) \in Nat /\ n \in Nat
        /\ Sent = Len(fromRegistrar) + n /\ Sent' = Sent + 1
    BY <1>1, <2>1 DEF ASAPInv, Types, Sent
  <2>3. /\ Sent + 1 \in DOMAIN aitmPort /\ aitmPort[Sent + 1].id = cursor
        /\ PositionOf(cursor) = Sent + 1
        /\ Len(aitmPort) \in Nat /\ DOMAIN aitmPort = 1 .. Len(aitmPort)
    BY Zenon, <1>1, AtCursor
  <2>4. /\ NextCursor \in Id \cup {0}
        /\ NextCursor # 0 =>
             Sent + 2 \in DOMAIN aitmPort /\ aitmPort[Sent + 2].id = NextCursor
    BY <1>1, <2>2, <2>3, NextCursorProperties
  <2>5. /\ aitmPort' \in Seq(AITM) /\ DOMAIN aitmPort' = DOMAIN aitmPort
        /\ \A i \in DOMAIN aitmPort : aitmPort'[i].id = aitmPort[i].id
    BY Zenon, <1>1, <1>3, CountTrialProperties
  <2>6. Types'
    BY Zenon, <1>1, <1>2, <1>3, <2>1, <2>4, <2>5 DEF ASAPInv, Types
  <2>7. Order'
    <3>1. \A i \in 1 .. Len(fromRegistrar) : fromRegistrar[i].request = aitmPort'[i].id
      BY <2>2, <2>3, <2>5 DEF ASAPInv, Order
    <3>2. ASSUME NEW i \in 1 .. n + 1
          PROVE  toRegistrar'[i] = aitmPort'[Len(fromRegistrar) + i].id
      <4>1. CASE i = n + 1
        BY <2>1, <2>2, <2>3, <2>5, <4>1
      <4>2. CASE i # n + 1
        <5>1. i \in 1 .. n /\ Len(fromRegistrar) + i \in DOMAIN aitmPort
          BY <2>2, <2>3, <4>2
        <5> QED
          BY <2>1, <2>5, <5>1 DEF ASAPInv, Order
      <4> QED
        BY Zenon, <4>1, <4>2
    <3>3. registrarFD' /\ Sent' \in DOMAIN aitmPort' /\ aitmPort'[Sent'].id = lastAITM'
      BY <1>1, <1>3, <2>2, <2>3, <2>5
    <3>4. lastAITM' # 0
      BY <1>2, <1>3 DEF Id
    <3> QED
      BY Zenon, <1>1, <2>1, <3>1, <3>2, <3>3, <3>4 DEF Order
  <2>8. Cursor'
    <3>1. cursor' # 0 =>
            Sent' + 1 \in DOMAIN aitmPort' /\ aitmPort'[Sent' + 1].id = cursor'
      BY <1>1, <2>2, <2>4, <2>5
    <3> QED
      BY Zenon, <1>1, <1>2, <3>1 DEF Cursor
  <2>9. Supervised'
    BY Zenon, <1>1, <1>2, <1>3 DEF Supervised
  <2> QED
    BY <1>1, <1>3, <2>6, <2>7, <2>8, <2>9, CountTrialInv DEF ASAPInv
<1>4. CASE /\ aitmPort' = RemNode(aitmPort, PositionOf(cursor))
           /\ UNCHANGED <<lastAITM, toRegistrar, unscheduled>>
  <2>1. Removes(PositionOf(cursor)) /\ cursor' \in Id \cup {0} /\ Order' /\ Cursor'
    BY Zenon, <1>1, <1>4, RemovedAtCursor
  <2>2. Answer(0, "timeout") \in AnswerType /\ Answer(0, "timeout") # NoAnswer
        /\ Answer(0, "timeout").request = 0
    BY DEF Answer, AnswerType, NoAnswer
  <2>3. PositionOf(cursor) \in DOMAIN aitmPort
    BY Zenon, <1>1, AtCursor
  <2>4. (Unique /\ Threads /\ Waiting /\ Answered)'
    BY Zenon, <1>1, <2>1, <2>2, <2>3, RequestRemoved
  <2>5. Types'
    BY Zenon, <1>1, <1>4, <2>1 DEF ASAPInv, Types, Removes
  <2>6. Supervised'
    BY Zenon, <1>1, <1>4 DEF ASAPInv, Supervised
  <2> QED
    BY Zenon, <2>1, <2>4, <2>5, <2>6 DEF ASAPInv
<1> QED
  BY Zenon, <1>3, <1>4 DEF SendAITM

LEMMA SendFailsInv ==
  ASSUME ASAPInv, SendFails
  PROVE  ASAPInv'
<1>1. /\ PortLocked /\ CountTrial /\ cursor' = 0 /\ lastAITM' = 0
      /\ toRegistrar' = <<>> /\ fromRegistrar' = <<>>
      /\ UNCHANGED <<appThread, replyPort, calls>>
  BY Zenon DEF SendFails, Disconnect, appVars
<1>2. Types'
  <2>1. <<>> \in Seq(Id) /\ <<>> \in Seq(AnswerType)
    OBVIOUS
  <2>2. aitmPort' \in Seq(AITM)
    BY Zenon, <1>1, CountTrialProperties
  <2> QED
    BY Zenon, <1>1, <2>1, <2>2 DEF ASAPInv, Types
<1>3. (Order /\ Cursor /\ Supervised)'
  <2>1. Len(toRegistrar') = 0 /\ Len(fromRegistrar') = 0
    BY <1>1
  <2>2. Sent' = 0 /\ \A i \in 1 .. 0 : FALSE
    BY <2>1 DEF Sent
  <2> QED
    BY Zenon, <1>1, <2>1, <2>2 DEF Order, Cursor, Supervised
<1> QED
  BY Zenon, <1>1, <1>2, <1>3, CountTrialInv DEF ASAPInv

-----------------------------------------------------------------------------
(* Theorems *)

\* The invariant holds in every state of the ASAP instance.
THEOREM ASAPInvariant == ASAPSpec => []ASAPInv
<1>1. ASAPInit => ASAPInv
  BY InitInv
<1>2. ASAPInv /\ [ASAPNext]_asapVars => ASAPInv'
  <2> SUFFICES ASSUME ASAPInv, [ASAPNext]_asapVars PROVE ASAPInv'
    OBVIOUS
  <2>1. CASE \E t \in AppThread : Call(t)
    <3>1. PICK t \in AppThread : Call(t)
      BY <2>1
    <3>2. \E type \in RequestType, wait \in BOOLEAN : NewRequest(t, type, wait)
      BY Zenon, <3>1 DEF Call, ASAPRegister, ASAPDeregister, ASAPHandleResolution,
                  ASAPReportFailure, RequestType
    <3> QED
      BY <3>2, NewRequestInv
  <2>2. CASE \E t \in AppThread : ThreadStep(t)
    BY <2>2, BeginIOInv, NotifyMainLoopInv, WaitIOInv DEF ThreadStep
  <2>3. CASE MainLoop
    BY <2>3, HandleResponseInv, ConnectionEndsInv, PollInv, PipeInv, NextAITMInv,
       ConnectToRegistrarInv, GiveUpAITMInv, KeepAITMInv, SendAITMInv, SendFailsInv,
       ScheduleTimeoutInv DEF MainLoop
  <2>4. CASE ASAPDelete
    BY <2>4, PipeInv
  <2>5. CASE ConnectionLost \/ KeepAliveFromNewHome
    BY <2>5, ConnectionEndsInv
  <2>6. CASE RegistrarAnswers
    BY <2>6, RegistrarAnswersInv
  <2>7. CASE UNCHANGED asapVars
    BY Zenon, <2>7, QueueUnchanged
    DEF ASAPInv, Types, Order, Cursor, Supervised, Sent, asapVars, mainVars,
        connectionVars, appVars
  <2> QED
    BY <2>1, <2>2, <2>3, <2>4, <2>5, <2>6, <2>7 DEF ASAPNext
<1> QED
  BY <1>1, <1>2, PTL DEF ASAPSpec

\* A thread never gets the response to the request of another thread, or to an
\* earlier request of its own, however often requests are sent again
\* (asapInstanceHandleResponseFromRegistrar).
THEOREM OwnResponseAlways == ASAPSpec => []OwnResponse
<1>1. ASAPInv => OwnResponse
  <2> SUFFICES ASSUME ASAPInv, NEW t \in AppThread, replyPort[t].request # 0
               PROVE  /\ appThread[t].at # "idle"
                      /\ replyPort[t].request = appThread[t].aitm.id
    BY Zenon DEF OwnResponse
  <2>1. replyPort[t] # NoAnswer
    BY DEF NoAnswer, Answer
  <2>2. appThread[t] # Idle
    BY Zenon, <2>1 DEF ASAPInv, Answered
  <2>3. appThread[t].at # "idle"
    BY Zenon, <2>2 DEF ASAPInv, Types, ThreadState
  <2> QED
    BY <2>1, <2>3 DEF ASAPInv, Answered
<1> QED
  BY <1>1, ASAPInvariant, PTL

\* The responses to come belong to the first requests of the queue, in the order of
\* the queue and up to LastAITM.
THEOREM ResponsesInOrderAlways == ASAPSpec => []ResponsesInOrder
<1>1. ASAPInv => ResponsesInOrder
  <2> SUFFICES ASSUME ASAPInv PROVE ResponsesInOrder
    OBVIOUS
  <2> DEFINE m == Len(fromRegistrar)
             n == Len(toRegistrar)
             requests == [i \in DOMAIN fromRegistrar |-> fromRegistrar[i].request]
             queued == [i \in 1 .. m + n |-> aitmPort[i].id]
  <2>1. /\ m \in Nat /\ n \in Nat /\ DOMAIN fromRegistrar = 1 .. m
        /\ DOMAIN toRegistrar = 1 .. n /\ Sent = m + n
    BY DEF ASAPInv, Types, Sent
  <2>2. (IF lastAITM = 0 THEN 0 ELSE PositionOf(lastAITM)) = m + n
    <3>1. CASE lastAITM = 0
      BY <2>1, <3>1 DEF ASAPInv, Order
    <3>2. CASE lastAITM # 0
      BY Zenon, <2>1, <3>2, PositionOfRequest DEF ASAPInv, Order
    <3> QED
      BY <3>1, <3>2
  <2>3. requests \in Seq(Id \cup {0}) /\ Len(requests) = m /\ DOMAIN requests = 1 .. m
    <3>1. requests \in [1 .. m -> Id \cup {0}]
      <4>1. \A i \in 1 .. m : fromRegistrar[i] \in AnswerType
        BY <2>1 DEF ASAPInv, Types
      <4> QED
        BY Zenon, <2>1, <4>1 DEF AnswerType
    <3> QED
      BY <2>1, <3>1
  <2>4. toRegistrar \in Seq(Id \cup {0})
    <3>1. toRegistrar \in [1 .. n -> Id \cup {0}]
      BY <2>1 DEF ASAPInv, Types
    <3> QED
      BY <2>1, <3>1
  <2>5. /\ requests \o toRegistrar \in Seq(Id \cup {0})
        /\ Len(requests \o toRegistrar) = m + n
        /\ \A i \in 1 .. m + n : (requests \o toRegistrar)[i] =
                                   IF i <= m THEN requests[i] ELSE toRegistrar[i - m]
    BY <2>1, <2>3, <2>4
  <2>6. ASSUME NEW i \in 1 .. m + n PROVE (requests \o toRegistrar)[i] = aitmPort[i].id
    <3>1. CASE i <= m
      <4>1. i \in 1 .. m
        BY <2>1, <3>1
      <4> QED
        BY <2>1, <2>5, <3>1, <4>1 DEF ASAPInv, Order
    <3>2. CASE ~(i <= m)
      <4>1. i - m \in 1 .. n /\ m + (i - m) = i
        BY <2>1, <3>2
      <4>2. toRegistrar[i - m] = aitmPort[m + (i - m)].id
        BY Zenon, <4>1 DEF ASAPInv, Order
      <4> QED
        BY <2>5, <3>2, <4>1, <4>2
    <3> QED
      BY Zenon, <3>1, <3>2
  <2>7. DOMAIN (requests \o toRegistrar) = 1 .. m + n
    BY <2>5
  <2>8. requests \o toRegistrar = [i \in 1 .. m + n |-> (requests \o toRegistrar)[i]]
    BY <2>5, <2>7
  <2> HIDE DEF requests
  <2>9. queued = requests \o toRegistrar
    BY <2>6, <2>8
  <2> QED
    BY Zenon, <2>2, <2>9 DEF ResponsesInOrder, requests
<1> QED
  BY <1>1, ASAPInvariant, PTL

\* No response is waited for without the timer for it.
THEOREM ResponseSupervisedAlways == ASAPSpec => []ResponseSupervised
<1>1. ASAPInv => ResponseSupervised
  BY DEF ASAPInv, Supervised, ResponseSupervised
<1> QED
  BY <1>1, ASAPInvariant, PTL

-----------------------------------------------------------------------------
(* The dispatcher: events of descriptors *)

\* As long as the events of a poll are handled, an FD callback that is not fresh
\* is the one that was polled.
Polled ==
  /\ fdCallback \in [FD -> Nat]
  /\ created \in Nat
  /\ ready \subseteq FD
  /\ loop \in {"poll", "fds", "fdCallback"} =>
       \A fd \in FD : fdCallback[fd] # 0 /\ fd \notin fresh => fdCallback[fd] = ufds[fd]
  /\ loop = "fdCallback" => current.structure = ufds[current.fd]

\* FD callbacks and timers that come and go.
LEMMA ChangePolled ==
  ASSUME Polled, Change, UNCHANGED loopVars
  PROVE  Polled'
<1>1. UNCHANGED <<loop, ufds, ready, current>>
  BY Zenon DEF loopVars
<1>2. CASE \E fd \in FD : FDCallbackNew(fd)
  <2>1. PICK fd \in FD : FDCallbackNew(fd)
    BY Zenon, <1>2
  <2>2. /\ created' = created + 1 /\ fdCallback' = [fdCallback EXCEPT ![fd] = created + 1]
        /\ fresh' = fresh \cup {fd}
    BY Zenon, <2>1 DEF FDCallbackNew
  <2> QED
    BY <1>1, <2>2 DEF Polled
<1>3. CASE \E fd \in FD : FDCallbackDelete(fd)
  <2>1. PICK fd \in FD : FDCallbackDelete(fd)
    BY <1>3
  <2>2. /\ fdCallback' = [fdCallback EXCEPT ![fd] = 0] /\ fresh' = fresh \ {fd}
        /\ created' = created
    BY Zenon, <2>1 DEF FDCallbackDelete
  <2> QED
    BY Zenon, <1>1, <2>2 DEF Polled
<1>4. CASE UNCHANGED <<fdCallback, fresh, created>>
  BY <1>1, <1>4 DEF Polled
<1> QED
  BY <1>2, <1>3, <1>4 DEF Change, FDCallbackUpdate, TimerStart, TimerStop

\* No event is given to a callback that poll() was not called for
\* (dispatcherHandlePollResult).
THEOREM EventOfPolledCallbackAlways == DispatcherSpec => []EventOfPolledCallback
<1>1. DispatcherInit => Polled
  BY DEF DispatcherInit, Polled
<1>2. Polled /\ [DispatcherNext]_dispatcherVars => Polled'
  <2> SUFFICES ASSUME Polled, [DispatcherNext]_dispatcherVars PROVE Polled'
    OBVIOUS
  <2>1. CASE GetPollParameters
    BY Zenon, <2>1 DEF GetPollParameters, Polled
  <2>2. CASE HandlePollResult
    BY Zenon, <2>2 DEF HandlePollResult, Polled
  <2>3. CASE HandleFDEvent
    <3>1. /\ UNCHANGED <<fdCallback, fresh, created, ufds>> /\ loop = "fds"
      BY Zenon, <2>3 DEF HandleFDEvent, storage
    <3>2. PICK fd \in ready :
            /\ ready' = ready \ {fd}
            /\ IF PolledBefore(fd) /\ fd \notin muted
               THEN /\ loop' = "fdCallback"
                    /\ current' = [fd |-> fd, structure |-> fdCallback[fd]]
               ELSE UNCHANGED <<loop, current>>
      BY Zenon, <2>3 DEF HandleFDEvent
    <3>3. loop' = "fdCallback" => current'.structure = ufds[current'.fd]
      BY <3>1, <3>2 DEF Polled, PolledBefore
    <3> QED
      BY Zenon, <3>1, <3>2, <3>3 DEF Polled
  <2>4. CASE LookUpTimers
    BY Zenon, <2>4 DEF LookUpTimers, storage, Polled
  <2>5. CASE FDCallbackReturns
    BY Zenon, <2>5 DEF FDCallbackReturns, storage, Polled
  <2>6. CASE HandleTimer
    BY Zenon, <2>6 DEF HandleTimer, Polled
  <2>7. CASE TimerCallbackReturns
    BY Zenon, <2>7 DEF TimerCallbackReturns, storage, Polled
  <2>8. CASE TimePasses
    BY <2>8 DEF TimePasses, loopVars, Polled
  <2>9. CASE CallbackStep \/ ForeignStep
    BY Zenon, <2>9, ChangePolled DEF CallbackStep, ForeignStep
  <2>10. CASE UNCHANGED dispatcherVars
    BY Zenon, <2>10 DEF dispatcherVars, storage, loopVars, Polled
  <2> QED
    BY Zenon, <2>1, <2>2, <2>3, <2>4, <2>5, <2>6, <2>7, <2>8, <2>9, <2>10
    DEF DispatcherNext, EventLoop
<1>3. Polled => EventOfPolledCallback
  BY DEF Polled, EventOfPolledCallback
<1> QED
  BY <1>1, <1>2, <1>3, PTL DEF DispatcherSpec

-----------------------------------------------------------------------------
(* The reregistration of a pool element *)

\* The timer of a registered element is in the storage until its callback has been
\* called, and again when the callback is done.
Running ==
  /\ armed \subseteq Timer /\ due \in Seq(Timer)
  /\ ~InCallback => callback = "none"
  /\ element = "registered" /\ app \in {"idle", "restart"} /\ fault = "none" =>
       ReregistrationTimer \in Started \/ (InCallback /\ callback # "done")

\* A timer that is started is in the storage.
LEMMA TimerStartProperties ==
  ASSUME armed \subseteq Timer, due \in Seq(Timer),
         TimerStart(ReregistrationTimer) \/ TimerStartAtOnce(ReregistrationTimer)
  PROVE  /\ armed' \subseteq Timer /\ due' \in Seq(Timer)
         /\ ReregistrationTimer \in Started'
<1>1. CASE TimerStart(ReregistrationTimer)
  BY Zenon, <1>1, ReregistrationAssumption DEF TimerStart, Started
<1>2. CASE TimerStartAtOnce(ReregistrationTimer)
  <2>1. due' = <<ReregistrationTimer>> \o due /\ armed' = armed
    BY <1>2 DEF TimerStartAtOnce
  <2>2. <<ReregistrationTimer>> \in Seq(Timer) /\ Len(<<ReregistrationTimer>>) = 1
    BY ReregistrationAssumption
  <2>3. /\ due' \in Seq(Timer) /\ Len(due') = 1 + Len(due) /\ Len(due) \in Nat
        /\ due'[1] = ReregistrationTimer
    BY <2>1, <2>2, ReregistrationAssumption
  <2>4. 1 \in DOMAIN due'
    BY <2>3
  <2> QED
    BY Zenon, <2>1, <2>3, <2>4 DEF Started
<1> QED
  BY Zenon, <1>1, <1>2

LEMMA TimerStopProperties ==
  ASSUME armed \subseteq Timer, due \in Seq(Timer), NEW t \in Timer, TimerStop(t)
  PROVE  armed' \subseteq Timer /\ due' \in Seq(Timer)
<1>1. CASE \E i \in DOMAIN due : due' = RemNode(due, i)
  <2>1. PICK i \in DOMAIN due : due' = RemNode(due, i)
    BY <1>1
  <2>2. i \in 1 .. Len(due) /\ Len(due) \in Nat
    BY <2>1
  <2>3. SubSeq(due, 1, i - 1) \in Seq(Timer) /\ SubSeq(due, i + 1, Len(due)) \in Seq(Timer)
    <3>1. \A j \in 1 .. i - 1 : due[j] \in Timer
      BY <2>2
    <3>2. \A j \in i + 1 .. Len(due) : due[j] \in Timer
      BY <2>2
    <3> QED
      BY <2>2, <3>1, <3>2
  <2> QED
    BY <2>1, <2>3 DEF RemNode, TimerStop
<1> QED
  BY Zenon, <1>1 DEF TimerStop

\* What the application does with its pool element.
LEMMA ApplicationRunning ==
  ASSUME Running,
         \/ RegisterNew \/ StartReregistration \/ RegisterUpdate
         \/ RestartStop \/ RestartStart
         \/ DeleteTimer \/ DeregisterPE \/ FreeElement
  PROVE  Running'
<1>1. UNCHANGED <<loop, current, callback>> /\ (InCallback' <=> InCallback)
  BY Zenon DEF RegisterNew, StartReregistration, RegisterUpdate, RestartStop, RestartStart,
         DeleteTimer, DeregisterPE, FreeElement, AppStep, loopVars, InCallback
<1>2. CASE StartReregistration
  BY <1>1, <1>2, TimerStartProperties DEF StartReregistration, Running
<1>3. CASE RestartStop \/ DeleteTimer
  <2>1. armed' \subseteq Timer /\ due' \in Seq(Timer)
    BY Zenon, <1>3, TimerStopProperties, ReregistrationAssumption
    DEF RestartStop, DeleteTimer, Running
  <2>2. app' = "restarting" \/ element' = "deleting"
    BY Zenon, <1>3 DEF RestartStop, DeleteTimer, AppStep
  <2> QED
    BY Zenon, <1>1, <2>1, <2>2 DEF Running
<1>4. CASE RestartStart
  <2>1. CASE fault' = "timerStart" /\ UNCHANGED storage
    BY Zenon, <1>1, <2>1 DEF Running, storage
  <2>2. CASE TimerStartAtOnce(ReregistrationTimer)
    BY Zenon, <1>1, <2>2, TimerStartProperties DEF Running
  <2> QED
    BY Zenon, <1>4, <2>1, <2>2 DEF RestartStart
<1>5. CASE RegisterNew \/ RegisterUpdate \/ DeregisterPE \/ FreeElement
  <2>1. UNCHANGED <<armed, due>>
    BY Zenon, <1>5 DEF RegisterNew, RegisterUpdate, DeregisterPE, FreeElement, storage
  <2>2. Started' = Started
    BY Zenon, <2>1 DEF Started
  <2>3. \/ element' # "registered"
        \/ element = "registered" /\ app = "idle" /\ fault' = fault
        \/ app' = "deregistering"
    BY Zenon, <1>5 DEF RegisterNew, RegisterUpdate, DeregisterPE, FreeElement, AppStep
  <2> QED
    BY Zenon, <1>1, <2>1, <2>2, <2>3 DEF Running
<1> QED
  BY Zenon, <1>2, <1>3, <1>4, <1>5

LEMMA TimePassesKeeps ==
  ASSUME armed \subseteq Timer, due \in Seq(Timer), TimePasses
  PROVE  /\ armed' \subseteq Timer /\ due' \in Seq(Timer)
         /\ Started \subseteq Started'
         /\ InCallback' <=> InCallback
<1>1. PICK t \in armed : armed' = armed \ {t} /\ due' = Append(due, t)
  BY Zenon DEF TimePasses
<1>2. UNCHANGED <<loop, current>>
  BY Zenon DEF TimePasses, loopVars
<1>3. /\ due' \in Seq(Timer) /\ Len(due) \in Nat
      /\ DOMAIN due = 1 .. Len(due) /\ DOMAIN due' = 1 .. Len(due) + 1
      /\ \A i \in 1 .. Len(due) : due'[i] = due[i]
      /\ due'[Len(due) + 1] = t
  BY <1>1
<1>4. \A i \in DOMAIN due : due[i] \in Started'
  BY <1>3 DEF Started
<1>5. t \in Started'
  BY <1>3 DEF Started
<1>6. \A u \in armed : u \in Started'
  BY Zenon, <1>1, <1>5 DEF Started
<1>7. Started \subseteq Started'
  BY Zenon, <1>4, <1>6 DEF Started
<1>8. InCallback' <=> InCallback
  BY Zenon, <1>2 DEF InCallback
<1> QED
  BY Zenon, <1>1, <1>3, <1>7, <1>8

\* The dispatcher removes a timer from the storage only to call its callback.
LEMMA DispatcherKeepsTimer ==
  ASSUME armed \subseteq Timer, due \in Seq(Timer), EventLoop \/ TimePasses
  PROVE  /\ armed' \subseteq Timer /\ due' \in Seq(Timer)
         /\ ReregistrationTimer \in Started => ReregistrationTimer \in Started' \/ InCallback'
<1>1. CASE UNCHANGED <<armed, due>>
  BY Zenon, <1>1 DEF Started
<1>2. CASE loop = "timers" /\ due # << >> /\ loop' = "timerCallback" /\ due' = Tail(due)
           /\ current' = [timer |-> Head(due)] /\ armed' = armed
  <2>1. /\ due' \in Seq(Timer) /\ Len(due') = Len(due) - 1 /\ Len(due) \in Nat
        /\ DOMAIN due = 1 .. Len(due) /\ DOMAIN due' = 1 .. Len(due) - 1
        /\ \A i \in 1 .. Len(due) - 1 : due'[i] = due[i + 1]
        /\ Head(due) = due[1]
    BY <1>2
  <2>2. ASSUME NEW i \in DOMAIN due, i # 1 PROVE due[i] \in Started'
    <3>1. i - 1 \in DOMAIN due' /\ due'[i - 1] = due[i]
      BY <2>1, <2>2
    <3> QED
      BY Zenon, <3>1 DEF Started
  <2>3. due[1] = ReregistrationTimer => InCallback'
    BY Zenon, <1>2, <2>1 DEF InCallback
  <2>4. ReregistrationTimer \in armed => ReregistrationTimer \in Started'
    BY <1>2 DEF Started
  <2> QED
    BY <1>2, <2>1, <2>2, <2>3, <2>4 DEF Started
<1>3. CASE TimePasses
  BY <1>3, TimePassesKeeps
<1> QED
  BY Zenon, <1>1, <1>2, <1>3
  DEF EventLoop, GetPollParameters, HandlePollResult, HandleFDEvent, LookUpTimers,
      FDCallbackReturns, HandleTimer, TimerCallbackReturns, storage

LEMMA LoopRunning ==
  ASSUME Running, LoopStep
  PROVE  Running'
<1>1. /\ InCallback => callback = "done"
      /\ EventLoop \/ TimePasses
      /\ callback' = IF InCallback' THEN callback ELSE "none"
      /\ UNCHANGED <<element, app, fault>>
  BY DEF LoopStep
<1>2. /\ armed' \subseteq Timer /\ due' \in Seq(Timer)
      /\ ReregistrationTimer \in Started => ReregistrationTimer \in Started' \/ InCallback'
  BY <1>1, DispatcherKeepsTimer DEF Running
<1>3. ASSUME ReregistrationTimer \in Started, InCallback', callback' = "done"
      PROVE  ReregistrationTimer \in Started'
  <2>1. InCallback
    BY ZenonT(40), <1>1, <1>3 DEF Running
  <2>2. UNCHANGED <<armed, due>> \/ TimePasses
    BY Zenon, <1>1, <2>1 DEF EventLoop, GetPollParameters, HandlePollResult, HandleFDEvent,
       LookUpTimers, FDCallbackReturns, HandleTimer, TimerCallbackReturns, InCallback, storage
  <2>3. CASE UNCHANGED <<armed, due>>
    BY <1>3, <2>3 DEF Started
  <2>4. CASE TimePasses
    BY <1>3, <2>4, TimePassesKeeps DEF Running
  <2> QED
    BY <2>2, <2>3, <2>4
<1> QED
  BY <1>1, <1>2, <1>3 DEF Running

\* What the callback does in the main loop thread, and what the main loop thread
\* does for the application.
LEMMA CallbackRunning ==
  ASSUME Running,
         ServeApplication \/ EnterCallback \/ DoRegistration \/ CallbackRestartsTimer
  PROVE  Running'
<1>1. UNCHANGED <<element, loop, current>> /\ (InCallback' <=> InCallback)
  BY Zenon DEF ServeApplication, EnterCallback, DoRegistration, CallbackRestartsTimer,
         dispatcherVars, loopVars, InCallback
<1>2. CASE ServeApplication \/ EnterCallback \/ DoRegistration
  <2>1. UNCHANGED <<armed, due>>
    BY <1>2 DEF ServeApplication, EnterCallback, DoRegistration, dispatcherVars, storage
  <2>2. Started' = Started
    BY Zenon, <2>1 DEF Started
  <2>3. \/ UNCHANGED <<app, callback, fault>>
        \/ app' \in {"start", "free"} /\ callback' = callback
        \/ app' = app /\ fault' = "freed" /\ callback' = callback
        \/ app' = app /\ fault' = fault /\ InCallback /\ callback' # "done"
    BY Zenon, <1>2 DEF ServeApplication, EnterCallback, DoRegistration, Running
  <2> QED
    BY Zenon, <1>1, <2>1, <2>2, <2>3 DEF Running
<1>3. CASE CallbackRestartsTimer
  <2>1. InCallback /\ app' = app
    BY Zenon, <1>3 DEF CallbackRestartsTimer, Running
  <2>2. CASE fault' = "timerStart" /\ UNCHANGED <<storage, callback>>
    BY Zenon, <1>1, <2>1, <2>2 DEF Running, storage
  <2>3. CASE TimerStart(ReregistrationTimer)
    BY <1>1, <2>1, <2>3, TimerStartProperties DEF Running
  <2> QED
    BY Zenon, <1>3, <2>2, <2>3 DEF CallbackRestartsTimer
<1> QED
  BY Zenon, <1>2, <1>3

\* A registered pool element does not lose its timer, whatever the application, the
\* callback and the dispatcher do at the same time (reregistrationTimer,
\* rsp_register_tags).
THEOREM ReregistrationKeptAlways == ReregistrationSpec => []ReregistrationKept
<1>1. ReregistrationInit => Running
  <2>1. << >> \in Seq(Timer)
    OBVIOUS
  <2> QED
    BY <2>1 DEF ReregistrationInit, DispatcherInit, Running
<1>2. Running /\ [ReregistrationNext]_reregistrationVars => Running'
  <2> SUFFICES ASSUME Running, [ReregistrationNext]_reregistrationVars PROVE Running'
    OBVIOUS
  <2>1. CASE UNCHANGED reregistrationVars
    BY Zenon, <2>1 DEF reregistrationVars, dispatcherVars, elementVars, storage, loopVars,
                Running, Started, InCallback
  <2> QED
    BY Zenon, <2>1, ApplicationRunning, LoopRunning, CallbackRunning DEF ReregistrationNext
<1>3. Running => ReregistrationKept
  BY DEF Running, ReregistrationKept
<1> QED
  BY <1>1, <1>2, <1>3, PTL DEF ReregistrationSpec
=============================================================================
