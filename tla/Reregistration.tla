-------------------------- MODULE Reregistration --------------------------
(***************************************************************************)
(* The pool element of an RSerPool socket and the timer that registers it  *)
(* again (rserpoolsocket.c; rsp_register_tags() and rsp_deregister_tags()  *)
(* in rspenhancedmode.c), on top of the dispatcher.  The application calls *)
(* rsp_register() and rsp_deregister(); the mutex of the RSerPool socket   *)
(* lets one such call run at a time.  The timer's callback runs in the     *)
(* main loop thread, and only PoolElement.Mutex is between the two.  A     *)
(* call that waits for the registrar is served by the main loop thread,    *)
(* between two passes of the dispatcher.                                   *)
(***************************************************************************)
EXTENDS Dispatcher

CONSTANTS ReregistrationTimer,   \* the timer of the pool element
          MaxRegister            \* bound: calls made by the application

ASSUME ReregistrationAssumption == /\ ReregistrationTimer \in Timer
                                   /\ MaxRegister \in Nat

VARIABLES element,    \* PoolElement: "none", "new", "registered", "deleting"
          peMutex,    \* who holds PoolElement.Mutex: "free", "loop", "app"
          app,        \* where the application thread is in its call
          callback,   \* where the main loop thread is in reregistrationTimer()
          fault,      \* a CHECK failed, or freed memory was used
          appCalls

elementVars == <<element, peMutex, app, callback, fault, appCalls>>
reregistrationVars == <<dispatcherVars, elementVars>>

InCallback == loop = "timerCallback" /\ current = [timer |-> ReregistrationTimer]

ReregistrationInit ==
  /\ DispatcherInit
  /\ element = "none" /\ peMutex = "free" /\ app = "idle"
  /\ callback = "none" /\ fault = "none" /\ appCalls = 0

\* One step of the application thread: where it is and where it goes on.
AppStep(from, to) == /\ fault = "none" /\ Unlocked
                     /\ app = from /\ app' = to
                     /\ UNCHANGED <<loopVars, foreign, callback>>

-----------------------------------------------------------------------------
(* rsp_register_tags()                                                      *)

\* doRegistration() finds no local address: the element is deleted at once,
\* except in daemon mode, where its timer is started all the same.
RegisterNew ==
  /\ element = "none" /\ appCalls < MaxRegister
  /\ appCalls' = appCalls + 1
  /\ \/ AppStep("idle", "registering") /\ element' = "new"
     \/ AppStep("idle", "start") /\ element' = "new"
     \/ AppStep("idle", "idle") /\ element' = "none"
  /\ UNCHANGED <<storage, peMutex, fault>>

StartReregistration ==
  /\ AppStep("start", "idle")
  /\ TimerStart(ReregistrationTimer)
  /\ element' = "registered"
  /\ UNCHANGED <<peMutex, fault, appCalls>>

\* The element exists already: its information is updated under its mutex,
\* and the timer is restarted after that.
RegisterUpdate ==
  /\ element = "registered" /\ peMutex = "free" /\ appCalls < MaxRegister
  /\ appCalls' = appCalls + 1
  /\ AppStep("idle", "restart")
  /\ UNCHANGED <<storage, element, peMutex, fault>>

RestartStop == /\ AppStep("restart", "restarting")
               /\ TimerStop(ReregistrationTimer)
               /\ UNCHANGED <<element, peMutex, fault, appCalls>>

RestartStart ==
  /\ AppStep("restarting", "idle")
  /\ IF ReregistrationTimer \in Started
     THEN fault' = "timerStart" /\ UNCHANGED storage
     ELSE TimerStartAtOnce(ReregistrationTimer) /\ UNCHANGED fault
  /\ UNCHANGED <<element, peMutex, appCalls>>

-----------------------------------------------------------------------------
(* rsp_deregister_tags(), deletePoolElement()                               *)

DeleteTimer == /\ element = "registered"
               /\ AppStep("idle", "deleting")
               /\ TimerStop(ReregistrationTimer)
               /\ element' = "deleting"
               /\ UNCHANGED <<peMutex, fault, appCalls>>

DeregisterPE == /\ peMutex = "free" /\ peMutex' = "app"
                /\ AppStep("deleting", "deregistering")
                /\ UNCHANGED <<storage, element, fault, appCalls>>

FreeElement ==
  /\ AppStep("free", "idle")
  /\ peMutex' = "free" /\ element' = "none"
  /\ UNCHANGED <<storage, fault, appCalls>>

-----------------------------------------------------------------------------
(* The main loop thread.                                                    *)

\* A request of the application is answered between two passes.
ServeApplication ==
  /\ fault = "none" /\ loop = "parameters"
  /\ \/ app = "registering" /\ app' = "start"
     \/ app = "deregistering" /\ app' = "free"
  /\ UNCHANGED <<dispatcherVars, element, peMutex, callback, fault, appCalls>>

\* The dispatcher has unlocked itself and calls the callback.  The structure
\* may have been cleared by timerDelete() or freed in between.
EnterCallback ==
  /\ fault = "none" /\ InCallback /\ callback = "none"
  /\ \/ /\ element # "registered"
        /\ fault' = "freed"
        /\ UNCHANGED <<callback, peMutex>>
     \/ /\ element \in {"registered", "deleting"}
        /\ peMutex = "free" /\ peMutex' = "loop"
        /\ callback' = "locked"
        /\ UNCHANGED fault
  /\ UNCHANGED <<dispatcherVars, element, app, appCalls>>

\* doRegistration() without waiting for its result; its return value is not
\* looked at.
DoRegistration ==
  /\ fault = "none" /\ callback = "locked"
  /\ callback' = "registered"
  /\ UNCHANGED <<dispatcherVars, element, peMutex, app, fault, appCalls>>

\* Mutation of CallbackRestartsTimer: the timer is not started again.
CallbackWithoutTimer ==
  /\ fault = "none" /\ callback = "registered"
  /\ callback' = "done" /\ peMutex' = "free"
  /\ UNCHANGED <<dispatcherVars, element, app, fault, appCalls>>

\* timerStart() has two CHECKs that can fail here: the timer is running
\* already, or timerDelete() has taken its dispatcher away.
CallbackRestartsTimer ==
  /\ fault = "none" /\ callback = "registered"
  /\ IF ReregistrationTimer \in Started \/ element = "deleting"
     THEN fault' = "timerStart" /\ UNCHANGED <<storage, callback, peMutex>>
     ELSE /\ TimerStart(ReregistrationTimer)
          /\ callback' = "done" /\ peMutex' = "free"
          /\ UNCHANGED fault
  /\ UNCHANGED <<loopVars, foreign, element, app, appCalls>>

LoopStep == /\ fault = "none"
            /\ InCallback => callback = "done"
            /\ EventLoop \/ TimePasses
            /\ callback' = IF InCallback' THEN callback ELSE "none"
            /\ UNCHANGED <<element, peMutex, app, fault, appCalls>>

ReregistrationNext ==
  \/ RegisterNew \/ StartReregistration \/ RegisterUpdate
  \/ RestartStop \/ RestartStart
  \/ DeleteTimer \/ DeregisterPE \/ FreeElement
  \/ ServeApplication \/ EnterCallback \/ DoRegistration
  \/ CallbackRestartsTimer \/ LoopStep

ReregistrationSpec ==
  ReregistrationInit /\ [][ReregistrationNext]_reregistrationVars

-----------------------------------------------------------------------------
\* A registered pool element is registered again for as long as it exists:
\* whatever calls have been made and whatever doRegistration() returned, its
\* timer is running, or its callback is under way, or the application is
\* about to start it (reregistrationTimer(), rsp_register_tags()).
ReregistrationKept ==
  element = "registered" /\ app = "idle" /\ fault = "none"
    => ReregistrationTimer \in Started \/ InCallback

\* deletePoolElement(): "Delete timer first; this ensures that the
\* doRegistration() function will not be called while the PE is going to be
\* deleted!"
NotRegisteredWhileDeleted ==
  [][callback = "locked" /\ callback' = "registered"
       => element # "deleting"]_reregistrationVars
=============================================================================
