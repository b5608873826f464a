---------------------------- MODULE Dispatcher ----------------------------
(***************************************************************************)
(* The event loop of the library and of the registrar (dispatcher.c,       *)
(* timer.c, fdcallback.c).  One thread runs the loop: it copies the        *)
(* registered descriptors into the array for poll(), polls, calls the      *)
(* callbacks of the descriptors that have events, then the callbacks of    *)
(* the timers that have expired.  The dispatcher is locked in between and  *)
(* unlocked during poll() and during every callback; callbacks and other   *)
(* threads start and stop timers and create and delete FD callbacks while  *)
(* it is unlocked.  Every such change sets AddRemove, which makes the loop *)
(* stop iterating over what it looked up before.                           *)
(*                                                                         *)
(* A descriptor number is reused by the system as soon as it is closed: an *)
(* FD callback is therefore the descriptor and a number that identifies    *)
(* the FDCallback structure.  Time stamps appear as their order: due holds *)
(* the expired timers, first time stamp first, armed the others.           *)
(***************************************************************************)
EXTENDS Naturals, Sequences, Lists

CONSTANTS FD,            \* file descriptor numbers
          Timer,         \* the timers of the program
          MaxCallback,   \* bound: FDCallback structures created
          MaxForeign     \* bound: changes made by other threads

ASSUME DispatcherAssumption == /\ FD \subseteq Nat
                               /\ MaxCallback \in Nat
                               /\ MaxForeign \in Nat

VARIABLES fdCallback,    \* FDCallbackStorage: structure of a descriptor, 0: none
          muted,         \* EventMask changed: the polled events are not wanted
          fresh,         \* descriptors with SelectTimeStamp > pollTimeStamp
          created,       \* FDCallback structures created so far
          armed,         \* TimerStorage: timers that have not expired
          due,           \* TimerStorage: expired timers, first one first
          addRemove,     \* AddRemove
          loop,          \* where the loop thread is
          ufds,          \* the array given to poll(): structure of a descriptor
          pollTimeout,   \* poll() has a timeout, i.e. there was a timer
          ready,         \* entries of the array with revents, not yet seen
          now,           \* timers expired at the time the loop looked up
          current,       \* the callback being called
          foreign        \* changes made by other threads

storage == <<fdCallback, muted, fresh, created, armed, due, addRemove>>
loopVars == <<loop, ufds, pollTimeout, ready, now, current>>
dispatcherVars == <<storage, loopVars, foreign>>

NoCallback == [fd |-> 0, structure |-> 0]

Started == armed \cup {due[i] : i \in DOMAIN due}

DispatcherInit ==
  /\ fdCallback \in [FD -> {0, 1}]
  /\ muted = {} /\ fresh = {} /\ created = 1
  /\ armed = {} /\ due = << >>
  /\ addRemove = FALSE
  /\ loop = "parameters"
  /\ ufds = [fd \in FD |-> 0]
  /\ pollTimeout = FALSE /\ ready = {} /\ now = {}
  /\ current = NoCallback
  /\ foreign = 0

-----------------------------------------------------------------------------
(* What callbacks and other threads do with the dispatcher.                 *)

FDCallbackNew(fd) ==
  /\ fdCallback[fd] = 0
  /\ created < MaxCallback
  /\ created' = created + 1
  /\ fdCallback' = [fdCallback EXCEPT ![fd] = created']
  /\ muted' = muted \ {fd}
  /\ fresh' = fresh \cup {fd}
  /\ addRemove' = TRUE
  /\ UNCHANGED <<armed, due>>

FDCallbackDelete(fd) ==
  /\ fdCallback[fd] # 0
  /\ fdCallback' = [fdCallback EXCEPT ![fd] = 0]
  /\ fresh' = fresh \ {fd}
  /\ addRemove' = TRUE
  /\ UNCHANGED <<muted, created, armed, due>>

FDCallbackUpdate(fd) ==
  /\ fdCallback[fd] # 0
  /\ fd \notin muted
  /\ muted' = muted \cup {fd}
  /\ UNCHANGED <<fdCallback, fresh, created, armed, due, addRemove>>

\* The CHECK that the timer is not linked is the guard here.
TimerStart(t) ==
  /\ t \notin Started
  /\ armed' = armed \cup {t}
  /\ addRemove' = TRUE
  /\ UNCHANGED <<fdCallback, muted, fresh, created, due>>

\* timerStart() with a time stamp of 0, "as soon as possible".
TimerStartAtOnce(t) ==
  /\ t \notin Started
  /\ due' = <<t>> \o due
  /\ addRemove' = TRUE
  /\ UNCHANGED <<fdCallback, muted, fresh, created, armed>>

TimerStop(t) ==
  /\ armed' = armed \ {t}
  /\ IF \E i \in DOMAIN due : due[i] = t
     THEN \E i \in DOMAIN due : due[i] = t /\ due' = RemNode(due, i)
     ELSE UNCHANGED due
  /\ addRemove' = (addRemove \/ t \in Started)
  /\ UNCHANGED <<fdCallback, muted, fresh, created>>

TimePasses ==
  /\ \E t \in armed : armed' = armed \ {t} /\ due' = Append(due, t)
  /\ UNCHANGED <<fdCallback, muted, fresh, created, addRemove, loopVars, foreign>>

-----------------------------------------------------------------------------
(* The loop: dispatcherEventLoop().                                         *)

GetPollParameters ==
  /\ loop = "parameters"
  /\ ufds' = fdCallback
  /\ fresh' = {} /\ muted' = {}
  /\ pollTimeout' = (Started # {})
  /\ loop' = "poll"
  /\ UNCHANGED <<fdCallback, created, armed, due, addRemove,
                 ready, now, current, foreign>>

\* Mutation of HandlePollResult: AddRemove is not reset.
HandlePollResultKeepingAddRemove ==
  /\ loop = "poll"
  /\ ready' \in SUBSET {fd \in FD : ufds[fd] # 0}
  /\ pollTimeout \/ ready' # {}
  /\ pollTimeout' = FALSE
  /\ loop' = "fds"
  /\ UNCHANGED <<storage, ufds, now, current, foreign>>

HandlePollResult ==
  /\ loop = "poll"
  /\ ready' \in SUBSET {fd \in FD : ufds[fd] # 0}
  /\ pollTimeout \/ ready' # {}
  /\ pollTimeout' = FALSE
  /\ addRemove' = FALSE
  /\ loop' = "fds"
  /\ UNCHANGED <<fdCallback, muted, fresh, created, armed, due,
                 ufds, now, current, foreign>>

\* Mutation of PolledBefore: the time stamps are not compared.
RegisteredNow(fd) == fdCallback[fd] # 0

\* The FD callback is looked up again by its number; one that was created
\* after poll() had begun is skipped, its descriptor was another one then.
PolledBefore(fd) == fdCallback[fd] # 0 /\ fd \notin fresh

HandleFDEvent ==
  /\ loop = "fds"
  /\ \E fd \in ready :
       /\ \A other \in ready : fd <= other
       /\ ready' = ready \ {fd}
       /\ IF PolledBefore(fd) /\ fd \notin muted
          THEN /\ loop' = "fdCallback"
               /\ current' = [fd |-> fd, structure |-> fdCallback[fd]]
          ELSE UNCHANGED <<loop, current>>
  /\ UNCHANGED <<storage, ufds, pollTimeout, now, foreign>>

LookUpTimers ==
  /\ loop = "fds" /\ ready = {}
  /\ loop' = "timers"
  /\ now' = {due[i] : i \in DOMAIN due}
  /\ UNCHANGED <<storage, ufds, pollTimeout, ready, current, foreign>>

FDCallbackReturns ==
  /\ loop = "fdCallback"
  /\ loop' = "fds"
  /\ ready' = IF addRemove THEN {} ELSE ready
  /\ current' = NoCallback
  /\ UNCHANGED <<storage, ufds, pollTimeout, now, foreign>>

HandleTimer ==
  /\ loop = "timers"
  /\ IF ~addRemove /\ due # << >> /\ Head(due) \in now
     THEN /\ due' = Tail(due)
          /\ loop' = "timerCallback"
          /\ current' = [timer |-> Head(due)]
          /\ UNCHANGED <<ufds, now>>
     ELSE /\ loop' = "parameters"
          /\ ufds' = [fd \in FD |-> 0] /\ now' = {}
          /\ UNCHANGED <<due, current>>
  /\ UNCHANGED <<fdCallback, muted, fresh, created, armed, addRemove,
                 pollTimeout, ready, foreign>>

TimerCallbackReturns ==
  /\ loop = "timerCallback"
  /\ loop' = "timers"
  /\ current' = NoCallback
  /\ UNCHANGED <<storage, ufds, pollTimeout, ready, now, foreign>>

-----------------------------------------------------------------------------
\* The dispatcher is locked while the loop goes through its tables.
Unlocked == loop \notin {"fds", "timers"}

Change == \/ \E fd \in FD : FDCallbackNew(fd) \/ FDCallbackDelete(fd)
                              \/ FDCallbackUpdate(fd)
          \/ \E t \in Timer : TimerStart(t) \/ TimerStop(t)

CallbackStep == /\ loop \in {"fdCallback", "timerCallback"}
                /\ Change
                /\ UNCHANGED <<loopVars, foreign>>

ForeignStep == /\ Unlocked
               /\ foreign < MaxForeign
               /\ foreign' = foreign + 1
               /\ Change
               /\ UNCHANGED loopVars

EventLoop == \/ GetPollParameters \/ HandlePollResult \/ HandleFDEvent
             \/ LookUpTimers \/ FDCallbackReturns \/ HandleTimer
             \/ TimerCallbackReturns

DispatcherNext == EventLoop \/ TimePasses \/ CallbackStep \/ ForeignStep

DispatcherFairness == WF_dispatcherVars(EventLoop)

DispatcherSpec ==
  DispatcherInit /\ [][DispatcherNext]_dispatcherVars /\ DispatcherFairness

-----------------------------------------------------------------------------
\* An event that poll() reports for a descriptor is given only to the FD
\* callback poll() was called for: when that one has been deleted meanwhile
\* and the descriptor reused, the new owner does not see it
\* (dispatcherHandlePollResult(), the test of SelectTimeStamp).
EventOfPolledCallback ==
  loop = "fdCallback" => current.structure = ufds[current.fd]

\* As long as the loop goes on, a timer that has expired does not stay so: it is
\* called or stopped, also when other threads and the callbacks of other timers start
\* and stop timers again and again, each of which ends the pass.  Only FD callbacks
\* may put it off for ever, when they make a change in every pass: they are called
\* before the timers.  And poll() has to return: a timer that another thread starts
\* does not wake it up (dispatcherHandlePollResult(), AddRemove).
DueTimerHandled ==
  []<>(loop = "timers") /\ <>[](loop = "fdCallback" => ~addRemove)
    => \A t \in Timer : []<>(t \notin Started \ armed)
=============================================================================
