----------------------------- MODULE MCLibrary -----------------------------
(***************************************************************************)
(* Small instances of the parts of the library, of the registrar's tables  *)
(* and of the pool element server for TLC, side by side.  The initial      *)
(* state chooses a part; only that part takes steps, and the others stay   *)
(* as they are.  The states of the instance are those of its parts added   *)
(* up, not multiplied, and a property of a part is checked in all of them. *)
(***************************************************************************)
EXTENDS AsapInstance, RegistrarTable, Reregistration, Session, PoolPolicy,
        Handlespace, RedBlackTree, Messages, PoolServer, PoolUserRate

CONSTANTS Thread1, Thread2

VARIABLE part

libraryVars == <<part, asapVars, tableVars, reregistrationVars, sessionVars, policyVars,
                 store, treeVars, messageVars, serverVars, rateVars>>

\* The variables of the chosen part, as far as it has fairness.
partVars ==
  CASE part = "asap" -> asapVars
    [] part = "table" -> tableVars
    [] part \in {"dispatcher", "reregistration"} -> reregistrationVars
    [] part = "session" -> sessionVars
    [] part = "server" -> serverVars
    [] OTHER -> part

\* One thread has a pool element, the other one uses a pool.
MCRequests ==
  [t \in AppThread |-> IF t = Thread1 THEN {"Registration", "Deregistration"}
                                      ELSE {"HandleResolution", "EndpointUnreachable"}]

\* Identifiers of sessions are used again after a third event at the earliest.
MCMaxNetwork == [r \in Role |-> IF r = "client" THEN 2 ELSE 3]

\* Two pool elements of one pool.
MCIdentity == {<<9, 1>>, <<9, 2>>}

Part == {"asap", "table", "dispatcher", "reregistration", "session", "policy",
         "handlespace", "tree", "messages", "server", "rate"}

-----------------------------------------------------------------------------
(* A step of a part.                                                       *)

AsapDoes(A) ==
  /\ part = "asap" /\ A
  /\ UNCHANGED <<part, tableVars, reregistrationVars, sessionVars, policyVars, store,
                 treeVars, messageVars, serverVars, rateVars>>

TableDoes(A) ==
  /\ part = "table" /\ A
  /\ UNCHANGED <<part, asapVars, reregistrationVars, sessionVars, policyVars, store,
                 treeVars, messageVars, serverVars, rateVars>>

DispatcherDoes(A) ==
  /\ part = "dispatcher" /\ A
  /\ UNCHANGED <<part, asapVars, tableVars, elementVars, sessionVars, policyVars, store,
                 treeVars, messageVars, serverVars, rateVars>>

ReregistrationDoes(A) ==
  /\ part = "reregistration" /\ A
  /\ UNCHANGED <<part, asapVars, tableVars, sessionVars, policyVars, store, treeVars,
                 messageVars, serverVars, rateVars>>

SessionDoes(A) ==
  /\ part = "session" /\ A
  /\ UNCHANGED <<part, asapVars, tableVars, reregistrationVars, policyVars, store,
                 treeVars, messageVars, serverVars, rateVars>>

PolicyDoes(A) ==
  /\ part = "policy" /\ A
  /\ UNCHANGED <<part, asapVars, tableVars, reregistrationVars, sessionVars, store,
                 treeVars, messageVars, serverVars, rateVars>>

HandlespaceDoes(A) ==
  /\ part = "handlespace" /\ A
  /\ UNCHANGED <<part, asapVars, tableVars, reregistrationVars, sessionVars, policyVars,
                 treeVars, messageVars, serverVars, rateVars>>

TreeDoes(A) ==
  /\ part = "tree" /\ A
  /\ UNCHANGED <<part, asapVars, tableVars, reregistrationVars, sessionVars, policyVars,
                 store, messageVars, serverVars, rateVars>>

MessagesDo(A) ==
  /\ part = "messages" /\ A
  /\ UNCHANGED <<part, asapVars, tableVars, reregistrationVars, sessionVars, policyVars,
                 store, treeVars, serverVars, rateVars>>

ServerDoes(A) ==
  /\ part = "server" /\ A
  /\ UNCHANGED <<part, asapVars, tableVars, reregistrationVars, sessionVars, policyVars,
                 store, treeVars, messageVars, rateVars>>

RateDoes(A) ==
  /\ part = "rate" /\ A
  /\ UNCHANGED <<part, asapVars, tableVars, reregistrationVars, sessionVars, policyVars,
                 store, treeVars, messageVars, serverVars>>

-----------------------------------------------------------------------------
\* A part that is not chosen has one of its initial states.
LibraryInit ==
  /\ part \in Part
  /\ ASAPInit
  /\ TableInit
  /\ ReregistrationInit
  /\ part \notin {"dispatcher", "reregistration"} => fdCallback = [fd \in FD |-> 0]
  /\ SessionInit
  /\ part # "session" => role = "server"
  /\ PolicyInit
  /\ part # "policy" => poolNode.policy = "RoundRobin" /\ poolNode.maxIncrement = 0
  /\ HandlespaceInit
  /\ part # "handlespace" => store.peers = {}
  /\ TreeInit
  /\ MessageInit
  /\ part # "messages" => original = [MessageNew("ListRequest") EXCEPT !.sender = 5, !.receiver = 6]
  /\ ServerInit
  /\ RateInit

LibraryNext ==
  \/ AsapDoes(ASAPNext)
  \/ TableDoes(TableNext)
  \/ DispatcherDoes(DispatcherNext)
  \/ ReregistrationDoes(ReregistrationNext)
  \/ SessionDoes(SessionNext)
  \/ PolicyDoes(PolicyNext)
  \/ HandlespaceDoes(HandlespaceNext)
  \/ TreeDoes(TreeNext)
  \/ MessagesDo(MessageNext)
  \/ ServerDoes(ServerNext)
  \/ RateDoes(RateNext)

\* The parts with fairness.
Lively == part \in {"asap", "table", "dispatcher", "reregistration", "session", "server"}

\* The fairness of the chosen part.  The parts share the conjuncts: as the part
\* never changes, fairness of a choice between actions of different parts is the
\* fairness of each of them.
LibraryFairness ==
  /\ WF_partVars(Lively /\ \/ AsapDoes(ThreadStep(Thread1))
                           \/ TableDoes(HuntStep)
                           \/ SessionDoes(RspConnect)
                           \/ ServerDoes(ServerStep)
                           \/ DispatcherDoes(EventLoop)
                           \/ ReregistrationDoes(LoopStep))
  /\ WF_partVars(Lively /\ \/ AsapDoes(ThreadStep(Thread2))
                           \/ TableDoes(Association(1))
                           \/ SessionDoes(role = "client" /\ RspRecvmsg)
                           \/ ServerDoes(server # "aborted" /\ SessionStep(1)))
  /\ WF_partVars(Lively /\ \/ AsapDoes(MainLoop)
                           \/ TableDoes(HuntTimePasses)
                           \/ SessionDoes(pool \cap alive = {} /\ PERegisters)
                           \/ ServerDoes(server # "aborted" /\ SessionStep(2)))
  /\ WF_partVars(Lively /\ TableDoes(Association(2)))
  /\ SF_partVars(Lively /\ \/ AsapDoes(HandleRegistrarTimeout)
                           \/ TableDoes(ReadHuntSocket)
                           \/ SessionDoes(told /\ ForceFailover(TRUE)))
  /\ SF_partVars(Lively /\ TableDoes(FindsReachable))

LibrarySpec == LibraryInit /\ [][LibraryNext]_libraryVars /\ LibraryFairness
=============================================================================
