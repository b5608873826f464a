---------------------------- MODULE MCRegistrar ----------------------------
(***************************************************************************)
(* Small instances of the registrars for TLC: the registrars are 1 .. N    *)
(* and the PEs 1 .. M.                                                     *)
(***************************************************************************)
EXTENDS RegistrarProps, Bitwise

CONSTANTS N, M

MCRegistrar == 1 .. N
MCPoolElement == 1 .. M

\* peerListManagementGetUsefulPeerForPE: the peer with the largest exclusive or
\* of its identifier and the PE's, if it is larger than the own one.
MCUsefulPeer(r, S, e) ==
  LET Metric(p) == p ^^ e
      better == {p \in S : /\ Metric(p) > Metric(r)
                           /\ \A q \in S : Metric(q) <= Metric(p)}
  IN IF better = {} THEN UNDEFINED ELSE CHOOSE p \in better : TRUE

-----------------------------------------------------------------------------
(* Initial situations *)

\* The highest registrar is the home of all PEs.
HighestHome == [e \in MCPoolElement |-> N]

\* It is the home of the first one; the others are not registered.
FirstHome == [e \in MCPoolElement |-> IF e = 1 THEN N ELSE UNDEFINED]

\* The PEs are distributed over the registrars.
DistributedHome == [e \in MCPoolElement |-> 1 + (e % N)]

NoHome == [e \in MCPoolElement |-> UNDEFINED]

-----------------------------------------------------------------------------
(* Bounds on the events *)

Limits(limit) ==
  [k \in EventKind |-> IF k \in DOMAIN limit THEN limit[k] ELSE 0]

CrashBound == {Limits([crash |-> 2])}
OneCrash == {Limits([crash |-> 1])}
LossyCrash == {Limits([crash |-> 1, loss |-> 1])}
BookkeepingBound ==
  {Limits([crash |-> 1, suspect |-> 1, probe |-> 1]),
   Limits([crash |-> 1, probe |-> 1, loss |-> 1]),
   Limits([crash |-> 1, suspect |-> 1, loss |-> 1]),
   Limits([suspect |-> 1, probe |-> 1, loss |-> 1]),
   Limits([register |-> 1, keepalive |-> 1, petimeout |-> 1, unreachable |-> 1]),
   Limits([register |-> 2, commlost |-> 1]),
   Limits([unreachable |-> 2, petimeout |-> 1])}
SyncBound == {Limits([register |-> 2, deregister |-> 1, petimeout |-> 1])}
RestartBound == {Limits([crash |-> 1, start |-> 1])}
LossBound == {Limits([petimeout |-> 1, loss |-> 1])}
ExpiryBound == {Limits([petimeout |-> 1])}
ResumeBound ==
  {Limits([petimeout |-> 1, announce |-> 2, probe |-> 1, suspect |-> 1])}
============================================================================
