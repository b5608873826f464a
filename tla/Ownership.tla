----------------------------- MODULE Ownership -----------------------------
(***************************************************************************)
(* What the takeover procedure promises, seen from the pool elements: a PE *)
(* has one home registrar, keeps it as long as that registrar is up, and   *)
(* may then be adopted, together with others, by one that is up.           *)
(***************************************************************************)
CONSTANTS Registrar, PoolElement, NoOwner

VARIABLES up, owner

Init ==
  /\ up \subseteq Registrar
  /\ owner \in [PoolElement -> up \cup {NoOwner}]

\* A registrar fails, and its PEs are without a home.
Fail(r) ==
  /\ r \in up
  /\ up' = up \ {r}
  /\ owner' = [e \in PoolElement |-> IF owner[e] = r THEN NoOwner ELSE owner[e]]

\* A registrar becomes the home of PEs that have none.
Adopt(r, S) ==
  /\ r \in up
  /\ \A e \in S : owner[e] = NoOwner
  /\ owner' = [e \in PoolElement |-> IF e \in S THEN r ELSE owner[e]]
  /\ UNCHANGED up

Next ==
  \E r \in Registrar : Fail(r) \/ \E S \in SUBSET PoolElement : Adopt(r, S)

Spec == Init /\ [][Next]_<<up, owner>>
============================================================================
