------------------------------- MODULE Lists -------------------------------
(***************************************************************************)
(* Lists from which an entry is taken wherever it is: the queue of the     *)
(* requests of the application, the timers that are due, the threads of a  *)
(* server.                                                                 *)
(***************************************************************************)
EXTENDS Naturals, Sequences

\* doubleLinkedRingListRemNode, and the like for the list of threads: the entry
\* behind the i-th follows the one before it.
RemNode(list, i) == SubSeq(list, 1, i - 1) \o SubSeq(list, i + 1, Len(list))
=============================================================================
