---------------------------- MODULE RedBlackTree ----------------------------
(***************************************************************************)
(* The leaf-linked red-black tree that every storage of the handlespace,   *)
(* the peer list, the dispatcher and the sessions is an instance of:       *)
(* redblacktree_impl.h with doublelinkedringlist.c.                        *)
(*                                                                         *)
(* A node is named by its key.  The tree's NullNode is a node like the     *)
(* others: its left child is the root, it is every leaf, and rotations and *)
(* removals write its parent and its colour.  The code has each rotation   *)
(* and each repair twice, mirrored; here a side is a parameter.            *)
(***************************************************************************)
EXTENDS Integers, Sequences, SequencesExt, FiniteSetsExt

CONSTANTS Key,        \* the keys, positive numbers: their order is the comparison
          NodeValues  \* the values of nodes (weights in the selection storages)

ASSUME TreeAssumption ==
  Key \subseteq Nat \ {0} /\ IsFiniteSet(Key) /\ NodeValues \subseteq Nat

VARIABLES tree,   \* tree[n]: parent, left, right, red, value, sum of node n
          ring    \* the doubly linked ring list through the linked nodes

treeVars == <<tree, ring>>

NullNode == 0
NoNode   == -1   \* a NULL pointer

Other(side) == IF side = "left" THEN "right" ELSE "left"

NodeNew == [parent |-> NoNode, left |-> NoNode, right |-> NoNode, red |-> FALSE,
            value |-> 0, sum |-> 0]

TreeNew == [n \in Key \cup {NullNode} |->
              IF n = NullNode
              THEN [NodeNew EXCEPT !.parent = NullNode, !.left = NullNode, !.right = NullNode]
              ELSE NodeNew]

IsLinked(t, n) == t[n].left # NoNode

UpdateValueSum(t, n) ==
  [t EXCEPT ![n].sum = t[t[n].left].sum + t[n].value + t[t[n].right].sum]

RECURSIVE UpdateValueSumsUpToRoot(_, _)
UpdateValueSumsUpToRoot(t, n) ==
  IF n = NullNode THEN t
  ELSE UpdateValueSumsUpToRoot(UpdateValueSum(t, n), t[n].parent)

(* Mutation of Rotate: the sum of the node that goes up stays.             *)
RotateWithOldSum(t, n, side) ==
  LET lower    == t[n][Other(side)]
      low      == t[lower][side]
      upparent == t[n].parent
      link     == IF n = t[upparent][side] THEN side ELSE Other(side)
      turned   == [t EXCEPT ![n][Other(side)] = low, ![low].parent = n,
                            ![lower].parent = upparent, ![upparent][link] = lower,
                            ![lower][side] = n, ![n].parent = lower]
  IN  UpdateValueSum(turned, n)

(* RotateLeft and RotateRight: n goes down on the given side.              *)
Rotate(t, n, side) ==
  LET lower    == t[n][Other(side)]
      low      == t[lower][side]
      upparent == t[n].parent
      link     == IF n = t[upparent][side] THEN side ELSE Other(side)
      turned   == [t EXCEPT ![n][Other(side)] = low, ![low].parent = n,
                            ![lower].parent = upparent, ![upparent][link] = lower,
                            ![lower][side] = n, ![n].parent = lower]
  IN  UpdateValueSum(UpdateValueSum(turned, n), lower)

(* The search for key k: where it ends, the parent of that place, and the  *)
(* side of the parent it is on.                                            *)
RECURSIVE Descend(_, _, _)
Descend(t, k, place) ==
  IF place.where \in {NullNode, k} THEN place
  ELSE LET side == IF k < place.where THEN "left" ELSE "right"
       IN  Descend(t, k, [where |-> t[place.where][side], parent |-> place.where,
                          side |-> side])

PlaceOf(t, k) ==
  Descend(t, k, [where |-> t[NullNode].left, parent |-> NullNode, side |-> "left"])

Find(t, k) == IF PlaceOf(t, k).where = k THEN k ELSE NoNode

(* The last node of n's subtree on a side.                                 *)
RECURSIVE Outermost(_, _, _)
Outermost(t, n, side) ==
  IF t[n][side] = NullNode THEN n ELSE Outermost(t, t[n][side], side)

(* Mutation of AncestorBeyond: only the parent is looked at.               *)
ParentOnly(t, n, side) == t[n].parent

(* The nearest ancestor that has n on the other side.                      *)
RECURSIVE AncestorBeyond(_, _, _)
AncestorBeyond(t, n, side) ==
  LET parent == t[n].parent
  IN  IF parent = NullNode \/ n # t[parent][side] THEN parent
      ELSE AncestorBeyond(t, parent, side)

(* RedBlackTreeInternalFindPrev ("left") and ...FindNext ("right").        *)
InternalFind(t, n, side) ==
  IF t[n][side] # NullNode THEN Outermost(t, t[n][side], Other(side))
  ELSE AncestorBeyond(t, n, side)

(* RedBlackTreeGetPrev and GetNext: the neighbour in the ring list.        *)
GetNeighbour(list, n, side) ==
  LET i == CHOOSE j \in DOMAIN list : list[j] = n
      j == IF side = "left" THEN i - 1 ELSE i + 1
  IN  IF j \in DOMAIN list THEN list[j] ELSE NoNode

(* RedBlackTreeGetNearestPrev and GetNearestNext.  The subtree of the      *)
(* parent on the searched side is the place the search ended at, so it is  *)
(* empty and only its ancestors remain.                                    *)
GetNearest(t, list, k, side) ==
  LET place == PlaceOf(t, k)
      above == AncestorBeyond(t, place.parent, side)
  IN  IF place.where = k THEN GetNeighbour(list, k, side)
      ELSE IF place.parent = NullNode THEN NoNode
      ELSE IF place.side = Other(side) THEN place.parent
      ELSE IF above = NullNode THEN NoNode ELSE above

BlackRoot(t) == [t EXCEPT ![t[NullNode].left].red = FALSE]

RECURSIVE InsertRepair(_, _, _)
InsertRepair(t, node, parent) ==
  LET grandpa == t[parent].parent
      side    == IF parent = t[grandpa].left THEN "left" ELSE "right"
      uncle   == t[grandpa][Other(side)]
      inner   == node = t[parent][Other(side)]
      turned  == IF inner THEN Rotate(t, parent, side) ELSE t
      upper   == IF inner THEN node ELSE parent
  IN  IF ~t[parent].red THEN t
      ELSE IF t[uncle].red
      THEN InsertRepair([t EXCEPT ![parent].red = FALSE, ![uncle].red = FALSE,
                                  ![grandpa].red = TRUE], grandpa, t[grandpa].parent)
      ELSE Rotate([turned EXCEPT ![upper].red = FALSE, ![grandpa].red = TRUE],
                  grandpa, Other(side))

(* A node linked at its place, its colour still black.                     *)
LinkNode(t, node, value) ==
  LET place == PlaceOf(t, node)
  IN  [t EXCEPT ![place.parent][place.side] = node,
                ![node] = [NodeNew EXCEPT !.parent = place.parent, !.left = NullNode,
                                          !.right = NullNode, !.value = value,
                                          !.sum = value]]

RedBlackTreeInsert(t, node, value) ==
  LET linked == LinkNode(t, node, value)
      parent == linked[node].parent
      summed == UpdateValueSumsUpToRoot(linked, parent)
  IN  BlackRoot(InsertRepair([summed EXCEPT ![node].red = TRUE], node, parent))

(* doubleLinkedRingListAddAfter the previous node, or AddHead.             *)
RingAdd(list, prev, node) ==
  LET i == IF prev = NullNode THEN 0 ELSE CHOOSE j \in DOMAIN list : list[j] = prev
  IN  InsertAt(list, i + 1, node)

(* A node with two children is replaced by its successor, which leaves its *)
(* own place to its right child.  Any other node is replaced by its child. *)
UnlinkNode(t, list, node) ==
  LET next  == GetNeighbour(list, node, "right")
      up    == t[next].parent
      place == IF t[up].left = next THEN "left" ELSE "right"
      child == t[next].right
      t1    == [t EXCEPT ![child].parent = up, ![up][place] = child]
      above == t1[node].parent
      t2    == [t1 EXCEPT ![next].parent = above, ![next].left = t1[node].left,
                          ![next].right = t1[node].right, ![t1[node].left].parent = next,
                          ![t1[node].right].parent = next, ![next].red = t1[node].red,
                          ![node].red = t1[next].red]
      side  == IF t2[above].left = node THEN "left" ELSE "right"
      t3    == [t2 EXCEPT ![above][side] = next]
      only  == IF t[node].left # NullNode THEN t[node].left ELSE t[node].right
      below == t[node].parent
      which == IF node = t[below].left THEN "left" ELSE "right"
      t4    == [t EXCEPT ![only].parent = below, ![below][which] = only]
  IN  IF t[node].left # NullNode /\ t[node].right # NullNode
      THEN [tree  |-> UpdateValueSumsUpToRoot(UpdateValueSumsUpToRoot(t3, next), up),
            child |-> child]
      ELSE [tree |-> UpdateValueSumsUpToRoot(t4, below), child |-> only]

RECURSIVE RemoveRepair(_, _)
RemoveRepair(t, child) ==
  LET parent == t[child].parent
      side   == IF child = t[parent].left THEN "left" ELSE "right"
      far    == Other(side)
      first  == t[parent][far]
      t1     == IF t[first].red
                THEN Rotate([t EXCEPT ![first].red = FALSE, ![parent].red = TRUE], parent, side)
                ELSE t
      sister == t1[parent][far]
      t2     == IF t1[t1[sister][far]].red THEN t1
                ELSE Rotate([t1 EXCEPT ![t1[sister][side]].red = FALSE, ![sister].red = TRUE],
                            sister, far)
      second == t2[parent][far]
  IN  IF t[child].red THEN [t EXCEPT ![child].red = FALSE]
      ELSE IF ~t1[t1[sister].left].red /\ ~t1[t1[sister].right].red
      THEN RemoveRepair([t1 EXCEPT ![sister].red = TRUE], parent)
      ELSE Rotate([t2 EXCEPT ![second].red = t2[parent].red,
                             ![t2[second][far]].red = FALSE, ![parent].red = FALSE],
                  parent, side)

(* The fields of a node that is not linked are all written again when it   *)
(* is inserted: here they are those of a new node.                         *)
RedBlackTreeRemove(t, list, node) ==
  LET unlinked == UnlinkNode(t, list, node)
      u        == unlinked.tree
      off      == [u EXCEPT ![node].parent = NoNode, ![node].left = NoNode,
                            ![node].right = NoNode]
      redRoot  == [off EXCEPT ![off[NullNode].left].red = TRUE]
      repaired == IF u[node].red THEN off
                  ELSE BlackRoot(RemoveRepair(redRoot, unlinked.child))
  IN  [repaired EXCEPT ![node] = NodeNew]

RECURSIVE NodeByValueFrom(_, _, _)
NodeByValueFrom(t, value, node) ==
  LET below == t[t[node].left].sum
  IN  IF value < below /\ t[node].left # NullNode
      THEN NodeByValueFrom(t, value, t[node].left)
      ELSE IF value >= below + t[node].value /\ t[node].right # NullNode
      THEN NodeByValueFrom(t, value - below - t[node].value, t[node].right)
      ELSE node

GetNodeByValue(t, value) == NodeByValueFrom(t, value, t[NullNode].left)

GetValueSum(t) == t[t[NullNode].left].sum

TreeInit == tree = TreeNew /\ ring = <<>>

(* An insertion.  With a key that is linked already it returns that node.  *)
InsertNode(n, value) ==
  /\ Find(tree, n) = NoNode
  /\ tree' = RedBlackTreeInsert(tree, n, value)
  /\ ring' = RingAdd(ring, InternalFind(LinkNode(tree, n, value), n, "left"), n)

(* A removal.  poolPolicySelectPoolElementNodesByValueTree and the updates *)
(* of pool elements write the node's value while it is still linked: the   *)
(* sums above it are wrong until the removal renews them.                  *)
RemoveNode(n, value) ==
  /\ IsLinked(tree, n)
  /\ tree' = RedBlackTreeRemove([tree EXCEPT ![n].value = value], ring, n)
  /\ ring' = SelectSeq(ring, LAMBDA m : m # n)

TreeNext ==
  \E n \in Key : \/ \E v \in NodeValues : InsertNode(n, v)
                 \/ \E v \in NodeValues \cup {0} : RemoveNode(n, v)

TreeSpec == TreeInit /\ [][TreeNext]_treeVars

-----------------------------------------------------------------------------
Linked == {n \in Key : IsLinked(tree, n)}

(* The number of black nodes on every path down from n, or -1 where two    *)
(* paths disagree, a red node has a red child, or a parent pointer is      *)
(* wrong.                                                                  *)
RECURSIVE BlackHeight(_, _)
BlackHeight(n, parent) ==
  LET left  == BlackHeight(tree[n].left, n)
      right == BlackHeight(tree[n].right, n)
  IN  IF n = NullNode THEN 1
      ELSE IF \/ tree[n].parent # parent
              \/ left # right
              \/ tree[n].red /\ (tree[tree[n].left].red \/ tree[tree[n].right].red)
      THEN -1
      ELSE IF tree[n].red \/ left = -1 THEN left ELSE left + 1

(* What redBlackTreeVerify tests, after every sequence of insertions and   *)
(* removals: equal black heights, no red child of a red node, parent       *)
(* pointers and value sums right, NullNode black and without value, and    *)
(* the ring list running through exactly the linked nodes in key order,    *)
(* the same order that the walk through the tree gives.                    *)
RedBlackTreeVerify ==
  /\ BlackHeight(tree[NullNode].left, NullNode) > 0
  /\ ~tree[NullNode].red /\ tree[NullNode].sum = 0 /\ tree[NullNode].right = NullNode
  /\ \A n \in Linked : tree[n].sum = tree[tree[n].left].sum + tree[n].value
                                     + tree[tree[n].right].sum
  /\ ring = SetToSortSeq(Linked, <)
  /\ \A i \in DOMAIN ring :
       /\ InternalFind(tree, ring[i], "left") = IF i = 1 THEN NullNode ELSE ring[i - 1]
       /\ InternalFind(tree, ring[i], "right") = IF i = Len(ring) THEN NullNode
                                                ELSE ring[i + 1]

(* What searches find, whatever the shape of the tree and its history.     *)
(* Draws are exact: of the numbers below the value sum of the tree,        *)
(* redBlackTreeGetNodeByValue maps as many to a node as its value says.    *)
(* GetNearestPrev and GetNearestNext give the largest smaller and the      *)
(* smallest larger linked key for any key, linked or not: the handle table *)
(* extraction, the peer list and the ownership storages resume from a key  *)
(* that may have been removed in the meantime.                             *)
SearchesExact ==
  /\ \A n \in Linked : tree[n].value =
       Cardinality({v \in 0 .. GetValueSum(tree) - 1 : GetNodeByValue(tree, v) = n})
  /\ \A k \in Key :
       LET smaller == {n \in Linked : n < k}
           larger  == {n \in Linked : n > k}
       IN  /\ GetNearest(tree, ring, k, "left") =
                IF smaller = {} THEN NoNode ELSE Max(smaller)
           /\ GetNearest(tree, ring, k, "right") =
                IF larger = {} THEN NoNode ELSE Min(larger)
=============================================================================
