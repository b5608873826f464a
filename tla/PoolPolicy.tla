----------------------------- MODULE PoolPolicy -----------------------------
(***************************************************************************)
(* One pool and the selection of pool elements by its policy:              *)
(* poolpolicy-template_impl.h, poolnode-template_impl.h and the update of  *)
(* a pool element node.                                                    *)
(*                                                                         *)
(* A pool node keeps its pool elements in two storages: the index (by      *)
(* identifier) and the selection storage, sorted by the comparison of the  *)
(* pool's policy.  The storages are search trees: a node whose keys change *)
(* while it is linked would be in the wrong place, and two nodes with      *)
(* equal keys cannot both be linked.  Sequence and round counters are      *)
(* 32 bits wide and start 16 below their end, so every pool meets the wrap *)
(* after a few selections; here they have SeqModulus values.               *)
(***************************************************************************)
EXTENDS Integers, Sequences, SequencesExt, FiniteSetsExt

CONSTANTS Policy,          \* the policies of the pools that are explored
          Element,         \* pool element identifiers, positive numbers
          SeqModulus,      \* 2^32 in the code
          SeqNumberStart,  \* first sequence number and first round
          MaxLoad,         \* PPV_MAX_LOAD: where load values saturate
          Weights, Loads, Degradations, Distances,  \* of registrations
          MaxItems,        \* MaxHandleResolutionItems
          MaxIncrements,   \* values of the registrar's MaxIncrement
          MaxChanges       \* registrations, re-registrations and removals

ASSUME PolicyAssumption ==
  /\ Element \subseteq Nat \ {0} /\ IsFiniteSet(Element)
  /\ SeqModulus \in Nat /\ SeqNumberStart \in 0 .. SeqModulus - 1
  /\ MaxLoad \in Nat /\ Weights \subseteq Nat /\ Loads \subseteq 0 .. MaxLoad
  /\ Degradations \subseteq 0 .. MaxLoad /\ Distances \subseteq Nat
  /\ MaxItems \in Nat \ {0} /\ MaxIncrements \subseteq Nat /\ MaxChanges \in Nat
  /\ SeqModulus > Cardinality(Element) + MaxItems

VARIABLES poolNode,   \* the pool: policy, GlobalSeqNumber, nodes, selection storage,
                      \* and the increment the registrar selects with
          picks,      \* how often each element was updated by a selection since
                      \* the last change of the pool (reduced, see Reduced)
          changes,    \* registrations, re-registrations and removals so far
          disturbed   \* a registration has moved a round counter: it wrapped, or a
                      \* node was linked anew with another weight

policyVars == <<poolNode, picks, changes, disturbed>>

-----------------------------------------------------------------------------
(* The policies.                                                           *)

\* What the policies that sort by load add up.
LoadTerms ==
  [LeastUsed |-> {"load"}, LeastUsedDPF |-> {"load", "dpf"},
   LeastUsedDegradation |-> {"load", "degraded"},
   LeastUsedDegradationDPF |-> {"load", "degraded", "dpf"},
   PriorityLeastUsed |-> {"load", "degradation"},
   PriorityLeastUsedDPF |-> {"load", "degradation", "dpf"},
   PriorityLeastUsedDegradation |-> {"load", "degradation", "degraded"},
   PriorityLeastUsedDegradationDPF |-> {"load", "degradation", "degraded", "dpf"}]

\* What the randomized policies subtract from the greatest load.
ValueTerms ==
  [RandomizedLeastUsed |-> {"load"},
   RandomizedLeastUsedDegradation |-> {"load", "degraded"},
   RandomizedPriorityLeastUsed |-> {"load", "degradation"},
   RandomizedPriorityLeastUsedDegradation |-> {"load", "degradation", "degraded"}]

ByValueTree(policy) ==
  policy \in {"Random", "WeightedRandom", "WeightedRandomDPF"} \cup DOMAIN ValueTerms

DefaultMaxIncrement(policy) ==
  IF policy \in {"Random", "WeightedRandom", "WeightedRandomDPF"} THEN 0 ELSE 1

\* A penalty of Distance * DPF, where a DPF is a share of the greatest load:
\* rint(Distance * (DPF / MAX) * MAX).
Term(n, t) ==
  CASE t = "load" -> n.settings.load
    [] t = "degradation" -> n.settings.degradation
    [] t = "degraded" -> n.degraded
    [] t = "dpf" -> n.settings.distance * n.settings.dpf

Total(n, terms) == MapThenSumSet(LAMBDA t : Term(n, t), terms)

GetSum(n, terms) == Min({Total(n, terms), MaxLoad})

GetValueFraction(n, terms) == Max({MaxLoad - Total(n, terms), 1})

\* rint: to the nearest integer, halves to the even one.
Rint(a, b) == CHOOSE r \in {a \div b, a \div b + 1} :
  \/ 2 * a - 2 * b * r \in (-b + 1) .. (b - 1)
  \/ 2 * a - 2 * b * r \in {-b, b} /\ r % 2 = 0

\* The keys the comparison function of the policy goes through, in order.
SortKeys(policy, id, n) ==
  CASE policy = "RoundRobin" -> <<n.seq>>
    [] policy = "WeightedRoundRobin" -> <<n.round, n.virtual, n.seq>>
    [] policy = "Priority" -> <<-n.settings.weight, n.seq>>
    [] policy \in DOMAIN LoadTerms -> <<GetSum(n, LoadTerms[policy]), n.seq>>
    [] OTHER -> <<id>>

Before(p, a, b) ==
  LET ka == SortKeys(p.policy, a, p.node[a])
      kb == SortKeys(p.policy, b, p.node[b])
  IN \E i \in DOMAIN ka : ka[i] < kb[i] /\ \A j \in 1 .. i - 1 : ka[j] = kb[j]

\* UpdatePoolElementNodeFunction of the policy.
WeightedRoundRobinUpdate(n) ==
  IF n.virtual > 1
    THEN [n EXCEPT !.virtual = @ - 1]
    ELSE [n EXCEPT !.round = (@ + 1) % SeqModulus, !.virtual = n.settings.weight]

LeastUsedDegradationUpdate(n) ==
  [n EXCEPT !.degraded = Min({@ + n.settings.degradation, MaxLoad})]

\* A weight below zero becomes 1, a weight of zero stays.
WeightedRandomDPFValue(n) ==
  LET value == n.settings.weight
                 - Rint(n.settings.weight * n.settings.distance * n.settings.dpf, MaxLoad)
  IN IF value < 0 THEN 1 ELSE value

UpdateNode(policy, n) ==
  CASE policy = "WeightedRoundRobin" -> WeightedRoundRobinUpdate(n)
    [] policy = "Random" -> [n EXCEPT !.value = 1]
    [] policy = "WeightedRandom" -> [n EXCEPT !.value = n.settings.weight]
    [] policy = "WeightedRandomDPF" -> [n EXCEPT !.value = WeightedRandomDPFValue(n)]
    [] policy \in DOMAIN ValueTerms ->
         [n EXCEPT !.value = GetValueFraction(n, ValueTerms[policy])]
    [] policy \in DOMAIN LoadTerms ->
         IF "degraded" \in LoadTerms[policy] THEN LeastUsedDegradationUpdate(n) ELSE n
    [] OTHER -> n

-----------------------------------------------------------------------------
(* The pool node.                                                          *)

Unlink(p, id) == [p EXCEPT !.selection = Remove(@, id)]

\* Linking runs the policy's update function before it inserts the node.
Link(p, id) ==
  LET q == [p EXCEPT !.node[id] = UpdateNode(p.policy, @)]
      k == Cardinality({i \in DOMAIN q.selection : Before(q, q.selection[i], id)})
  IN [q EXCEPT !.selection = InsertAt(@, k + 1, id)]

Resequence(p) ==
  [p EXCEPT !.global = Len(p.selection),
            !.node = [id \in DOMAIN @ |->
                        IF Contains(p.selection, id)
                          THEN [@[id] EXCEPT !.seq = CHOOSE i \in 0 .. Len(p.selection) - 1 :
                                                        p.selection[i + 1] = id]
                          ELSE @[id]]]

\* Would the counter wrap within the next n numbers?
Wraps(counter, n) == (counter + n) % SeqModulus < counter

ResequenceFor(p, n) == IF Wraps(p.global, n) THEN Resequence(p) ELSE p

GetCurrentRoundCounter(p) ==
  IF p.selection = <<>> THEN SeqNumberStart ELSE p.node[p.selection[1]].round

ResetRoundCounters(p) ==
  [p EXCEPT !.node = [id \in DOMAIN @ |->
     [@[id] EXCEPT !.round = (@ - GetCurrentRoundCounter(p)) % SeqModulus]]]

\* Mutation of PrepareSelection: the round counters just wrap.
PrepareNothing(p) == p

PrepareSelection(p) ==
  IF p.policy = "WeightedRoundRobin" /\ Wraps(GetCurrentRoundCounter(p), 2)
    THEN ResetRoundCounters(p) ELSE p

NewNode(s) ==
  [settings |-> s, seq |-> 0, round |-> 0, virtual |-> 0, degraded |-> 0, value |-> 0]

\* Sequence number, counters and the policy's initialisation of a new node.
AddPoolElementNode(p, id, s) ==
  LET q == ResequenceFor(p, 1)
      fresh == [NewNode(s) EXCEPT
                  !.seq = q.global,
                  !.round = IF p.policy = "WeightedRoundRobin" THEN GetCurrentRoundCounter(q) ELSE 0,
                  !.virtual = IF p.policy = "WeightedRoundRobin" THEN s.weight ELSE 0]
  IN Link([q EXCEPT !.node = [i \in DOMAIN q.node \cup {id} |->
                                IF i = id THEN fresh ELSE q.node[i]],
                    !.global = (@ + 1) % SeqModulus], id)

\* Mutation of UpdatePoolElementNode: the node is not linked anew.
UpdateInPlace(p, id, s) ==
  [p EXCEPT !.node[id].settings = s, !.node[id].degraded = 0,
            !.node[id].virtual = Min({@, s.weight})]

\* Settings that did not change keep the node where it is, unless it is degraded.
UpdatePoolElementNode(p, id, s) ==
  IF p.node[id].settings = s /\ p.node[id].degraded = 0 THEN p
  ELSE Link(Unlink([p EXCEPT !.node[id].settings = s,
                             !.node[id].degraded = 0,
                             !.node[id].virtual = Min({@, s.weight})], id), id)

RemovePoolElementNode(p, id) ==
  [Unlink(p, id) EXCEPT !.node = [i \in DOMAIN @ \ {id} |-> @[i]]]

\* A selected node gets the next sequence number.
Numbered(p, id) ==
  [p EXCEPT !.node[id].seq = p.global, !.global = (@ + 1) % SeqModulus]

Updated(p, id) == [p EXCEPT !.node[id] = UpdateNode(p.policy, @)]

Prepared(p, items) == PrepareSelection(ResequenceFor(p, items))

Increment(p) == IF p.maxIncrement = 0 THEN DefaultMaxIncrement(p.policy) ELSE p.maxIncrement

\* SelectPoolElementNodesBySortingOrder: the first ones of the selection
\* storage, of which as many as the increment says are put back behind.
SelectBySortingOrder(p, items) ==
  LET q == Prepared(p, items)
      chosen == SubSeq(q.selection, 1, Min({items, Len(q.selection)}))
      moved == SubSeq(chosen, 1, Min({Increment(p), Len(chosen)}))
  IN {[pool |-> FoldLeft(LAMBDA r, id : Link(Updated(Numbered(Unlink(r, id), id), id), id),
                         q, moved),
       chosen |-> chosen, moved |-> ToSet(moved)]}

\* NodeByValue: the node in whose share of the value sum the value lies.
ValueSum(p, n) == MapThenSumSet(LAMBDA i : p.node[p.selection[i]].value, 1 .. n)

NodeByValue(p, value) ==
  p.selection[CHOOSE i \in DOMAIN p.selection : ValueSum(p, i - 1) <= value /\ value < ValueSum(p, i)]

\* Mutation of SetAside: a node can be drawn again.
LeftInStorage(p, id) == p

\* A node that was drawn is out of the storage until the selection ends.
SetAside(p, id) == Unlink(p, id)

\* One draw: nothing more when no value is left.
Draw(d) ==
  LET p == d.pool
      sum == ValueSum(p, Len(p.selection))
  IN IF sum < 1 THEN {d}
     ELSE {LET id == NodeByValue(p, value)
               q == Numbered(p, id)
               r == IF Len(d.chosen) < Increment(p) THEN Updated(q, id) ELSE q
           IN [pool |-> SetAside(r, id), chosen |-> Append(d.chosen, id), moved |-> {}] :
             value \in 0 .. sum - 1}

\* SelectPoolElementNodesByValueTree: every chosen node leaves the storage, so
\* that it is not drawn twice, and all of them return at the end.
SelectByValueTree(p, items) ==
  LET start == [pool |-> Prepared(p, items), chosen |-> <<>>, moved |-> {}]
      draws == Min({items, Len(p.selection)})
      drawn == FoldLeft(LAMBDA D, i : UNION {Draw(d) : d \in D},
                        {start}, [i \in 1 .. draws |-> i])
  IN {[d EXCEPT !.pool = FoldLeft(Link, d.pool, d.chosen)] : d \in drawn}

Selections(p, items) ==
  IF ByValueTree(p.policy) THEN SelectByValueTree(p, items)
                           ELSE SelectBySortingOrder(p, items)

-----------------------------------------------------------------------------
(* Registrations and handle resolutions of one pool.                       *)

\* The settings registrations come with; what a policy does not look at is
\* left at its smallest value.
Settings(policy) ==
  LET terms == IF policy \in DOMAIN LoadTerms THEN LoadTerms[policy]
               ELSE IF policy \in DOMAIN ValueTerms THEN ValueTerms[policy] ELSE {}
      weighted == {"WeightedRoundRobin", "WeightedRandom", "WeightedRandomDPF", "Priority"}
      far == "dpf" \in terms \/ policy = "WeightedRandomDPF"
  IN [weight : IF policy \in weighted THEN Weights ELSE {1},
      load : IF "load" \in terms THEN Loads ELSE {0},
      degradation : IF terms \cap {"degradation", "degraded"} # {} THEN Degradations ELSE {0},
      distance : IF far THEN Distances ELSE {0},
      dpf : IF far THEN {1} ELSE {0}]

NoPicks(p) == [id \in DOMAIN p.node |-> 0]

PolicyInit ==
  \E policy \in Policy, increment \in MaxIncrements :
    /\ poolNode = [policy |-> policy, maxIncrement |-> increment, global |-> SeqNumberStart,
                   node |-> [id \in {} |-> 0], selection |-> <<>>]
    /\ picks = NoPicks(poolNode)
    /\ changes = 0
    /\ disturbed = FALSE

\* A history of the selections stays finite when everybody's share of the
\* turns (one turn, or its weight in turns) is taken off once all had theirs.
\* A weight of 0 is good for one turn in a round, as a weight of 1 is.
Share(p, id) ==
  IF p.policy = "WeightedRoundRobin" THEN Max({p.node[id].settings.weight, 1}) ELSE 1

Reduced(p, count) ==
  IF \A id \in DOMAIN count : count[id] >= Share(p, id)
    THEN [id \in DOMAIN count |-> count[id] - Share(p, id)] ELSE count

\* A node that advances in the last round is in round 0, before all others.
\* A selection prepares for that, a registration does not.
RoundWraps(p, q) ==
  /\ p.policy = "WeightedRoundRobin"
  /\ \E id \in DOMAIN q.node :
       q.node[id].round < (IF id \in DOMAIN p.node THEN p.node[id].round
                                                   ELSE GetCurrentRoundCounter(p))

Reweighted(p, q) ==
  /\ p.policy = "WeightedRoundRobin"
  /\ \E id \in DOMAIN p.node \cap DOMAIN q.node : p.node[id].settings # q.node[id].settings

\* The turns of round robin, and of weighted round robin with one turn at a
\* time: with a greater increment, the weights are not what counts.
TurnsCount ==
  \/ poolNode.policy = "RoundRobin"
  \/ poolNode.policy = "WeightedRoundRobin" /\ Increment(poolNode) = 1 /\ ~disturbed

Changed(p) ==
  /\ changes < MaxChanges
  /\ changes' = changes + 1
  /\ poolNode' = p
  /\ picks' = NoPicks(p)
  /\ disturbed' = (disturbed \/ RoundWraps(poolNode, p) \/ Reweighted(poolNode, p))

AddToPool ==
  \E id \in Element \ DOMAIN poolNode.node, s \in Settings(poolNode.policy) :
    Changed(AddPoolElementNode(poolNode, id, s))

UpdateInPool ==
  \E id \in DOMAIN poolNode.node, s \in Settings(poolNode.policy) :
    Changed(UpdatePoolElementNode(poolNode, id, s))

RemoveFromPool ==
  \E id \in DOMAIN poolNode.node : Changed(RemovePoolElementNode(poolNode, id))

HandleResolution ==
  /\ DOMAIN poolNode.node # {}
  /\ \E items \in 1 .. MaxItems :
       \E r \in Selections(poolNode, items) :
         /\ poolNode' = r.pool
         /\ picks' = IF TurnsCount
                       THEN Reduced(r.pool, [id \in DOMAIN picks |->
                              IF id \in r.moved THEN picks[id] + 1 ELSE picks[id]])
                       ELSE picks
  /\ UNCHANGED <<changes, disturbed>>

PolicyNext == AddToPool \/ UpdateInPool \/ RemoveFromPool \/ HandleResolution

PolicySpec == PolicyInit /\ [][PolicyNext]_policyVars

-----------------------------------------------------------------------------
\* The selection storage holds the elements of the index, each once, strictly
\* ordered by the policy's comparison over the keys the nodes have now: no
\* update, resequencing (poolNodeResequence) or reset of the round counters
\* leaves a node out of place, whenever the sequence numbers wrap.
SelectionSorted ==
  /\ ToSet(poolNode.selection) = DOMAIN poolNode.node
  /\ \A i, j \in DOMAIN poolNode.selection :
       i < j => Before(poolNode, poolNode.selection[i], poolNode.selection[j])

\* As long as the pool does not change, the elements take turns, across every
\* wrap of the sequence numbers and round counters.  Round robin: the turns of
\* two elements (the selections that put an element back behind the others)
\* differ by at most one.  Weighted round robin: they stay proportional to
\* the weights, up to two rounds, and an element of weight 0 has the turns of
\* one of weight 1 (poolNodeResequence, weightedRoundRobinResetRoundCounters,
\* weightedRoundRobinUpdatePoolElementNode).
TurnsTaken ==
  /\ poolNode.policy = "RoundRobin" =>
       \A a, b \in DOMAIN picks : picks[a] <= picks[b] + 1
  /\ poolNode.policy = "WeightedRoundRobin" /\ TurnsCount =>
       \A a, b \in DOMAIN picks :
         picks[a] * Share(poolNode, b) <= (picks[b] + 2 * Share(poolNode, b)) * Share(poolNode, a)

\* The elements that a selection can come to, by the settings they registered
\* with: a random selection goes by shares of the value sum, and an element of
\* weight 0, which poolPolicySettingsIsValid() accepts, or of a distance that
\* leaves nothing of its weight, has none.
Eligible(p) ==
  {id \in DOMAIN p.node : ByValueTree(p.policy) => UpdateNode(p.policy, p.node[id]).value > 0}

\* A handle resolution gives as many different elements as it may and as there
\* are to come to, for every value that is drawn: no element that was drawn is
\* drawn again, and none with a share is left out for one that has none
\* (SelectPoolElementNodesBySortingOrder, SelectPoolElementNodesByValueTree).
\* A pool where no element has a share gives none.
ResolutionComplete ==
  \A items \in 1 .. MaxItems :
    \A r \in Selections(poolNode, items) :
      /\ IsInjective(r.chosen)
      /\ ToSet(r.chosen) \subseteq Eligible(poolNode)
      /\ Len(r.chosen) = Min({items, Cardinality(Eligible(poolNode))})
=============================================================================
