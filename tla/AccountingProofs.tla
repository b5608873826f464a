-------------------------- MODULE AccountingProofs --------------------------
(***************************************************************************)
(* Proofs about numbers that the code never computes anew, only updates:   *)
(* the checksums and counters of the handlespace and the peer list of a    *)
(* registrar, for any pool elements, peers, connections and any width of   *)
(* the checksums; the loads of the server of a pool element, for any       *)
(* number of sessions, any loads and any limits.                           *)
(***************************************************************************)
EXTENDS Handlespace, PoolServer, FiniteSetTheorems, TLAPS

-----------------------------------------------------------------------------
(* Sums *)

\* A set of numbers that is not empty has a smallest one: what is false of some
\* number is false of a smallest one, which is how the recursions are followed.
LEMMA SmallestNumber ==
  ASSUME NEW C, C \subseteq Nat, C # {}
  PROVE  \E n \in C : \A m \in C : n <= m
<1>1. PICK n \in C : \A m \in C : ~(<<m, n>> \in OpToRel(<, Nat))
  BY Zenon, NatLessThanWellFounded, WFMin
<1>2. \A m \in C : ~(m < n)
  BY Zenon, <1>1 DEF OpToRel
<1> QED
  BY <1>2

Pick(T) == CHOOSE x \in T : TRUE

Step(f, g, T) == IF T = {} THEN 0 ELSE f[Pick(T)] + g[T \ {Pick(T)}]

Partial(f, S) == CHOOSE g : g = [T \in SUBSET S |-> Step(f, g, T)]

\* SumFunctionOnSet is the value of the partial sums at the whole set.
LEMMA SumIsPartial ==
  ASSUME NEW f, NEW S
  PROVE  SumFunctionOnSet(f, S) = Partial(f, S)[S]
  BY DEF SumFunctionOnSet, FoldFunctionOnSet, MapThenFoldSet, Partial, Step, Pick

\* The subsets of S with at most n elements.
Level(S, n) == {T \in SUBSET S : Cardinality(T) <= n}

\* Without the element picked from it, a finite set has one element less.
LEMMA PickRemoves ==
  ASSUME NEW S, IsFiniteSet(S), NEW T \in SUBSET S, T # {}
  PROVE  /\ Pick(T) \in T
         /\ T \ {Pick(T)} \in SUBSET S
         /\ Cardinality(T) \in Nat
         /\ Cardinality(T \ {Pick(T)}) = Cardinality(T) - 1
         /\ Cardinality(T) >= 1
<1>1. Pick(T) \in T
  BY DEF Pick
<1>2. IsFiniteSet(T) /\ Cardinality(T) \in Nat
  BY FS_Subset, FS_CardinalityType
<1>3. Cardinality(T \ {Pick(T)}) = Cardinality(T) - 1
  BY Zenon, <1>1, <1>2, FS_RemoveElement
<1>4. Cardinality(T) # 0
  BY <1>2, FS_EmptySet
<1> QED
  BY <1>1, <1>2, <1>3, <1>4

\* Only the empty set has no more than zero elements.
LEMMA LevelZero ==
  ASSUME NEW S, IsFiniteSet(S), NEW T \in Level(S, 0)
  PROVE  T = {}
<1> SUFFICES ASSUME T # {} PROVE FALSE
  OBVIOUS
<1>1. T \in SUBSET S /\ Cardinality(T) <= 0
  BY DEF Level
<1>2. Cardinality(T) \in Nat /\ Cardinality(T) >= 1
  BY Zenon, <1>1, PickRemoves
<1> QED
  BY <1>1, <1>2

\* Some function adds up f over these sets.
Summable(f, S, n) == \E g : g = [T \in Level(S, n) |-> Step(f, g, T)]

\* Partial sums are defined over the subsets of any size, one size at a time.
LEMMA PartialUpTo ==
  ASSUME NEW f, NEW S, IsFiniteSet(S), NEW n \in Nat
  PROVE  Summable(f, S, n)
<1> DEFINE Good(k) == \E g : g = [T \in Level(S, k) |-> Step(f, g, T)]
           C == {k \in Nat : ~Good(k)}
<1> SUFFICES ASSUME C # {} PROVE FALSE
  BY DEF Summable
<1>1. PICK k \in C : \A m \in C : k <= m
  BY Zenon, SmallestNumber
<1>2. CASE k = 0
  <2> DEFINE g == [T \in Level(S, 0) |-> 0]
  <2>1. \A T \in Level(S, 0) : T = {}
    BY LevelZero
  <2>2. g = [T \in Level(S, 0) |-> Step(f, g, T)]
    BY <2>1 DEF Step
  <2> QED
    BY <1>1, <1>2, <2>2
<1>3. CASE k # 0
  <2>1. k - 1 \in Nat /\ Good(k - 1)
    BY <1>1, <1>3
  <2>2. PICK g : g = [T \in Level(S, k - 1) |-> Step(f, g, T)]
    BY <2>1
  <2> DEFINE h == [T \in Level(S, k) |-> IF T \in Level(S, k - 1) THEN g[T] ELSE Step(f, g, T)]
  <2>3. \A T \in Level(S, k) : T # {} => T \ {Pick(T)} \in Level(S, k - 1) /\ T \ {Pick(T)} \in Level(S, k)
    BY <2>1, PickRemoves DEF Level
  <2>4. \A T \in Level(S, k) : h[T] = Step(f, g, T)
    BY <2>2
  <2>5. \A T \in Level(S, k - 1) : T \in Level(S, k) => h[T] = g[T]
    OBVIOUS
  <2>6. \A T \in Level(S, k) : Step(f, g, T) = Step(f, h, T)
    BY <2>3, <2>5 DEF Step
  <2>7. h = [T \in Level(S, k) |-> Step(f, h, T)]
    BY <2>4, <2>6
  <2> QED
    BY Zenon, <1>1, <2>7
<1> QED
  BY <1>2, <1>3

\* The partial sums are defined over all subsets of a finite set.
LEMMA PartialStep ==
  ASSUME NEW f, NEW S, IsFiniteSet(S), NEW T \in SUBSET S
  PROVE  Partial(f, S)[T] = Step(f, Partial(f, S), T)
<1>1. Cardinality(S) \in Nat
  BY FS_CardinalityType
<1>2. PICK g : g = [X \in Level(S, Cardinality(S)) |-> Step(f, g, X)]
  <2>1. Summable(f, S, Cardinality(S))
    BY <1>1, PartialUpTo
  <2> QED
    BY <2>1 DEF Summable
<1>3. Level(S, Cardinality(S)) = SUBSET S
  BY FS_Subset DEF Level
<1>4. g = [X \in SUBSET S |-> Step(f, g, X)]
  BY <1>2, <1>3
<1> DEFINE h == Partial(f, S)
<1>5. h = [X \in SUBSET S |-> Step(f, h, X)]
  BY <1>4 DEF Partial
<1> HIDE DEF h
<1>6. h[T] = Step(f, h, T)
  BY <1>5
<1> QED
  BY <1>6 DEF h

\* The sum over a set does not depend on the set of which it is seen as a part.
LEMMA PartialSame ==
  ASSUME NEW f, NEW S, IsFiniteSet(S), NEW U \in SUBSET S
  PROVE  Partial(f, S)[U] = Partial(f, U)[U]
<1> DEFINE Bad(n) == \E T \in SUBSET U : Cardinality(T) = n /\ Partial(f, S)[T] # Partial(f, U)[T]
           C == {n \in Nat : Bad(n)}
<1>1. IsFiniteSet(U)
  BY FS_Subset
<1>2. C = {}
  <2> SUFFICES ASSUME C # {} PROVE FALSE
    OBVIOUS
  <2>1. PICK n \in C : \A m \in C : n <= m
    BY Zenon, SmallestNumber
  <2>2. PICK T \in SUBSET U : Cardinality(T) = n /\ Partial(f, S)[T] # Partial(f, U)[T]
    BY <2>1
  <2>3. Partial(f, S)[T] = Step(f, Partial(f, S), T) /\ Partial(f, U)[T] = Step(f, Partial(f, U), T)
    BY <1>1, PartialStep
  <2>4. T # {}
    BY <2>2, <2>3 DEF Step
  <2> DEFINE V == T \ {Pick(T)}
  <2>5. V \in SUBSET U /\ Cardinality(V) = n - 1 /\ n - 1 \in Nat
    BY <1>1, <2>2, <2>4, PickRemoves
  <2>6. n - 1 \notin C
    BY <2>1, <2>5
  <2>7. Partial(f, S)[V] = Partial(f, U)[V]
    BY <2>5, <2>6
  <2> QED
    BY <2>2, <2>3, <2>4, <2>7 DEF Step
<1>3. Cardinality(U) \in Nat
  BY <1>1, FS_CardinalityType
<1> QED
  BY <1>2, <1>3

\* The sum over a set, by what its elements add to it.
LEMMA SumRecursion ==
  ASSUME NEW f, NEW S, IsFiniteSet(S)
  PROVE  SumFunctionOnSet(f, S) =
           IF S = {} THEN 0 ELSE f[Pick(S)] + SumFunctionOnSet(f, S \ {Pick(S)})
<1>1. Partial(f, S)[S] = Step(f, Partial(f, S), S)
  BY PartialStep
<1>2. S # {} => Partial(f, S)[S \ {Pick(S)}] = Partial(f, S \ {Pick(S)})[S \ {Pick(S)}]
  BY PartialSame
<1> QED
  BY <1>1, <1>2, SumIsPartial DEF Step

\* The sum over nothing.
LEMMA SumEmpty ==
  ASSUME NEW f
  PROVE  SumFunctionOnSet(f, {}) = 0
  BY Zenon, SumRecursion, FS_EmptySet

\* The sum over a set is that of the picked element and that of the rest.
LEMMA SumPick ==
  ASSUME NEW f, NEW S, IsFiniteSet(S), S # {}
  PROVE  SumFunctionOnSet(f, S) = f[Pick(S)] + SumFunctionOnSet(f, S \ {Pick(S)})
  BY SumRecursion

\* A sum of integers is an integer.
LEMMA SumType ==
  ASSUME NEW S, IsFiniteSet(S), NEW f, \A x \in S : f[x] \in Int
  PROVE  SumFunctionOnSet(f, S) \in Int
<1> DEFINE C == {n \in Nat : \E T \in SUBSET S : Cardinality(T) = n /\ SumFunctionOnSet(f, T) \notin Int}
<1>1. C = {}
  <2> SUFFICES ASSUME C # {} PROVE FALSE
    OBVIOUS
  <2>1. PICK n \in C : \A m \in C : n <= m
    BY Zenon, SmallestNumber
  <2>2. PICK T \in SUBSET S : Cardinality(T) = n /\ SumFunctionOnSet(f, T) \notin Int
    BY <2>1
  <2>3. IsFiniteSet(T)
    BY FS_Subset
  <2>4. T # {}
    BY <2>2, SumEmpty
  <2> DEFINE V == T \ {Pick(T)}
  <2>5. Pick(T) \in S /\ V \in SUBSET S /\ Cardinality(V) = n - 1 /\ n - 1 \in Nat
    <3>1. /\ Pick(T) \in T
          /\ Cardinality(T) \in Nat
          /\ Cardinality(V) = Cardinality(T) - 1
          /\ Cardinality(T) >= 1
      BY Zenon, <2>4, PickRemoves
    <3> QED
      BY <2>2, <3>1
  <2>6. SumFunctionOnSet(f, V) \in Int
    BY <2>1, <2>5
  <2> QED
    BY <2>2, <2>3, <2>4, <2>5, <2>6, SumPick
<1>2. Cardinality(S) \in Nat
  BY FS_CardinalityType
<1> QED
  BY <1>1, <1>2

\* Any element can be taken out of a sum.
LEMMA SumRemove ==
  ASSUME NEW S, IsFiniteSet(S), NEW f, \A x \in S : f[x] \in Int, NEW y \in S
  PROVE  SumFunctionOnSet(f, S) = f[y] + SumFunctionOnSet(f, S \ {y})
<1> DEFINE Total(T) == SumFunctionOnSet(f, T)
           Bad(T) == \E x \in T : Total(T) # f[x] + Total(T \ {x})
           C == {n \in Nat : \E T \in SUBSET S : Cardinality(T) = n /\ Bad(T)}
<1>1. C = {}
  <2> SUFFICES ASSUME C # {} PROVE FALSE
    OBVIOUS
  <2>1. PICK n \in C : \A m \in C : n <= m
    BY Zenon, SmallestNumber
  <2>2. PICK T \in SUBSET S : Cardinality(T) = n /\ Bad(T)
    BY <2>1
  <2>3. PICK x \in T : Total(T) # f[x] + Total(T \ {x})
    BY Zenon, <2>2
  <2> DEFINE c == Pick(T)
  <2>4. IsFiniteSet(T) /\ IsFiniteSet(T \ {c}) /\ IsFiniteSet(T \ {x}) /\ IsFiniteSet(T \ {c, x})
    BY FS_Subset
  <2>5. c \in T /\ T \ {c} \in SUBSET S /\ Cardinality(T \ {c}) = n - 1 /\ n - 1 \in Nat
    <3>1. /\ c \in T
          /\ Cardinality(T) \in Nat
          /\ Cardinality(T \ {c}) = Cardinality(T) - 1
          /\ Cardinality(T) >= 1
      BY PickRemoves
    <3> QED
      BY <2>2, <3>1
  <2>6. Total(T) = f[c] + Total(T \ {c})
    BY <2>3, <2>4, SumPick
  <2>7. x # c
    BY <2>3, <2>6
  <2>8. Cardinality(T \ {x}) = n - 1 /\ T \ {x} \in SUBSET S
    BY <2>2, <2>3, <2>4, FS_RemoveElement
  <2>9. n - 1 \notin C
    BY <2>1, <2>5
  <2>10. ~Bad(T \ {c}) /\ ~Bad(T \ {x})
    BY Zenon, <2>5, <2>8, <2>9
  <2>11. Total(T \ {c}) = f[x] + Total((T \ {c}) \ {x})
    BY Zenon, <2>3, <2>7, <2>10
  <2>12. Total(T \ {x}) = f[c] + Total((T \ {x}) \ {c})
    BY Zenon, <2>5, <2>7, <2>10
  <2>13. (T \ {c}) \ {x} = T \ {c, x} /\ (T \ {x}) \ {c} = T \ {c, x}
    OBVIOUS
  <2>14. Total(T \ {c, x}) \in Int /\ f[x] \in Int /\ f[c] \in Int
    BY <2>3, <2>4, <2>5, SumType
  <2> DEFINE rest == Total(T \ {c, x})
  <2>15. Total(T) = f[c] + (f[x] + rest)
    BY Zenon, <2>6, <2>11, <2>13
  <2>16. Total(T \ {x}) = f[c] + rest
    BY Zenon, <2>12, <2>13
  <2>17. f[c] + (f[x] + rest) = f[x] + (f[c] + rest)
    <3> HIDE DEF rest, c
    <3> QED
      BY <2>14 DEF rest
  <2> QED
    BY <2>3, <2>15, <2>16, <2>17
<1>2. Cardinality(S) \in Nat
  BY FS_CardinalityType
<1>3. ~Bad(S)
  BY <1>1, <1>2
<1> QED
  BY <1>3

\* Two functions with the same values on a set have the same sum over it.
LEMMA SumSame ==
  ASSUME NEW S, IsFiniteSet(S), NEW f, NEW g, \A x \in S : f[x] = g[x]
  PROVE  SumFunctionOnSet(f, S) = SumFunctionOnSet(g, S)
<1> DEFINE Bad(T) == SumFunctionOnSet(f, T) # SumFunctionOnSet(g, T)
           C == {n \in Nat : \E T \in SUBSET S : Cardinality(T) = n /\ Bad(T)}
<1>1. C = {}
  <2> SUFFICES ASSUME C # {} PROVE FALSE
    OBVIOUS
  <2>1. PICK n \in C : \A m \in C : n <= m
    BY Zenon, SmallestNumber
  <2>2. PICK T \in SUBSET S : Cardinality(T) = n /\ Bad(T)
    BY <2>1
  <2>3. IsFiniteSet(T)
    BY FS_Subset
  <2>4. T # {}
    BY <2>2, SumEmpty
  <2> DEFINE V == T \ {Pick(T)}
  <2>5. Pick(T) \in S /\ V \in SUBSET S /\ Cardinality(V) = n - 1 /\ n - 1 \in Nat
    <3>1. /\ Pick(T) \in T
          /\ Cardinality(T) \in Nat
          /\ Cardinality(V) = Cardinality(T) - 1
          /\ Cardinality(T) >= 1
      BY <2>4, PickRemoves
    <3> QED
      BY <2>2, <3>1
  <2>6. ~Bad(V)
    BY <2>1, <2>5
  <2>7. /\ SumFunctionOnSet(f, T) = f[Pick(T)] + SumFunctionOnSet(f, V)
        /\ SumFunctionOnSet(g, T) = g[Pick(T)] + SumFunctionOnSet(g, V)
    BY <2>3, <2>4, SumPick
  <2> QED
    BY <2>2, <2>5, <2>6, <2>7
<1>2. Cardinality(S) \in Nat
  BY FS_CardinalityType
<1> QED
  BY <1>1, <1>2

\* A sum when the value of one element changes.
LEMMA SumUpdate ==
  ASSUME NEW S, IsFiniteSet(S), NEW f, NEW g, NEW y \in S,
         \A x \in S : f[x] \in Int /\ g[x] \in Int,
         \A x \in S \ {y} : f[x] = g[x]
  PROVE  SumFunctionOnSet(g, S) = SumFunctionOnSet(f, S) - f[y] + g[y]
<1> DEFINE rest == SumFunctionOnSet(f, S \ {y})
<1>1. IsFiniteSet(S \ {y})
  BY FS_Subset
<1>2. SumFunctionOnSet(g, S \ {y}) = rest
  BY <1>1, SumSame
<1>3. SumFunctionOnSet(f, S) = f[y] + rest
  BY SumRemove
<1>4. SumFunctionOnSet(g, S) = g[y] + SumFunctionOnSet(g, S \ {y})
  BY SumRemove
<1>5. rest \in Int /\ f[y] \in Int /\ g[y] \in Int
  BY <1>1, SumType
<1> HIDE DEF rest
<1> QED
  BY <1>2, <1>3, <1>4, <1>5

\* A sum over one element more.
LEMMA SumAdd ==
  ASSUME NEW S, IsFiniteSet(S), NEW y, y \notin S, NEW f, \A x \in S \cup {y} : f[x] \in Int
  PROVE  SumFunctionOnSet(f, S \cup {y}) = f[y] + SumFunctionOnSet(f, S)
<1>1. IsFiniteSet(S \cup {y}) /\ (S \cup {y}) \ {y} = S
  BY FS_AddElement
<1> QED
  BY <1>1, SumRemove

\* A sum of zeros.
LEMMA SumZero ==
  ASSUME NEW S, IsFiniteSet(S), NEW f, \A x \in S : f[x] = 0
  PROVE  SumFunctionOnSet(f, S) = 0
<1> DEFINE Bad(T) == SumFunctionOnSet(f, T) # 0
           C == {n \in Nat : \E T \in SUBSET S : Cardinality(T) = n /\ Bad(T)}
<1>1. C = {}
  <2> SUFFICES ASSUME C # {} PROVE FALSE
    OBVIOUS
  <2>1. PICK n \in C : \A m \in C : n <= m
    BY Zenon, SmallestNumber
  <2>2. PICK T \in SUBSET S : Cardinality(T) = n /\ Bad(T)
    BY <2>1
  <2>3. IsFiniteSet(T)
    BY FS_Subset
  <2>4. T # {}
    BY <2>2, SumEmpty
  <2> DEFINE V == T \ {Pick(T)}
  <2>5. Pick(T) \in S /\ V \in SUBSET S /\ Cardinality(V) = n - 1 /\ n - 1 \in Nat
    <3>1. /\ Pick(T) \in T
          /\ Cardinality(T) \in Nat
          /\ Cardinality(V) = Cardinality(T) - 1
          /\ Cardinality(T) >= 1
      BY <2>4, PickRemoves
    <3> QED
      BY <2>2, <3>1
  <2>6. ~Bad(V)
    BY <2>1, <2>5
  <2>7. SumFunctionOnSet(f, T) = f[Pick(T)] + SumFunctionOnSet(f, V)
    BY <2>3, <2>4, SumPick
  <2> QED
    BY <2>2, <2>5, <2>6, <2>7
<1>2. Cardinality(S) \in Nat
  BY FS_CardinalityType
<1> QED
  BY <1>1, <1>2

-----------------------------------------------------------------------------
(* Numbers of a given width.                                               *)

\* Quotient and remainder.
LEMMA DivMod ==
  ASSUME NEW A \in Nat \ {0}, NEW a \in Int
  PROVE  a % A \in 0 .. A - 1 /\ a \div A \in Int /\ a = (A * (a \div A)) + (a % A)
  OBVIOUS

\* Numbers that differ by a multiple have the same remainder.
LEMMA ModUnique ==
  ASSUME NEW A \in Nat \ {0}, NEW a \in Int, NEW q \in Int,
         NEW r \in 0 .. A - 1, a = (A * q) + r
  PROVE  a % A = r
<1> DEFINE p == a \div A
           s == a % A
<1>1. s \in 0 .. A - 1 /\ p \in Int /\ a = (A * p) + s
  BY DivMod
<1> HIDE DEF p, s
<1>2. A * (q - p) = s - r
  BY <1>1
<1>3. q - p >= 1 => A * (q - p) >= A
  BY <1>1
<1>4. q - p <= -1 => A * (q - p) <= -A
  BY <1>1
<1>5. s = r
  <2>1. q - p = 0 \/ q - p >= 1 \/ q - p <= -1
    BY <1>1
  <2>2. CASE q - p = 0
    BY <1>1, <1>2, <2>2
  <2> QED
    BY <1>1, <1>2, <1>3, <1>4, <2>1, <2>2
<1> QED
  BY <1>5 DEF s

\* An addition may wrap around before another one.
LEMMA AddMod ==
  ASSUME NEW A \in Nat \ {0}, NEW a \in Int, NEW b \in Int
  PROVE  ((a % A) + b) % A = (a + b) % A
<1> DEFINE q == a \div A
           r == a % A
           c == r + b
           t == c \div A
           u == c % A
<1>1. r \in Int /\ q \in Int /\ a = (A * q) + r
  BY DivMod
<1>2. c \in Int
  BY <1>1
<1>3. u \in 0 .. A - 1 /\ t \in Int /\ c = (A * t) + u
  BY <1>2, DivMod
<1>4. a + b = (A * q) + c
  <2> HIDE DEF q, r
  <2> QED
    BY <1>1
<1>5. a + b = (A * (q + t)) + u
  <2> HIDE DEF q, u, t, c
  <2> QED
    BY <1>1, <1>3, <1>4
<1>6. q + t \in Int /\ a + b \in Int
  BY <1>1, <1>3
<1>7. (a + b) % A = u
  BY Zenon, <1>3, <1>5, <1>6, ModUnique
<1> QED
  BY <1>7

\* A subtraction may wrap around before another one.
LEMMA SubMod ==
  ASSUME NEW A \in Nat \ {0}, NEW a \in Int, NEW b \in Int
  PROVE  ((a % A) - b) % A = (a - b) % A
<1>1. -b \in Int /\ a % A \in Int
  BY DivMod
<1>2. ((a % A) + (-b)) % A = (a + (-b)) % A
  BY Zenon, <1>1, AddMod
<1>3. (a % A) + (-b) = (a % A) - b /\ a + (-b) = a - b
  BY <1>1
<1> QED
  BY <1>2, <1>3

-----------------------------------------------------------------------------
(* Checksums *)

\* An accumulator has room for numbers.
LEMMA AccumulatorType == Accumulator \in Nat \ {0}
<1>1. ChecksumRange \in Nat /\ ChecksumRange > 1
  BY HandlespaceAssumption
<1>2. ChecksumRange * ChecksumRange \in Nat /\ ChecksumRange * ChecksumRange > 0
  BY <1>1
<1> QED
  BY <1>2 DEF Accumulator

\* The checksum of an element is a number.
LEMMA ComputeChecksumType ==
  ASSUME NEW pe \in Identity
  PROVE  ComputeChecksum(pe) \in Int
<1>1. pe[1] + pe[2] \in Int
  BY HandlespaceAssumption
<1> QED
  BY <1>1, AccumulatorType, DivMod DEF ComputeChecksum

\* Additions and subtractions in an accumulator give numbers.
LEMMA ChecksumType ==
  ASSUME NEW a \in Int, NEW b \in Int
  PROVE  ChecksumAdd(a, b) \in Int /\ ChecksumSub(a, b) \in Int
<1>1. a + b \in Int /\ a - b \in Int
  OBVIOUS
<1>2. (a + b) % Accumulator \in Int /\ (a - b) % Accumulator \in Int
  BY <1>1, AccumulatorType, DivMod
<1> QED
  BY <1>2 DEF ChecksumAdd, ChecksumSub

Checksums == [pe \in Identity |-> ComputeChecksum(pe)]

\* The checksum of a set of elements fits into the accumulator.
LEMMA SumOfChecksums ==
  ASSUME NEW S \in SUBSET Identity
  PROVE  /\ IsFiniteSet(S)
         /\ SumFunctionOnSet(Checksums, S) \in Int
         /\ ComputeSum(S) = SumFunctionOnSet(Checksums, S) % Accumulator
         /\ ComputeSum(S) \in 0 .. Accumulator - 1
<1>1. IsFiniteSet(S)
  BY HandlespaceAssumption, FS_Subset
<1>2. \A pe \in S : Checksums[pe] \in Int
  BY ComputeChecksumType DEF Checksums
<1>3. SumFunctionOnSet(Checksums, S) \in Int
  BY <1>1, <1>2, SumType
<1>4. ComputeSum(S) = SumFunctionOnSet(Checksums, S) % Accumulator
  BY DEF ComputeSum, Checksums
<1> QED
  BY <1>1, <1>3, <1>4, AccumulatorType, DivMod

\* Adding the checksum of a new element.
LEMMA AddElement ==
  ASSUME NEW S \in SUBSET Identity, NEW pe \in Identity \ S
  PROVE  ChecksumAdd(ComputeSum(S), ComputeChecksum(pe)) = ComputeSum(S \cup {pe})
<1> DEFINE a == SumFunctionOnSet(Checksums, S)
           b == ComputeChecksum(pe)
<1>1. IsFiniteSet(S) /\ a \in Int /\ b \in Int /\ ComputeSum(S) = a % Accumulator
  BY SumOfChecksums, ComputeChecksumType
<1>2. \A x \in S \cup {pe} : Checksums[x] \in Int
  BY ComputeChecksumType DEF Checksums
<1>3. SumFunctionOnSet(Checksums, S \cup {pe}) = Checksums[pe] + a
  BY Zenon, <1>1, <1>2, SumAdd
<1>4. Checksums[pe] = b
  BY DEF Checksums
<1>5. ComputeSum(S \cup {pe}) = SumFunctionOnSet(Checksums, S \cup {pe}) % Accumulator
  BY SumOfChecksums
<1> HIDE DEF a, b
<1>6. ComputeSum(S \cup {pe}) = (a + b) % Accumulator
  BY <1>1, <1>3, <1>4, <1>5
<1>7. ((a % Accumulator) + b) % Accumulator = (a + b) % Accumulator
  BY Zenon, <1>1, AccumulatorType, AddMod
<1> QED
  BY <1>1, <1>6, <1>7 DEF ChecksumAdd, b

\* Subtracting the checksum of an element.
LEMMA SubElement ==
  ASSUME NEW S \in SUBSET Identity, NEW pe \in S
  PROVE  ChecksumSub(ComputeSum(S), ComputeChecksum(pe)) = ComputeSum(S \ {pe})
<1> DEFINE a == SumFunctionOnSet(Checksums, S)
           d == SumFunctionOnSet(Checksums, S \ {pe})
           b == ComputeChecksum(pe)
<1>1. IsFiniteSet(S) /\ a \in Int /\ b \in Int /\ ComputeSum(S) = a % Accumulator
  BY SumOfChecksums, ComputeChecksumType
<1>2. \A x \in S : Checksums[x] \in Int
  BY ComputeChecksumType DEF Checksums
<1>3. a = Checksums[pe] + d
  BY <1>1, <1>2, SumRemove
<1>4. Checksums[pe] = b
  BY DEF Checksums
<1>5. ComputeSum(S \ {pe}) = d % Accumulator /\ d \in Int
  BY SumOfChecksums
<1> HIDE DEF a, b, d
<1>6. d = a - b
  BY <1>1, <1>3, <1>4, <1>5
<1>7. ((a % Accumulator) - b) % Accumulator = (a - b) % Accumulator
  BY Zenon, <1>1, AccumulatorType, SubMod
<1> QED
  BY <1>1, <1>5, <1>6, <1>7 DEF ChecksumSub, b

-----------------------------------------------------------------------------
(* The state and what holds of it *)

Peer == [id : Nat, address : Nat, dynamic : BOOLEAN, sum : Int]

Node == [home : Homes, connection : Nat, marked : BOOLEAN, checksum : Int]

Field == {"pools", "node", "owners", "connections", "timers", "elements", "owned", "sum",
          "ownSum", "peers"}

\* h is a record with the fields of a handlespace.
Shape(h) == h = [f \in Field |-> h[f]]

\* The elements of a registrar, where home says whom each element belongs to.
Of(home, r) == {pe \in DOMAIN home : home[pe] = r}

\* No peer is in the list twice, and none is the registrar itself.
PeersDiffer(h) ==
  /\ h.peers \subseteq Peer
  /\ \A p, q \in h.peers : p.id # OwnID /\ (p.id # UndefinedID /\ p.id = q.id => p = q)

\* The counters and the checksums are those of the elements, as home says.
Counted(h, home) ==
  /\ PeersDiffer(h)
  /\ h.sum = ComputeSum(DOMAIN home)
  /\ h.owned = Cardinality(Of(home, OwnID))
  /\ h.ownSum = ComputeSum(Of(home, OwnID))
  /\ \A p \in h.peers : p.id # UndefinedID => p.sum = ComputeSum(Of(home, p.id))

\* p is what peerListManagementPoolNodeUpdateNotification makes of q, with
\* the checksum s when q is the peer r.
Updated(p, q, r, s) ==
  /\ p \in Peer /\ p.id = q.id /\ p.address = q.address /\ p.dynamic = q.dynamic
  /\ p.sum = IF q.id = r /\ r # UndefinedID THEN s ELSE q.sum

\* Count changes the counters and the checksums, and nothing else.
LEMMA CountFields ==
  ASSUME NEW h, Shape(h), NEW r, NEW c
  PROVE  /\ Shape(Count(h, r, c))
         /\ \A f \in Field \ {"sum", "owned", "ownSum", "peers"} : Count(h, r, c)[f] = h[f]
         /\ Count(h, r, c).sum = ChecksumAdd(h.sum, c)
         /\ Count(h, r, c).owned = IF r = OwnID THEN h.owned + 1 ELSE h.owned
         /\ Count(h, r, c).ownSum = IF r = OwnID THEN ChecksumAdd(h.ownSum, c) ELSE h.ownSum
  BY Zenon DEF Shape, Field, Count, PeerSumAdd

\* Count changes the checksum of the peer the element belongs to, if it is listed.
LEMMA CountPeers ==
  ASSUME NEW h, Shape(h), h.peers \subseteq Peer, NEW r, NEW c \in Int,
         NEW p \in Count(h, r, c).peers
  PROVE  \E q \in h.peers : Updated(p, q, r, ChecksumAdd(q.sum, c))
<1>1. PICK q \in h.peers :
        p = IF q.id = r /\ r # UndefinedID THEN [q EXCEPT !.sum = ChecksumAdd(@, c)] ELSE q
  BY DEF Shape, Field, Count, PeerSumAdd
<1>2. q.sum \in Int
  BY DEF Peer
<1>3. ChecksumAdd(q.sum, c) \in Int
  BY Zenon, <1>2, ChecksumType
<1> QED
  BY <1>1, <1>3 DEF Updated, Peer

\* Discount changes the counters and the checksums, and nothing else.
LEMMA DiscountFields ==
  ASSUME NEW h, Shape(h), NEW r, NEW c
  PROVE  /\ Shape(Discount(h, r, c))
         /\ \A f \in Field \ {"sum", "owned", "ownSum", "peers"} : Discount(h, r, c)[f] = h[f]
         /\ Discount(h, r, c).sum = ChecksumSub(h.sum, c)
         /\ Discount(h, r, c).owned = IF r = OwnID THEN h.owned - 1 ELSE h.owned
         /\ Discount(h, r, c).ownSum = IF r = OwnID THEN ChecksumSub(h.ownSum, c) ELSE h.ownSum
  BY Zenon DEF Shape, Field, Discount, PeerSumSub

\* Discount changes the checksum of the peer the element belonged to, if it is listed.
LEMMA DiscountPeers ==
  ASSUME NEW h, Shape(h), h.peers \subseteq Peer, NEW r, NEW c \in Int,
         NEW p \in Discount(h, r, c).peers
  PROVE  \E q \in h.peers : Updated(p, q, r, ChecksumSub(q.sum, c))
<1>1. PICK q \in h.peers :
        p = IF q.id = r /\ r # UndefinedID THEN [q EXCEPT !.sum = ChecksumSub(@, c)] ELSE q
  BY DEF Shape, Field, Discount, PeerSumSub
<1>2. q.sum \in Int
  BY DEF Peer
<1>3. ChecksumSub(q.sum, c) \in Int
  BY Zenon, <1>2, ChecksumType
<1> QED
  BY <1>1, <1>3 DEF Updated, Peer

-----------------------------------------------------------------------------
(* An element more, and an element less *)

\* home is given for one element more.
Joined(old, new, pe) ==
  /\ pe \in Identity \ DOMAIN old
  /\ DOMAIN new = DOMAIN old \cup {pe}
  /\ \A x \in DOMAIN old : new[x] = old[x]

\* An element more is one more for its home alone.
LEMMA JoinedOf ==
  ASSUME NEW old, NEW new, NEW pe, Joined(old, new, pe), NEW r
  PROVE  /\ pe \notin Of(old, r)
         /\ Of(new, r) = IF r = new[pe] THEN Of(old, r) \cup {pe} ELSE Of(old, r)
  BY Zenon DEF Joined, Of

\* Count: the checksums and counters follow an element that comes.
LEMMA CountKeeps ==
  ASSUME NEW h, Shape(h), NEW old, DOMAIN old \subseteq Identity, Counted(h, old),
         NEW new, NEW pe, Joined(old, new, pe)
  PROVE  Counted(Count(h, new[pe], ComputeChecksum(pe)), new)
<1> DEFINE r == new[pe]
           c == ComputeChecksum(pe)
           g == Count(h, r, c)
<1>1. c \in Int /\ pe \in Identity
  BY ComputeChecksumType DEF Joined
<1>2. /\ g.sum = ChecksumAdd(h.sum, c)
      /\ g.owned = IF r = OwnID THEN h.owned + 1 ELSE h.owned
      /\ g.ownSum = IF r = OwnID THEN ChecksumAdd(h.ownSum, c) ELSE h.ownSum
  <2> HIDE DEF r, c
  <2> QED
    BY CountFields
<1>3. \A p \in g.peers : \E q \in h.peers : Updated(p, q, r, ChecksumAdd(q.sum, c))
  BY <1>1, CountPeers DEF Counted, PeersDiffer
<1> HIDE DEF g
<1>4. PeersDiffer(g)
  BY <1>3 DEF Counted, PeersDiffer, Updated, Peer
<1>5. g.sum = ComputeSum(DOMAIN new)
  BY <1>1, <1>2, AddElement DEF Counted, Joined
<1>6. \A x : Of(old, x) \in SUBSET Identity /\ pe \in Identity \ Of(old, x)
  BY <1>1, JoinedOf DEF Of
<1>7. \A x : ChecksumAdd(ComputeSum(Of(old, x)), c) = ComputeSum(Of(old, x) \cup {pe})
  BY Zenon, <1>6, AddElement
<1>8. g.ownSum = ComputeSum(Of(new, OwnID))
  BY <1>2, <1>7, JoinedOf DEF Counted
<1>9. g.owned = Cardinality(Of(new, OwnID))
  <2>1. IsFiniteSet(Of(old, OwnID))
    BY <1>6, HandlespaceAssumption, FS_Subset
  <2>2. Cardinality(Of(old, OwnID) \cup {pe}) = Cardinality(Of(old, OwnID)) + 1
    BY <1>6, <2>1, FS_AddElement
  <2>3. h.owned = Cardinality(Of(old, OwnID))
    BY Zenon DEF Counted
  <2>4. Of(new, OwnID) = IF OwnID = r THEN Of(old, OwnID) \cup {pe} ELSE Of(old, OwnID)
    BY JoinedOf
  <2> QED
    BY Zenon, <1>2, <2>2, <2>3, <2>4
<1>10. ASSUME NEW p \in g.peers, p.id # UndefinedID
       PROVE  p.sum = ComputeSum(Of(new, p.id))
  <2>1. PICK q \in h.peers : Updated(p, q, r, ChecksumAdd(q.sum, c))
    BY <1>3
  <2>2. p.id = q.id /\ q.sum = ComputeSum(Of(old, q.id))
    BY Zenon, <1>10, <2>1 DEF Updated, Counted
  <2> QED
    BY <1>7, <1>10, <2>1, <2>2, JoinedOf DEF Updated
<1> QED
  BY Zenon, <1>4, <1>5, <1>8, <1>9, <1>10 DEF Counted, g

\* Discount: the checksums and counters follow an element that goes.
LEMMA DiscountKeeps ==
  ASSUME NEW h, Shape(h), NEW old, DOMAIN old \subseteq Identity, Counted(h, old),
         NEW new, NEW pe, Joined(new, old, pe)
  PROVE  Counted(Discount(h, old[pe], ComputeChecksum(pe)), new)
<1> DEFINE r == old[pe]
           c == ComputeChecksum(pe)
           g == Discount(h, r, c)
<1>1. c \in Int /\ pe \in Identity
  BY ComputeChecksumType DEF Joined
<1>2. /\ g.sum = ChecksumSub(h.sum, c)
      /\ g.owned = IF r = OwnID THEN h.owned - 1 ELSE h.owned
      /\ g.ownSum = IF r = OwnID THEN ChecksumSub(h.ownSum, c) ELSE h.ownSum
  <2> HIDE DEF r, c
  <2> QED
    BY DiscountFields
<1>3. \A p \in g.peers : \E q \in h.peers : Updated(p, q, r, ChecksumSub(q.sum, c))
  BY <1>1, DiscountPeers DEF Counted, PeersDiffer
<1> HIDE DEF g
<1>4. PeersDiffer(g)
  BY <1>3 DEF Counted, PeersDiffer, Updated, Peer
<1>5. g.sum = ComputeSum(DOMAIN new)
  <2>1. pe \in DOMAIN old /\ DOMAIN new = DOMAIN old \ {pe}
    BY DEF Joined
  <2> QED
    BY <1>2, <2>1, SubElement DEF Counted
<1>6. \A x : Of(old, x) \in SUBSET Identity
  BY DEF Of
<1>7. pe \in Of(old, r) /\ \A x : Of(new, x) = Of(old, x) \ {pe}
  BY DEF Of, Joined
<1>8. ASSUME NEW x, x # r PROVE Of(new, x) = Of(old, x)
  BY Zenon, <1>8 DEF Joined, Of
<1>9. ChecksumSub(ComputeSum(Of(old, r)), c) = ComputeSum(Of(new, r))
  BY <1>6, <1>7, SubElement
<1>10. g.ownSum = ComputeSum(Of(new, OwnID))
  BY <1>2, <1>8, <1>9 DEF Counted
<1>11. g.owned = Cardinality(Of(new, OwnID))
  <2>1. IsFiniteSet(Of(old, OwnID))
    BY <1>6, HandlespaceAssumption, FS_Subset
  <2>2. pe \in Of(old, OwnID) => Cardinality(Of(old, OwnID) \ {pe}) = Cardinality(Of(old, OwnID)) - 1
    BY <2>1, FS_RemoveElement
  <2> QED
    BY Zenon, <1>2, <1>7, <1>8, <2>2 DEF Counted
<1>12. ASSUME NEW p \in g.peers, p.id # UndefinedID
       PROVE  p.sum = ComputeSum(Of(new, p.id))
  <2>1. PICK q \in h.peers : Updated(p, q, r, ChecksumSub(q.sum, c))
    BY <1>3
  <2>2. p.id = q.id /\ q.sum = ComputeSum(Of(old, q.id))
    BY <1>12, <2>1 DEF Updated, Counted
  <2> QED
    BY Zenon, <1>8, <1>9, <1>12, <2>1, <2>2 DEF Updated
<1> QED
  BY Zenon, <1>4, <1>5, <1>10, <1>11, <1>12 DEF Counted, g

-----------------------------------------------------------------------------
(* The inductive invariant *)

HomesOf(h) == [pe \in DOMAIN h.node |-> h.node[pe].home]

\* The nodes are those of elements, and the checksum of a node is that of its element.
NodesKept(h) ==
  /\ DOMAIN h.node \subseteq Identity
  /\ \A pe \in DOMAIN h.node : h.node[pe] \in Node /\ h.node[pe].checksum = ComputeChecksum(pe)

\* An entry of a storage for each element that has a key for it, and no other.
StoragesKept(h) ==
  /\ h.elements = Cardinality(DOMAIN h.node)
  /\ h.pools = {pe[1] : pe \in DOMAIN h.node}
  /\ h.owners = {<<h.node[pe].home, pe>> : pe \in DOMAIN h.node}
  /\ h.connections = {<<h.node[pe].connection, pe>> :
                        pe \in {x \in DOMAIN h.node : h.node[x].connection > 0}}
  /\ \A t, u \in h.timers : t[2] \in DOMAIN h.node /\ (t[2] = u[2] => t = u)

HandlespaceInv(h) ==
  Shape(h) /\ NodesKept(h) /\ StoragesKept(h) /\ Counted(h, HomesOf(h))

\* The ownership storage gives the elements whose node has that home.
LEMMA OwnershipNodesAre ==
  ASSUME NEW h, StoragesKept(h), NEW r
  PROVE  OwnershipNodes(h, r) = Of(HomesOf(h), r)
<1>1. ASSUME NEW pe \in OwnershipNodes(h, r) PROVE pe \in Of(HomesOf(h), r)
  <2>1. PICK o \in h.owners : o[1] = r /\ o[2] = pe
    BY DEF OwnershipNodes
  <2>2. PICK x \in DOMAIN h.node : o = <<h.node[x].home, x>>
    BY DEF StoragesKept
  <2>3. x = pe /\ h.node[pe].home = r
    BY <2>1, <2>2
  <2> QED
    BY <2>3 DEF Of, HomesOf
<1>2. ASSUME NEW pe \in Of(HomesOf(h), r) PROVE pe \in OwnershipNodes(h, r)
  <2>1. pe \in DOMAIN h.node /\ h.node[pe].home = r
    BY DEF Of, HomesOf
  <2> DEFINE o == <<r, pe>>
  <2>2. o \in h.owners /\ o[1] = r /\ o[2] = pe
    BY <2>1 DEF StoragesKept
  <2> QED
    BY <2>2 DEF OwnershipNodes
<1> QED
  BY <1>1, <1>2

\* An element that is registered.
LEMMA AddPoolElementKeeps ==
  ASSUME NEW h, HandlespaceInv(h), NEW pe \in Identity \ DOMAIN h.node, NEW home \in Homes,
         NEW c \in Connection
  PROVE  HandlespaceInv(AddPoolElement(h, pe, home, c))
<1> DEFINE new == [home |-> home, connection |-> c, marked |-> FALSE,
                   checksum |-> ComputeChecksum(pe)]
           k == [h EXCEPT
                   !.pools = @ \cup {pe[1]},
                   !.node = [x \in DOMAIN @ \cup {pe} |-> IF x = pe THEN new ELSE @[x]],
                   !.elements = @ + 1,
                   !.owners = IF home # UndefinedID THEN @ \cup {<<home, pe>>} ELSE @,
                   !.connections = IF c > 0 THEN @ \cup {<<c, pe>>} ELSE @]
           g == Count(k, home, ComputeChecksum(pe))
<1>1. g = AddPoolElement(h, pe, home, c)
  BY DEF AddPoolElement
<1>2. /\ home # UndefinedID /\ c \in Nat
      /\ new \in Node /\ new.home = home /\ new.connection = c
      /\ new.checksum = ComputeChecksum(pe)
  BY HandlespaceAssumption, ComputeChecksumType DEF Node, Homes, UndefinedID
<1> HIDE DEF new
<1>3. /\ Shape(k)
      /\ k.pools = h.pools \cup {pe[1]}
      /\ k.node = [x \in DOMAIN h.node \cup {pe} |-> IF x = pe THEN new ELSE h.node[x]]
      /\ k.elements = h.elements + 1
      /\ k.owners = h.owners \cup {<<home, pe>>}
      /\ k.connections = IF c > 0 THEN h.connections \cup {<<c, pe>>} ELSE h.connections
      /\ k.timers = h.timers
      /\ k.sum = h.sum /\ k.owned = h.owned /\ k.ownSum = h.ownSum /\ k.peers = h.peers
  BY Zenon, <1>2 DEF HandlespaceInv, Shape, Field
<1> HIDE DEF k
<1>4. /\ DOMAIN k.node = DOMAIN h.node \cup {pe}
      /\ k.node[pe] = new
      /\ \A x \in DOMAIN h.node : k.node[x] = h.node[x]
  BY Zenon, <1>3
<1>5. Counted(k, HomesOf(h))
  BY <1>3 DEF HandlespaceInv, Counted, PeersDiffer
<1>6. Joined(HomesOf(h), HomesOf(k), pe) /\ HomesOf(k)[pe] = home
  BY <1>2, <1>4 DEF Joined, HomesOf
<1>7. Counted(g, HomesOf(k))
  <2>1. DOMAIN HomesOf(h) \subseteq Identity
    BY Zenon DEF HandlespaceInv, NodesKept, HomesOf
  <2> QED
    BY <1>3, <1>5, <1>6, <2>1, CountKeeps
<1>8. /\ Shape(g)
      /\ g.pools = k.pools /\ g.node = k.node /\ g.elements = k.elements
      /\ g.owners = k.owners /\ g.connections = k.connections /\ g.timers = k.timers
  BY <1>3, CountFields DEF Field
<1> HIDE DEF g
<1>9. HomesOf(g) = HomesOf(k)
  BY <1>8 DEF HomesOf
<1>10. NodesKept(g)
  BY ZenonT(40), <1>2, <1>4, <1>8 DEF HandlespaceInv, NodesKept
<1>11. StoragesKept(g)
  <2>1. g.elements = Cardinality(DOMAIN g.node)
    <3>1. IsFiniteSet(DOMAIN h.node)
      BY HandlespaceAssumption, FS_Subset DEF HandlespaceInv, NodesKept
    <3>2. Cardinality(DOMAIN h.node \cup {pe}) = Cardinality(DOMAIN h.node) + 1
      BY Zenon, <3>1, FS_AddElement
    <3> QED
      BY Zenon, <1>3, <1>4, <1>8, <3>2 DEF HandlespaceInv, StoragesKept
  <2>2. /\ DOMAIN g.node = DOMAIN h.node \cup {pe}
        /\ g.node[pe].home = home /\ g.node[pe].connection = c
        /\ \A x \in DOMAIN h.node : g.node[x] = h.node[x]
    BY Zenon, <1>2, <1>4, <1>8
  <2>3. g.pools = {x[1] : x \in DOMAIN g.node}
    <3>1. h.pools = {x[1] : x \in DOMAIN h.node}
      BY Zenon DEF HandlespaceInv, StoragesKept
    <3>2. g.pools = h.pools \cup {pe[1]}
      BY Zenon, <1>3, <1>8
    <3> QED
      BY <2>2, <3>1, <3>2
  <2>4. g.owners = {<<g.node[x].home, x>> : x \in DOMAIN g.node}
    <3>1. h.owners = {<<h.node[x].home, x>> : x \in DOMAIN h.node}
      BY Zenon DEF HandlespaceInv, StoragesKept
    <3>2. g.owners = h.owners \cup {<<home, pe>>}
      BY Zenon, <1>3, <1>8
    <3> QED
      BY <2>2, <3>1, <3>2
  <2>5. g.connections = {<<g.node[x].connection, x>> :
                           x \in {y \in DOMAIN g.node : g.node[y].connection > 0}}
    <3>1. h.connections = {<<h.node[x].connection, x>> :
                             x \in {y \in DOMAIN h.node : h.node[y].connection > 0}}
      BY Zenon DEF HandlespaceInv, StoragesKept
    <3>2. g.connections = k.connections
      BY Zenon, <1>8
    <3>3. k.connections = IF c > 0 THEN h.connections \cup {<<c, pe>>} ELSE h.connections
      BY <1>3
    <3> QED
      BY <2>2, <3>1, <3>2, <3>3
  <2>6. \A t, u \in g.timers : t[2] \in DOMAIN g.node /\ (t[2] = u[2] => t = u)
    <3>1. g.timers = k.timers
      BY Zenon, <1>8
    <3>2. k.timers = h.timers
      BY <1>3
    <3>3. \A t, u \in h.timers : t[2] \in DOMAIN h.node /\ (t[2] = u[2] => t = u)
      BY Zenon DEF HandlespaceInv, StoragesKept
    <3> QED
      BY Zenon, <2>2, <3>1, <3>2, <3>3
  <2> QED
    BY Zenon, <2>1, <2>3, <2>4, <2>5, <2>6 DEF StoragesKept
<1> QED
  BY Zenon, <1>1, <1>7, <1>8, <1>9, <1>10, <1>11 DEF HandlespaceInv

\* An element that changes its home, or stays where it is.
LEMMA UpdateOwnershipKeeps ==
  ASSUME NEW h, HandlespaceInv(h), NEW pe \in DOMAIN h.node, NEW home \in Homes
  PROVE  HandlespaceInv(UpdateOwnership(h, pe, home))
<1> DEFINE old == h.node[pe]
           c == ComputeChecksum(pe)
           k == IF home # old.home
                  THEN [h EXCEPT !.owners = (@ \ {<<old.home, pe>>}) \cup {<<home, pe>>},
                                 !.node[pe].home = home]
                  ELSE h
           d == Discount(k, old.home, c)
           e == [d EXCEPT !.node[pe].checksum = c]
           g == Count(e, home, c)
           mid == [x \in DOMAIN h.node \ {pe} |-> h.node[x].home]
<1>1. old \in Node /\ old.checksum = c /\ pe \in Identity /\ c \in Int
  BY ComputeChecksumType DEF HandlespaceInv, NodesKept
<1>2. g = UpdateOwnership(h, pe, home)
  BY <1>1 DEF UpdateOwnership
<1>3. /\ Shape(k)
      /\ k.pools = h.pools /\ k.elements = h.elements
      /\ k.connections = h.connections /\ k.timers = h.timers
      /\ k.sum = h.sum /\ k.owned = h.owned /\ k.ownSum = h.ownSum /\ k.peers = h.peers
  BY Zenon DEF HandlespaceInv, Shape, Field
<1>4. /\ DOMAIN k.node = DOMAIN h.node
      /\ \A x \in DOMAIN h.node \ {pe} : k.node[x] = h.node[x]
  BY DEF HandlespaceInv, Shape, Field
<1>5. k.node[pe] = [old EXCEPT !.home = home]
  <2>1. CASE home # old.home
    BY <2>1 DEF HandlespaceInv, Shape, Field
  <2>2. CASE home = old.home
    BY <1>1, <2>2 DEF Node
  <2> QED
    BY <2>1, <2>2
<1>6. k.owners = (h.owners \ {<<old.home, pe>>}) \cup {<<home, pe>>}
  <2>1. CASE home # old.home
    BY <2>1 DEF HandlespaceInv, Shape, Field
  <2>2. CASE home = old.home
    BY ZenonT(40), <2>2 DEF HandlespaceInv, StoragesKept
  <2> QED
    BY <2>1, <2>2
<1> HIDE DEF k
<1>7. /\ Shape(d)
      /\ d.pools = k.pools /\ d.node = k.node /\ d.elements = k.elements
      /\ d.owners = k.owners /\ d.connections = k.connections /\ d.timers = k.timers
  BY <1>3, DiscountFields DEF Field
<1>8. Counted(d, mid)
  <2>1. Counted(k, HomesOf(h)) /\ DOMAIN HomesOf(h) \subseteq Identity
    BY Zenon, <1>3 DEF HandlespaceInv, Counted, PeersDiffer, HomesOf, NodesKept
  <2>2. Joined(mid, HomesOf(h), pe) /\ HomesOf(h)[pe] = old.home
    BY <1>1 DEF Joined, HomesOf
  <2> QED
    BY ZenonT(40), <1>3, <2>1, <2>2, DiscountKeeps
<1> HIDE DEF d
<1>9. /\ Shape(e)
      /\ e.pools = h.pools /\ e.elements = h.elements
      /\ e.owners = k.owners /\ e.connections = h.connections /\ e.timers = h.timers
      /\ e.sum = d.sum /\ e.owned = d.owned /\ e.ownSum = d.ownSum /\ e.peers = d.peers
  BY <1>3, <1>7 DEF Shape, Field
<1>10. /\ DOMAIN e.node = DOMAIN h.node
       /\ \A x \in DOMAIN h.node \ {pe} : e.node[x] = h.node[x]
       /\ e.node[pe] = [[old EXCEPT !.home = home] EXCEPT !.checksum = c]
  BY ZenonT(40), <1>4, <1>5, <1>7 DEF Shape, Field
<1>11. /\ e.node[pe] \in Node /\ e.node[pe].home = home /\ e.node[pe].checksum = c
       /\ e.node[pe].connection = old.connection
  <2> HIDE DEF e, old, c
  <2>1. [old EXCEPT !.home = home] \in Node
    BY Zenon, <1>1 DEF Node
  <2> QED
    BY Zenon, <1>1, <1>10, <2>1 DEF Node
<1> HIDE DEF e
<1>12. Counted(g, HomesOf(e))
  <2>1. Counted(e, mid) /\ DOMAIN mid \subseteq Identity
    BY Zenon, <1>8, <1>9 DEF Counted, PeersDiffer, HandlespaceInv, NodesKept
  <2>2. Joined(mid, HomesOf(e), pe) /\ HomesOf(e)[pe] = home
    BY ZenonT(40), <1>1, <1>10, <1>11 DEF Joined, HomesOf
  <2> QED
    BY Zenon, <1>9, <2>1, <2>2, CountKeeps
<1>13. /\ Shape(g)
       /\ g.pools = h.pools /\ g.node = e.node /\ g.elements = h.elements
       /\ g.owners = k.owners /\ g.connections = h.connections /\ g.timers = h.timers
  BY <1>9, CountFields DEF Field
<1> HIDE DEF g
<1>14. HomesOf(g) = HomesOf(e)
  BY <1>13 DEF HomesOf
<1>15. NodesKept(g)
  <2>1. DOMAIN g.node \subseteq Identity
    BY Zenon, <1>10, <1>13 DEF HandlespaceInv, NodesKept
  <2>2. \A x \in DOMAIN g.node : g.node[x] \in Node /\ g.node[x].checksum = ComputeChecksum(x)
    <3> SUFFICES ASSUME NEW x \in DOMAIN h.node
                 PROVE  e.node[x] \in Node /\ e.node[x].checksum = ComputeChecksum(x)
      BY <1>10, <1>13
    <3>1. CASE x = pe
      BY <1>11, <3>1
    <3>2. CASE x # pe
      BY Zenon, <1>10, <3>2 DEF HandlespaceInv, NodesKept
    <3> QED
      BY <3>1, <3>2
  <2> QED
    BY Zenon, <2>1, <2>2 DEF NodesKept
<1>16. StoragesKept(g)
  <2>1. DOMAIN g.node = DOMAIN h.node
    BY <1>10, <1>13
  <2>2. g.owners = {<<g.node[x].home, x>> : x \in DOMAIN g.node}
    <3> HIDE DEF old, c
    <3>1. h.owners = {<<h.node[x].home, x>> : x \in DOMAIN h.node}
      BY DEF HandlespaceInv, StoragesKept
    <3>2. ASSUME NEW o \in g.owners PROVE \E x \in DOMAIN g.node : o = <<g.node[x].home, x>>
      <4>1. CASE o = <<home, pe>>
        BY Zenon, <1>11, <1>13, <2>1, <4>1
      <4>2. CASE o \in h.owners /\ o # <<old.home, pe>>
        <5>1. PICK x \in DOMAIN h.node : o = <<h.node[x].home, x>>
          BY <3>1, <4>2
        <5>2. x # pe
          BY <4>2, <5>1 DEF old
        <5> QED
          BY Zenon, <1>10, <1>13, <2>1, <5>1, <5>2
      <4> QED
        BY Zenon, <1>6, <1>13, <4>1, <4>2
    <3>3. ASSUME NEW x \in DOMAIN g.node PROVE <<g.node[x].home, x>> \in g.owners
      <4>1. CASE x = pe
        BY Zenon, <1>6, <1>11, <1>13, <4>1
      <4>2. CASE x # pe
        <5>1. g.node[x] = h.node[x] /\ <<h.node[x].home, x>> \in h.owners
          BY <1>10, <1>13, <2>1, <3>1, <4>2
        <5> QED
          BY Zenon, <1>6, <1>13, <4>2, <5>1
      <4> QED
        BY <4>1, <4>2
    <3> QED
      BY Zenon, <3>2, <3>3
  <2>3. \A x \in DOMAIN h.node : g.node[x].connection = h.node[x].connection
    BY ZenonT(40), <1>10, <1>11, <1>13
  <2>4. g.connections = {<<g.node[x].connection, x>> :
                           x \in {y \in DOMAIN g.node : g.node[y].connection > 0}}
    BY <1>13, <2>1, <2>3 DEF HandlespaceInv, StoragesKept
  <2> QED
    BY Zenon, <1>13, <2>1, <2>2, <2>4 DEF HandlespaceInv, StoragesKept
<1> QED
  BY Zenon, <1>2, <1>12, <1>13, <1>14, <1>15, <1>16 DEF HandlespaceInv

\* g is h with other nodes for the same elements, which have the same homes.
SameHomes(h, g) ==
  /\ Shape(g)
  /\ \A f \in Field \ {"node", "connections", "timers"} : g[f] = h[f]
  /\ DOMAIN g.node = DOMAIN h.node
  /\ \A x \in DOMAIN h.node :
       g.node[x] \in Node /\ g.node[x].home = h.node[x].home
       /\ g.node[x].checksum = h.node[x].checksum

\* What leaves the homes alone has to care for the connections and the timers only.
LEMMA SameHomesKeep ==
  ASSUME NEW h, HandlespaceInv(h), NEW g, SameHomes(h, g),
         g.connections = {<<g.node[pe].connection, pe>> :
                            pe \in {x \in DOMAIN g.node : g.node[x].connection > 0}},
         \A t, u \in g.timers : t[2] \in DOMAIN g.node /\ (t[2] = u[2] => t = u)
  PROVE  HandlespaceInv(g)
<1>1. /\ g.pools = h.pools /\ g.owners = h.owners /\ g.elements = h.elements
      /\ g.sum = h.sum /\ g.owned = h.owned /\ g.ownSum = h.ownSum /\ g.peers = h.peers
  BY DEF SameHomes, Field
<1>2. HomesOf(g) = HomesOf(h)
  BY DEF SameHomes, HomesOf
<1>3. Counted(g, HomesOf(g))
  BY Zenon, <1>1, <1>2 DEF HandlespaceInv, Counted, PeersDiffer
<1>4. NodesKept(g)
  BY DEF SameHomes, HandlespaceInv, NodesKept
<1>5. g.owners = {<<g.node[pe].home, pe>> : pe \in DOMAIN g.node}
  <2>1. g.owners = {<<h.node[pe].home, pe>> : pe \in DOMAIN h.node}
    BY Zenon, <1>1 DEF HandlespaceInv, StoragesKept
  <2>2. DOMAIN g.node = DOMAIN h.node /\ \A pe \in DOMAIN h.node : g.node[pe].home = h.node[pe].home
    BY Zenon DEF SameHomes
  <2> QED
    BY <2>1, <2>2
<1>6. StoragesKept(g)
  BY Zenon, <1>1, <1>5 DEF SameHomes, HandlespaceInv, StoragesKept
<1> QED
  BY Zenon, <1>3, <1>4, <1>6 DEF HandlespaceInv, SameHomes

\* The storage of the connections follows a node that changes its connection.
LEMMA UpdateConnectionKeeps ==
  ASSUME NEW h, HandlespaceInv(h), NEW pe \in DOMAIN h.node, NEW c \in Connection
  PROVE  HandlespaceInv(UpdateConnection(h, pe, c))
<1> DEFINE old == h.node[pe].connection
           g == [h EXCEPT !.connections = (@ \ {<<old, pe>>})
                                            \cup (IF c > 0 THEN {<<c, pe>>} ELSE {}),
                          !.node[pe].connection = c]
<1>1. CASE c = old
  BY Zenon, <1>1 DEF UpdateConnection
<1>2. CASE c # old
  <2>1. UpdateConnection(h, pe, c) = g
    BY Zenon, <1>2 DEF UpdateConnection
  <2>2. /\ Shape(g)
        /\ \A f \in Field \ {"node", "connections"} : g[f] = h[f]
        /\ DOMAIN g.node = DOMAIN h.node
        /\ \A x \in DOMAIN h.node \ {pe} : g.node[x] = h.node[x]
        /\ g.node[pe] = [h.node[pe] EXCEPT !.connection = c]
        /\ g.connections = (h.connections \ {<<old, pe>>})
                              \cup (IF c > 0 THEN {<<c, pe>>} ELSE {})
    BY Zenon DEF HandlespaceInv, Shape, Field
  <2> HIDE DEF g
  <2>3. c \in Nat /\ h.node[pe] \in Node
    BY HandlespaceAssumption DEF HandlespaceInv, NodesKept
  <2>4. /\ g.node[pe] \in Node /\ g.node[pe].home = h.node[pe].home
        /\ g.node[pe].checksum = h.node[pe].checksum /\ g.node[pe].connection = c
    BY <2>2, <2>3 DEF Node
  <2>5. SameHomes(h, g)
    BY ZenonT(40), <2>2, <2>4 DEF SameHomes, HandlespaceInv, NodesKept
  <2>6. h.connections = {<<h.node[x].connection, x>> :
                           x \in {y \in DOMAIN h.node : h.node[y].connection > 0}}
    BY DEF HandlespaceInv, StoragesKept
  <2>7. ASSUME NEW o \in g.connections
        PROVE  \E x \in DOMAIN g.node : g.node[x].connection > 0 /\ o = <<g.node[x].connection, x>>
    <3>1. CASE c > 0 /\ o = <<c, pe>>
      BY Zenon, <2>2, <2>4, <3>1
    <3>2. CASE o \in h.connections /\ o # <<old, pe>>
      <4>1. PICK x \in DOMAIN h.node : h.node[x].connection > 0 /\ o = <<h.node[x].connection, x>>
        BY <2>6, <3>2
      <4>2. x # pe
        BY <3>2, <4>1
      <4> QED
        BY <2>2, <4>1, <4>2
    <3> QED
      BY <2>2, <3>1, <3>2
  <2>8. ASSUME NEW x \in DOMAIN g.node, g.node[x].connection > 0
        PROVE  <<g.node[x].connection, x>> \in g.connections
    <3>1. CASE x = pe
      BY Zenon, <2>2, <2>4, <2>8, <3>1
    <3>2. CASE x # pe
      <4>1. g.node[x] = h.node[x] /\ <<h.node[x].connection, x>> \in h.connections
        BY <2>2, <2>6, <2>8, <3>2
      <4> QED
        BY <2>2, <3>2, <4>1
    <3> QED
      BY <3>1, <3>2
  <2>9. g.connections = {<<g.node[x].connection, x>> :
                           x \in {y \in DOMAIN g.node : g.node[y].connection > 0}}
    BY <2>7, <2>8
  <2>10. \A t, u \in g.timers : t[2] \in DOMAIN g.node /\ (t[2] = u[2] => t = u)
    BY <2>2 DEF HandlespaceInv, StoragesKept, Field
  <2> QED
    BY <2>1, <2>5, <2>9, <2>10, SameHomesKeep
<1> QED
  BY <1>1, <1>2

\* Marks change nothing else.
LEMMA MarksKeep ==
  ASSUME NEW h, HandlespaceInv(h), NEW g, Shape(g),
         \A f \in Field \ {"node"} : g[f] = h[f],
         DOMAIN g.node = DOMAIN h.node,
         \A x \in DOMAIN h.node :
           \E m \in BOOLEAN : g.node[x] = [h.node[x] EXCEPT !.marked = m]
  PROVE  HandlespaceInv(g)
<1>1. ASSUME NEW x \in DOMAIN h.node
      PROVE  /\ g.node[x] \in Node /\ g.node[x].home = h.node[x].home
             /\ g.node[x].checksum = h.node[x].checksum
             /\ g.node[x].connection = h.node[x].connection
  <2>1. PICK m \in BOOLEAN : g.node[x] = [h.node[x] EXCEPT !.marked = m]
    BY Zenon
  <2>2. h.node[x] \in Node
    BY DEF HandlespaceInv, NodesKept
  <2> QED
    BY <2>1, <2>2 DEF Node
<1>2. SameHomes(h, g)
  BY <1>1 DEF SameHomes
<1>3. g.connections = h.connections /\ g.timers = h.timers
  BY DEF Field
<1>4. g.connections = {<<g.node[pe].connection, pe>> :
                         pe \in {x \in DOMAIN g.node : g.node[x].connection > 0}}
  BY <1>1, <1>3 DEF HandlespaceInv, StoragesKept
<1>5. \A t, u \in g.timers : t[2] \in DOMAIN g.node /\ (t[2] = u[2] => t = u)
  BY <1>3 DEF HandlespaceInv, StoragesKept
<1> QED
  BY <1>2, <1>4, <1>5, SameHomesKeep

\* Marking the elements of a peer.
LEMMA MarkPoolElementsKeeps ==
  ASSUME NEW h, HandlespaceInv(h), NEW home
  PROVE  HandlespaceInv(MarkPoolElements(h, home))
<1> DEFINE nodes == [pe \in DOMAIN h.node |->
                       IF pe \in OwnershipNodes(h, home)
                         THEN [h.node[pe] EXCEPT !.marked = TRUE] ELSE h.node[pe]]
           g == [h EXCEPT !.node = nodes]
<1>1. g = MarkPoolElements(h, home)
  BY DEF MarkPoolElements
<1>2. ASSUME NEW x \in DOMAIN h.node
      PROVE  \E m \in BOOLEAN : nodes[x] = [h.node[x] EXCEPT !.marked = m]
  <2>1. h.node[x] \in Node
    BY DEF HandlespaceInv, NodesKept
  <2>2. h.node[x] = [h.node[x] EXCEPT !.marked = h.node[x].marked] /\ h.node[x].marked \in BOOLEAN
    BY <2>1 DEF Node
  <2> QED
    BY Zenon, <2>2
<1>3. DOMAIN nodes = DOMAIN h.node
  OBVIOUS
<1> HIDE DEF nodes
<1>4. Shape(g) /\ (\A f \in Field \ {"node"} : g[f] = h[f]) /\ g.node = nodes
  BY DEF HandlespaceInv, Shape, Field
<1> HIDE DEF g
<1>5. /\ DOMAIN g.node = DOMAIN h.node
      /\ \A x \in DOMAIN h.node :
           \E m \in BOOLEAN : g.node[x] = [h.node[x] EXCEPT !.marked = m]
  BY <1>2, <1>3, <1>4
<1>6. HandlespaceInv(g)
  BY Zenon, <1>4, <1>5, MarksKeep
<1> QED
  BY <1>1, <1>6

\* A registration of an element that is there: marks, connection and home follow.
LEMMA UpdatePoolElementKeeps ==
  ASSUME NEW h, HandlespaceInv(h), NEW pe \in DOMAIN h.node, NEW home \in Homes,
         NEW c \in Connection
  PROVE  HandlespaceInv(UpdatePoolElement(h, pe, home, c))
<1> DEFINE g == [h EXCEPT !.node[pe].marked = FALSE]
           k == UpdateConnection(g, pe, c)
<1>1. /\ Shape(g)
      /\ \A f \in Field \ {"node"} : g[f] = h[f]
      /\ DOMAIN g.node = DOMAIN h.node
      /\ \A x \in DOMAIN h.node \ {pe} : g.node[x] = h.node[x]
      /\ g.node[pe] = [h.node[pe] EXCEPT !.marked = FALSE]
  BY Zenon DEF HandlespaceInv, Shape, Field
<1> HIDE DEF g
<1>2. ASSUME NEW x \in DOMAIN h.node
      PROVE  \E m \in BOOLEAN : g.node[x] = [h.node[x] EXCEPT !.marked = m]
  <2>1. CASE x = pe
    BY Zenon, <1>1, <2>1
  <2>2. CASE x # pe
    <3>1. h.node[x] \in Node
      BY DEF HandlespaceInv, NodesKept
    <3>2. h.node[x] = [h.node[x] EXCEPT !.marked = h.node[x].marked] /\ h.node[x].marked \in BOOLEAN
      BY <3>1 DEF Node
    <3> QED
      BY <1>1, <2>2, <3>2
  <2> QED
    BY Zenon, <2>1, <2>2
<1>3. HandlespaceInv(g)
  BY Zenon, <1>1, <1>2, MarksKeep
<1>4. HandlespaceInv(k)
  BY <1>1, <1>3, UpdateConnectionKeeps
<1>5. pe \in DOMAIN k.node
  BY <1>1, <1>3 DEF UpdateConnection, HandlespaceInv, Shape, Field
<1> HIDE DEF k
<1>6. HandlespaceInv(UpdateOwnership(k, pe, home))
  BY Zenon, <1>4, <1>5, UpdateOwnershipKeeps
<1> QED
  BY <1>6 DEF UpdatePoolElement, g, k

\* An element has one timer, also when it is restarted.
LEMMA RestartExpiryTimerKeeps ==
  ASSUME NEW h, HandlespaceInv(h), NEW pe \in DOMAIN h.node, NEW time
  PROVE  HandlespaceInv(RestartExpiryTimer(h, pe, time))
<1> DEFINE g == RestartExpiryTimer(h, pe, time)
<1>1. /\ Shape(g)
      /\ \A f \in Field \ {"timers"} : g[f] = h[f]
      /\ g.timers = Without(h.timers, pe) \cup {<<time, pe>>}
  BY DEF RestartExpiryTimer, HandlespaceInv, Shape, Field
<1>2. g.node = h.node /\ g.connections = h.connections
  BY Zenon, <1>1 DEF Field
<1> HIDE DEF g
<1>3. SameHomes(h, g)
  BY ZenonT(40), <1>1, <1>2 DEF SameHomes, HandlespaceInv, NodesKept
<1>4. \A t, u \in g.timers : t[2] \in DOMAIN g.node /\ (t[2] = u[2] => t = u)
  BY <1>1, <1>2 DEF HandlespaceInv, StoragesKept, Without
<1>5. g.connections = {<<g.node[x].connection, x>> :
                         x \in {y \in DOMAIN g.node : g.node[y].connection > 0}}
  BY <1>2 DEF HandlespaceInv, StoragesKept
<1> QED
  BY <1>3, <1>4, <1>5, SameHomesKeep DEF g

-----------------------------------------------------------------------------
(* Elements that go *)

\* An element that goes leaves no storage with an entry of it.
LEMMA DeregisterPoolElementKeeps ==
  ASSUME NEW h, HandlespaceInv(h), NEW pe \in DOMAIN h.node
  PROVE  /\ HandlespaceInv(DeregisterPoolElement(h, pe))
         /\ DOMAIN DeregisterPoolElement(h, pe).node = DOMAIN h.node \ {pe}
<1> DEFINE old == h.node[pe]
           c == ComputeChecksum(pe)
           left == DOMAIN h.node \ {pe}
           k == [h EXCEPT !.timers = Without(@, pe),
                          !.owners = Without(@, pe),
                          !.connections = Without(@, pe),
                          !.node = [x \in left |-> @[x]],
                          !.elements = @ - 1,
                          !.pools = IF \E x \in left : x[1] = pe[1] THEN @ ELSE @ \ {pe[1]}]
           g == Discount(k, old.home, c)
<1>1. old \in Node /\ old.checksum = c /\ pe \in Identity
  BY DEF HandlespaceInv, NodesKept
<1>2. g = DeregisterPoolElement(h, pe)
  BY <1>1 DEF DeregisterPoolElement
<1>3. /\ Shape(k)
      /\ k.timers = Without(h.timers, pe)
      /\ k.owners = Without(h.owners, pe)
      /\ k.connections = Without(h.connections, pe)
      /\ k.node = [x \in left |-> h.node[x]]
      /\ k.elements = h.elements - 1
      /\ k.pools = IF \E x \in left : x[1] = pe[1] THEN h.pools ELSE h.pools \ {pe[1]}
      /\ k.sum = h.sum /\ k.owned = h.owned /\ k.ownSum = h.ownSum /\ k.peers = h.peers
  BY Zenon DEF HandlespaceInv, Shape, Field
<1> HIDE DEF k
<1>4. DOMAIN k.node = left /\ \A x \in left : k.node[x] = h.node[x]
  BY <1>3
<1>5. Counted(k, HomesOf(h)) /\ DOMAIN HomesOf(h) \subseteq Identity
  <2>1. Counted(k, HomesOf(h))
    BY Zenon, <1>3 DEF HandlespaceInv, Counted, PeersDiffer
  <2>2. DOMAIN HomesOf(h) \subseteq Identity
    BY DEF HandlespaceInv, HomesOf, NodesKept
  <2> QED
    BY Zenon, <2>1, <2>2
<1>6. Joined(HomesOf(k), HomesOf(h), pe) /\ HomesOf(h)[pe] = old.home
  BY <1>1, <1>4 DEF Joined, HomesOf
<1>7. Counted(g, HomesOf(k))
  BY ZenonT(40), <1>3, <1>5, <1>6, DiscountKeeps
<1>8. /\ Shape(g)
      /\ g.pools = k.pools /\ g.node = k.node /\ g.elements = k.elements
      /\ g.owners = k.owners /\ g.connections = k.connections /\ g.timers = k.timers
  BY <1>3, DiscountFields DEF Field
<1> HIDE DEF g
<1>9. HomesOf(g) = HomesOf(k)
  BY Zenon, <1>8 DEF HomesOf
<1>10. NodesKept(g)
  BY ZenonT(40), <1>4, <1>8 DEF HandlespaceInv, NodesKept
<1>11. StoragesKept(g)
  <2>1. g.elements = Cardinality(DOMAIN g.node)
    <3>1. IsFiniteSet(DOMAIN h.node)
      BY HandlespaceAssumption, FS_Subset DEF HandlespaceInv, NodesKept
    <3>2. Cardinality(left) = Cardinality(DOMAIN h.node) - 1
      BY <3>1, FS_RemoveElement
    <3> QED
      BY ZenonT(40), <1>3, <1>4, <1>8, <3>2 DEF HandlespaceInv, StoragesKept
  <2>2. g.pools = {x[1] : x \in DOMAIN g.node}
    <3>1. h.pools = {x[1] : x \in DOMAIN h.node}
      BY Zenon DEF HandlespaceInv, StoragesKept
    <3>2. /\ g.pools = IF \E x \in left : x[1] = pe[1] THEN h.pools ELSE h.pools \ {pe[1]}
          /\ DOMAIN g.node = left
      BY Zenon, <1>3, <1>4, <1>8
    <3> QED
      BY <3>1, <3>2
  <2>3. g.owners = {<<g.node[x].home, x>> : x \in DOMAIN g.node}
    <3>1. h.owners = {<<h.node[x].home, x>> : x \in DOMAIN h.node}
      BY Zenon DEF HandlespaceInv, StoragesKept
    <3>2. g.owners = Without(h.owners, pe)
      BY Zenon, <1>3, <1>8
    <3>3. DOMAIN g.node = left /\ \A x \in left : g.node[x] = h.node[x]
      BY Zenon, <1>4, <1>8
    <3> QED
      BY <3>1, <3>2, <3>3 DEF Without
  <2>4. g.connections = {<<g.node[x].connection, x>> :
                           x \in {y \in DOMAIN g.node : g.node[y].connection > 0}}
    <3>1. h.connections = {<<h.node[x].connection, x>> :
                             x \in {y \in DOMAIN h.node : h.node[y].connection > 0}}
      BY Zenon DEF HandlespaceInv, StoragesKept
    <3>2. g.connections = Without(h.connections, pe)
      BY Zenon, <1>3, <1>8
    <3>3. DOMAIN g.node = left /\ \A x \in left : g.node[x] = h.node[x]
      BY Zenon, <1>4, <1>8
    <3> QED
      BY <3>1, <3>2, <3>3 DEF Without
  <2>5. \A t, u \in g.timers : t[2] \in DOMAIN g.node /\ (t[2] = u[2] => t = u)
    <3>1. \A t, u \in h.timers : t[2] \in DOMAIN h.node /\ (t[2] = u[2] => t = u)
      BY Zenon DEF HandlespaceInv, StoragesKept
    <3>2. g.timers = Without(h.timers, pe) /\ DOMAIN g.node = left
      BY Zenon, <1>3, <1>4, <1>8
    <3> QED
      BY <3>1, <3>2 DEF Without
  <2> QED
    BY Zenon, <2>1, <2>2, <2>3, <2>4, <2>5 DEF StoragesKept
<1> QED
  BY Zenon, <1>2, <1>4, <1>7, <1>8, <1>9, <1>10, <1>11 DEF HandlespaceInv

\* The walk through the elements to purge, as a function of those that are left.
Purged(h, g, T) == IF T = {} THEN h ELSE DeregisterPoolElement(g[T \ {Pick(T)}], Pick(T))

PurgedParts(h, S) == CHOOSE g : g = [T \in SUBSET S |-> Purged(h, g, T)]

\* DeregisterAll is the walk over the whole set.
LEMMA DeregisterAllIs ==
  ASSUME NEW h, NEW S
  PROVE  DeregisterAll(h, S) = PurgedParts(h, S)[S]
  BY DEF DeregisterAll, FoldSet, MapThenFoldSet, PurgedParts, Purged, Pick

Purgeable(h, S, n) == \E g : g = [T \in Level(S, n) |-> Purged(h, g, T)]

\* The walk is defined over the subsets of any size, one size at a time.
LEMMA PurgedUpTo ==
  ASSUME NEW h, NEW S, IsFiniteSet(S), NEW n \in Nat
  PROVE  Purgeable(h, S, n)
<1> DEFINE Good(k) == \E g : g = [T \in Level(S, k) |-> Purged(h, g, T)]
           C == {k \in Nat : ~Good(k)}
<1> SUFFICES ASSUME C # {} PROVE FALSE
  BY DEF Purgeable
<1>1. PICK k \in C : \A m \in C : k <= m
  BY Zenon, SmallestNumber
<1>2. CASE k = 0
  <2> DEFINE g == [T \in Level(S, 0) |-> h]
  <2>1. \A T \in Level(S, 0) : T = {}
    BY LevelZero
  <2>2. g = [T \in Level(S, 0) |-> Purged(h, g, T)]
    BY <2>1 DEF Purged
  <2> QED
    BY <1>1, <1>2, <2>2
<1>3. CASE k # 0
  <2>1. k - 1 \in Nat /\ Good(k - 1)
    BY <1>1, <1>3
  <2>2. PICK g : g = [T \in Level(S, k - 1) |-> Purged(h, g, T)]
    BY <2>1
  <2> DEFINE e == [T \in Level(S, k) |-> IF T \in Level(S, k - 1) THEN g[T] ELSE Purged(h, g, T)]
  <2>3. \A T \in Level(S, k) : T # {} => T \ {Pick(T)} \in Level(S, k - 1) /\ T \ {Pick(T)} \in Level(S, k)
    BY <2>1, PickRemoves DEF Level
  <2>4. \A T \in Level(S, k) : e[T] = Purged(h, g, T)
    BY <2>2
  <2>5. \A T \in Level(S, k - 1) : T \in Level(S, k) => e[T] = g[T]
    BY Zenon
  <2>6. \A T \in Level(S, k) : Purged(h, g, T) = Purged(h, e, T)
    BY ZenonT(40), <2>3, <2>5 DEF Purged
  <2>7. e = [T \in Level(S, k) |-> Purged(h, e, T)]
    BY <2>4, <2>6
  <2> QED
    BY Zenon, <1>1, <2>7
<1> QED
  BY <1>2, <1>3

\* The walk is defined over all subsets of a finite set.
LEMMA PurgedStep ==
  ASSUME NEW h, NEW S, IsFiniteSet(S), NEW T \in SUBSET S
  PROVE  PurgedParts(h, S)[T] = Purged(h, PurgedParts(h, S), T)
<1>1. Cardinality(S) \in Nat
  BY FS_CardinalityType
<1>2. PICK g : g = [X \in Level(S, Cardinality(S)) |-> Purged(h, g, X)]
  <2>1. Purgeable(h, S, Cardinality(S))
    BY <1>1, PurgedUpTo
  <2> QED
    BY <2>1 DEF Purgeable
<1>3. Level(S, Cardinality(S)) = SUBSET S
  BY FS_Subset DEF Level
<1>4. g = [X \in SUBSET S |-> Purged(h, g, X)]
  BY Zenon, <1>2, <1>3
<1> DEFINE e == PurgedParts(h, S)
<1>5. e = [X \in SUBSET S |-> Purged(h, e, X)]
  BY <1>4 DEF PurgedParts
<1> HIDE DEF e
<1>6. e[T] = Purged(h, e, T)
  BY <1>5
<1> QED
  BY <1>6 DEF e

\* A purge leaves a handlespace without the purged elements.
LEMMA DeregisterAllKeeps ==
  ASSUME NEW h, HandlespaceInv(h), NEW S \in SUBSET DOMAIN h.node
  PROVE  HandlespaceInv(DeregisterAll(h, S))
<1> DEFINE g == PurgedParts(h, S)
           Good(T) == HandlespaceInv(g[T]) /\ DOMAIN g[T].node = DOMAIN h.node \ T
           C == {n \in Nat : \E T \in SUBSET S : Cardinality(T) = n /\ ~Good(T)}
<1>1. IsFiniteSet(S)
  BY Zenon, HandlespaceAssumption, FS_Subset DEF HandlespaceInv, NodesKept
<1>2. C = {}
  <2> SUFFICES ASSUME C # {} PROVE FALSE
    OBVIOUS
  <2>1. PICK n \in C : \A m \in C : n <= m
    BY Zenon, SmallestNumber
  <2>2. PICK T \in SUBSET S : Cardinality(T) = n /\ ~Good(T)
    BY Zenon, <2>1
  <2>3. g[T] = Purged(h, g, T)
    BY Zenon, <1>1, PurgedStep
  <2>4. T # {}
    BY Zenon, <2>2, <2>3 DEF Purged
  <2> DEFINE x == Pick(T)
             V == T \ {x}
  <2>5. x \in T /\ V \in SUBSET S /\ Cardinality(V) = n - 1 /\ n - 1 \in Nat
    <3>1. /\ x \in T
          /\ Cardinality(T) \in Nat
          /\ Cardinality(V) = Cardinality(T) - 1
          /\ Cardinality(T) >= 1
      BY Zenon, <1>1, <2>4, PickRemoves
    <3> QED
      BY <2>2, <3>1
  <2>6. Good(V)
    <3>1. n - 1 \notin C
      <4>1. n \in Nat
        BY Zenon
      <4> HIDE DEF C
      <4> QED
        BY <2>1, <4>1
    <3> SUFFICES ASSUME ~Good(V) PROVE n - 1 \in C
      BY Zenon, <3>1
    <3> HIDE DEF Good, V
    <3> QED
      BY <2>5
  <2>7. g[T] = DeregisterPoolElement(g[V], x)
    BY Zenon, <2>3, <2>4 DEF Purged
  <2> HIDE DEF g, x
  <2>8. x \in DOMAIN g[V].node
    BY <2>5, <2>6
  <2>9. /\ HandlespaceInv(DeregisterPoolElement(g[V], x))
        /\ DOMAIN DeregisterPoolElement(g[V], x).node = DOMAIN g[V].node \ {x}
    BY Zenon, <2>6, <2>8, DeregisterPoolElementKeeps
  <2> QED
    BY ZenonT(40), <2>2, <2>5, <2>6, <2>7, <2>9
<1>3. Cardinality(S) \in Nat
  BY <1>1, FS_CardinalityType
<1>4. Good(S)
  BY <1>2, <1>3
<1> QED
  BY Zenon, <1>4, DeregisterAllIs

\* PurgeExpiredPoolElements takes elements with a timer, and those are linked.
LEMMA PurgeExpiredKeeps ==
  ASSUME NEW h, HandlespaceInv(h), NEW now
  PROVE  HandlespaceInv(PurgeExpiredPoolElements(h, now))
<1>1. ExpiredElements(h, now) \in SUBSET DOMAIN h.node
  BY DEF ExpiredElements, HandlespaceInv, StoragesKept
<1> QED
  BY <1>1, DeregisterAllKeeps DEF PurgeExpiredPoolElements

\* PurgeMarkedPoolElements takes elements of an ownership, and those are linked.
LEMMA PurgeMarkedKeeps ==
  ASSUME NEW h, HandlespaceInv(h), NEW home
  PROVE  HandlespaceInv(PurgeMarkedPoolElements(h, home))
<1>1. OwnershipNodes(h, home) \in SUBSET DOMAIN h.node
  BY OwnershipNodesAre DEF HandlespaceInv, Of, HomesOf
<1> DEFINE S == {pe \in OwnershipNodes(h, home) : h.node[pe].marked}
<1>2. S \in SUBSET DOMAIN h.node
  BY <1>1
<1>3. PurgeMarkedPoolElements(h, home) = DeregisterAll(h, S)
  BY DEF PurgeMarkedPoolElements
<1> HIDE DEF S
<1> QED
  BY <1>2, <1>3, DeregisterAllKeeps

-----------------------------------------------------------------------------
(* The peer list *)

\* The checksum an entry is given is that of the elements of its peer.
Summed(h, p) ==
  p \in Peer /\ p.id # OwnID /\ (p.id # UndefinedID => p.sum = ComputeSum(Of(HomesOf(h), p.id)))

\* WithSum gives an entry the checksum of the elements of its peer.
LEMMA WithSumIs ==
  ASSUME NEW h, HandlespaceInv(h), NEW p \in Peer, p.id # OwnID
  PROVE  /\ Summed(h, WithSum(h, p))
         /\ WithSum(h, p).id = p.id
<1> DEFINE s == ComputeOwnershipChecksum(h, p.id)
<1>1. s = ComputeSum(Of(HomesOf(h), p.id))
  BY Zenon, OwnershipNodesAre DEF ComputeOwnershipChecksum, HandlespaceInv
<1>2. Of(HomesOf(h), p.id) \in SUBSET Identity
  BY DEF Of, HomesOf, HandlespaceInv, NodesKept
<1>3. s \in Int
  BY <1>1, <1>2, AccumulatorType, SumOfChecksums
<1>4. WithSum(h, p) = [p EXCEPT !.sum = s]
  BY DEF WithSum
<1> HIDE DEF s
<1>5. /\ WithSum(h, p) \in Peer
      /\ WithSum(h, p).id = p.id
      /\ WithSum(h, p).sum = s
  BY Zenon, <1>3, <1>4 DEF Peer
<1> QED
  BY <1>1, <1>5 DEF Summed

\* Every entry of the list has that checksum.
LEMMA PeersSummed ==
  ASSUME NEW h, HandlespaceInv(h), NEW p \in h.peers
  PROVE  Summed(h, p)
  BY DEF HandlespaceInv, Counted, PeersDiffer, Summed

\* A list of entries with these checksums, no identifier in it twice.
LEMMA PeersKeep ==
  ASSUME NEW h, HandlespaceInv(h), NEW P,
         \A p \in P : Summed(h, p),
         \A p, q \in P : p.id # UndefinedID /\ p.id = q.id => p = q
  PROVE  HandlespaceInv([h EXCEPT !.peers = P])
<1> DEFINE g == [h EXCEPT !.peers = P]
<1>1. /\ Shape(g) /\ g.peers = P
      /\ \A f \in Field \ {"peers"} : g[f] = h[f]
  BY DEF HandlespaceInv, Shape, Field
<1> HIDE DEF g
<1>2. /\ g.node = h.node /\ g.pools = h.pools /\ g.owners = h.owners
      /\ g.connections = h.connections /\ g.timers = h.timers /\ g.elements = h.elements
      /\ g.sum = h.sum /\ g.owned = h.owned /\ g.ownSum = h.ownSum
  BY Zenon, <1>1 DEF Field
<1>3. HomesOf(g) = HomesOf(h)
  BY <1>2 DEF HomesOf
<1>4. NodesKept(g)
  BY ZenonT(40), <1>2 DEF HandlespaceInv, NodesKept
<1>5. StoragesKept(g)
  <2>1. StoragesKept(h)
    BY Zenon DEF HandlespaceInv
  <2>2. \A t, u \in g.timers : t[2] \in DOMAIN g.node /\ (t[2] = u[2] => t = u)
    BY Zenon, <1>2, <2>1 DEF StoragesKept
  <2>3. g.owners = {<<g.node[x].home, x>> : x \in DOMAIN g.node}
    <3>1. h.owners = {<<h.node[x].home, x>> : x \in DOMAIN h.node}
      BY Zenon, <2>1 DEF StoragesKept
    <3> QED
      BY Zenon, <1>2, <3>1
  <2>4. g.connections = {<<g.node[x].connection, x>> :
                           x \in {y \in DOMAIN g.node : g.node[y].connection > 0}}
    <3>1. h.connections = {<<h.node[x].connection, x>> :
                             x \in {y \in DOMAIN h.node : h.node[y].connection > 0}}
      BY Zenon, <2>1 DEF StoragesKept
    <3> QED
      BY Zenon, <1>2, <3>1
  <2>5. g.elements = Cardinality(DOMAIN g.node) /\ g.pools = {x[1] : x \in DOMAIN g.node}
    BY Zenon, <1>2, <2>1 DEF StoragesKept
  <2> QED
    BY Zenon, <2>2, <2>3, <2>4, <2>5 DEF StoragesKept
<1>6. Counted(g, HomesOf(g))
  BY <1>1, <1>2, <1>3 DEF HandlespaceInv, Counted, PeersDiffer, Summed
<1> QED
  BY <1>1, <1>4, <1>5, <1>6 DEF HandlespaceInv, g

\* An entry replaced by one with an identifier no other entry has.
LEMMA ReplacePeerKeeps ==
  ASSUME NEW h, HandlespaceInv(h), NEW old, NEW new, Summed(h, new),
         new.id # UndefinedID => \A q \in h.peers \ {old} : q.id # new.id
  PROVE  HandlespaceInv(ReplacePeer(h, old, new))
<1> DEFINE P == (h.peers \ {old}) \cup {new}
<1>1. \A p \in P : Summed(h, p)
  BY ZenonT(40), PeersSummed
<1>2. \A p, q \in P : p.id # UndefinedID /\ p.id = q.id => p = q
  BY DEF HandlespaceInv, Counted, PeersDiffer
<1>3. ReplacePeer(h, old, new) = [h EXCEPT !.peers = P]
  BY DEF ReplacePeer
<1> HIDE DEF P
<1> QED
  BY <1>1, <1>2, <1>3, PeersKeep

\* Registering a peer: refused, a configured entry, a known one, or a new one.
LEMMA RegisterDynamicPeerKeeps ==
  ASSUME NEW h, HandlespaceInv(h), NEW id \in PeerID \cup {OwnID, UndefinedID},
         NEW address \in PeerAddress
  PROVE  HandlespaceInv(RegisterDynamicPeer(h, id, address))
<1>1. CASE id \in {UndefinedID, OwnID}
  BY <1>1 DEF RegisterDynamicPeer
<1> SUFFICES ASSUME id \notin {UndefinedID, OwnID}
             PROVE  HandlespaceInv(RegisterDynamicPeer(h, id, address))
  BY <1>1
<1>2. id \in Nat /\ address \in Nat
  BY Zenon, HandlespaceAssumption
<1>3. h.peers \subseteq Peer /\ \A p, q \in h.peers : p.id # UndefinedID /\ p.id = q.id => p = q
  BY DEF HandlespaceInv, Counted, PeersDiffer
<1>4. FindPeer(h, id, address) = {p \in h.peers : p.id = id}
  BY Zenon DEF FindPeer
<1>5. CASE \E p \in FoundPeer(h, id, address) : ~p.dynamic
  <2> DEFINE p == CHOOSE q \in FoundPeer(h, id, address) : ~q.dynamic
             n == [p EXCEPT !.id = id]
  <2>1. p \in FoundPeer(h, id, address)
    BY <1>5
  <2>2. RegisterDynamicPeer(h, id, address) = ReplacePeer(h, p, WithSum(h, n))
    BY <1>5 DEF RegisterDynamicPeer
  <2> HIDE DEF p
  <2>3. p \in h.peers
    BY Zenon, <2>1 DEF FoundPeer, FindPeer
  <2>4. p.id = id \/ \A q \in h.peers : q.id # id
    BY <1>4, <2>1 DEF FoundPeer
  <2>5. n \in Peer /\ n.id = id
    BY Zenon, <1>2, <1>3, <2>3 DEF Peer
  <2> HIDE DEF n
  <2>6. Summed(h, WithSum(h, n)) /\ WithSum(h, n).id = id
    BY Zenon, <2>5, WithSumIs
  <2>7. \A q \in h.peers \ {p} : q.id # id
    BY Zenon, <1>3, <2>3, <2>4
  <2> QED
    BY <2>2, <2>6, <2>7, ReplacePeerKeeps
<1>6. CASE ~(\E p \in FoundPeer(h, id, address) : ~p.dynamic) /\ FindPeer(h, id, address) # {}
  <2> DEFINE p == CHOOSE q \in FindPeer(h, id, address) : TRUE
             n == [p EXCEPT !.address = address]
  <2>1. p \in FindPeer(h, id, address)
    BY <1>6
  <2>2. RegisterDynamicPeer(h, id, address) = ReplacePeer(h, p, WithSum(h, n))
    BY <1>6 DEF RegisterDynamicPeer
  <2> HIDE DEF p
  <2>3. p \in h.peers /\ p.id = id
    BY <1>4, <2>1
  <2>5. n \in Peer /\ n.id = id
    BY Zenon, <1>2, <1>3, <2>3 DEF Peer
  <2> HIDE DEF n
  <2>6. Summed(h, WithSum(h, n)) /\ WithSum(h, n).id = id
    BY <2>5, WithSumIs
  <2>7. \A q \in h.peers \ {p} : q.id # id
    BY <1>3, <2>3
  <2> QED
    BY <2>2, <2>6, <2>7, ReplacePeerKeeps
<1>7. CASE ~(\E p \in FoundPeer(h, id, address) : ~p.dynamic) /\ FindPeer(h, id, address) = {}
  <2> DEFINE n == NewPeer(id, address, TRUE)
             w == WithSum(h, n)
             P == h.peers \cup {w}
  <2>1. n \in Peer /\ n.id = id
    BY <1>2 DEF NewPeer, Peer
  <2>2. Summed(h, w) /\ w.id = id
    BY Zenon, <2>1, WithSumIs
  <2>3. RegisterDynamicPeer(h, id, address) = [h EXCEPT !.peers = P]
    BY <1>7 DEF RegisterDynamicPeer
  <2> HIDE DEF w, n
  <2>4. \A p \in P : Summed(h, p)
    BY Zenon, <2>2, PeersSummed
  <2>5. \A p, q \in P : p.id # UndefinedID /\ p.id = q.id => p = q
    BY Zenon, <1>3, <1>4, <1>7, <2>2
  <2> HIDE DEF P
  <2> QED
    BY <2>3, <2>4, <2>5, PeersKeep
<1> QED
  BY <1>5, <1>6, <1>7

\* Deregistering a peer: a configured entry stays, without its identifier.
LEMMA DeregisterPeerKeeps ==
  ASSUME NEW h, HandlespaceInv(h), NEW p \in h.peers
  PROVE  HandlespaceInv(DeregisterPeer(h, p))
<1>1. CASE ~p.dynamic /\ p.id # UndefinedID
  <2> DEFINE n == NewPeer(UndefinedID, p.address, FALSE)
  <2>1. n \in Peer /\ n.id = UndefinedID
    BY DEF NewPeer, UndefinedID, Peer, HandlespaceInv, Counted, PeersDiffer
  <2>2. UndefinedID # OwnID
    BY HandlespaceAssumption DEF UndefinedID
  <2>3. DeregisterPeer(h, p) = ReplacePeer(h, p, n)
    BY Zenon, <1>1 DEF DeregisterPeer
  <2> HIDE DEF n
  <2>4. Summed(h, n)
    BY <2>1, <2>2 DEF Summed
  <2> QED
    BY ZenonT(40), <2>1, <2>3, <2>4, ReplacePeerKeeps
<1>2. CASE ~(~p.dynamic /\ p.id # UndefinedID)
  <2> DEFINE P == h.peers \ {p}
  <2>1. DeregisterPeer(h, p) = [h EXCEPT !.peers = P]
    BY Zenon, <1>2 DEF DeregisterPeer
  <2>2. \A q \in P : Summed(h, q)
    BY Zenon, PeersSummed
  <2>3. \A q, r \in P : q.id # UndefinedID /\ q.id = r.id => q = r
    BY DEF HandlespaceInv, Counted, PeersDiffer
  <2> HIDE DEF P
  <2> QED
    BY <2>1, <2>2, <2>3, PeersKeep
<1> QED
  BY <1>1, <1>2

-----------------------------------------------------------------------------
(* The checksum that is sent *)

Carry(s) == (s % ChecksumRange) + (s \div ChecksumRange)

\* Adding the carries makes the sum smaller, so it comes to an end.
LEMMA CarryDecreases ==
  ASSUME NEW s \in Nat, s >= ChecksumRange
  PROVE  Carry(s) \in 0 .. s - 1
<1> DEFINE R == ChecksumRange
           d == s \div R
           m == s % R
<1>1. R \in Nat /\ R > 1
  BY HandlespaceAssumption
<1>2. d \in Int /\ m \in 0 .. R - 1 /\ s = R * d + m
  BY <1>1, DivMod
<1> HIDE DEF R, d, m
<1>3. d > 0
  <2> SUFFICES ASSUME d <= 0 PROVE FALSE
    BY <1>2
  <2>1. R * d <= 0
    BY <1>1, <1>2
  <2>2. s >= R
    BY Zenon DEF R
  <2> QED
    BY <1>1, <1>2, <2>1, <2>2
<1>4. R * d >= 2 * d
  BY <1>1, <1>2, <1>3
<1>5. m + d \in 0 .. s - 1
  BY <1>1, <1>2, <1>3, <1>4
<1> QED
  BY <1>5 DEF Carry, m, d, R

Folding(g, s) == IF s < ChecksumRange THEN s ELSE g[Carry(s)]

Fold(n) == CHOOSE g : g = [s \in 0 .. n - 1 |-> Folding(g, s)]

\* The recursion of ChecksumFinish is defined for every sum.
LEMMA FoldExists ==
  ASSUME NEW n \in Nat
  PROVE  Fold(n) = [s \in 0 .. n - 1 |-> Folding(Fold(n), s)]
<1> DEFINE Good(k) == \E g : g = [s \in 0 .. k - 1 |-> Folding(g, s)]
           C == {k \in Nat : ~Good(k)}
<1> SUFFICES ASSUME C # {} PROVE FALSE
  BY Zenon DEF Fold
<1>1. PICK k \in C : \A m \in C : k <= m
  BY Zenon, SmallestNumber
<1>2. CASE k = 0
  <2> DEFINE g == [s \in 0 .. 0 - 1 |-> 0]
  <2>1. g = [s \in 0 .. 0 - 1 |-> Folding(g, s)]
    OBVIOUS
  <2> QED
    BY Zenon, <1>1, <1>2, <2>1
<1>3. CASE k # 0
  <2>1. k - 1 \in Nat /\ Good(k - 1)
    BY <1>1, <1>3
  <2>2. PICK g : g = [s \in 0 .. (k - 1) - 1 |-> Folding(g, s)]
    BY <2>1
  <2> DEFINE e == [s \in 0 .. k - 1 |-> Folding(g, s)]
  <2>3. \A s \in 0 .. (k - 1) - 1 : e[s] = g[s]
    BY <2>1, <2>2
  <2>4. \A s \in 0 .. k - 1 : s >= ChecksumRange => Carry(s) \in 0 .. (k - 1) - 1
    <3> SUFFICES ASSUME NEW s \in 0 .. k - 1, s >= ChecksumRange
                 PROVE  Carry(s) \in 0 .. (k - 1) - 1
      OBVIOUS
    <3>1. Carry(s) \in 0 .. s - 1
      BY <1>1, CarryDecreases
    <3> QED
      BY <1>1, <3>1
  <2>5. ASSUME NEW s \in 0 .. k - 1 PROVE Folding(g, s) = Folding(e, s)
    <3> HIDE DEF e
    <3>1. s < ChecksumRange \/ s >= ChecksumRange
      BY <1>1, HandlespaceAssumption
    <3> QED
      BY Zenon, <2>3, <2>4, <3>1 DEF Folding
  <2>6. e = [s \in 0 .. k - 1 |-> Folding(e, s)]
    BY <2>5
  <2> QED
    BY Zenon, <1>1, <2>6
<1> QED
  BY <1>2, <1>3

\* It ends with a number that fits into the checksum.
LEMMA FoldRange ==
  ASSUME NEW n \in Nat, NEW s \in 0 .. n - 1
  PROVE  Fold(n)[s] \in 0 .. ChecksumRange - 1
<1> DEFINE g == Fold(n)
           C == {k \in Nat : k \in 0 .. n - 1 /\ g[k] \notin 0 .. ChecksumRange - 1}
<1> SUFFICES ASSUME C # {} PROVE FALSE
  OBVIOUS
<1>1. PICK k \in C : \A m \in C : k <= m
  BY Zenon, SmallestNumber
<1>2. k \in 0 .. n - 1 /\ k \in Nat /\ g[k] = Folding(g, k)
  BY <1>1, FoldExists
<1> HIDE DEF g
<1>3. CASE k < ChecksumRange
  BY <1>1, <1>2, <1>3, HandlespaceAssumption DEF Folding
<1>4. CASE ~(k < ChecksumRange)
  <2>1. k >= ChecksumRange
    BY <1>2, <1>4, HandlespaceAssumption
  <2>2. Carry(k) \in 0 .. k - 1
    BY Zenon, <1>2, <2>1, CarryDecreases
  <2>3. Carry(k) \notin C /\ Carry(k) \in 0 .. n - 1 /\ Carry(k) \in Nat
    <3> HIDE DEF C
    <3> QED
      BY <1>1, <1>2, <2>2
  <2>4. g[k] = g[Carry(k)]
    BY <1>2, <1>4 DEF Folding
  <2> QED
    BY Zenon, <1>1, <2>3, <2>4
<1> QED
  BY <1>3, <1>4

\* ChecksumFinish is defined for every sum an accumulator can hold, and gives a checksum.
LEMMA ChecksumFinishRange ==
  ASSUME NEW s \in 0 .. Accumulator - 1
  PROVE  ChecksumFinish(s) \in 0 .. ChecksumRange - 1
<1>1. ChecksumFinish(s) = ChecksumRange - 1 - Fold(Accumulator)[s]
  BY DEF ChecksumFinish, Fold, Folding, Carry
<1>2. Fold(Accumulator)[s] \in 0 .. ChecksumRange - 1
  BY AccumulatorType, FoldRange
<1> DEFINE f == Fold(Accumulator)[s]
<1> HIDE DEF f
<1>3. f \in 0 .. ChecksumRange - 1 => ChecksumRange - 1 - f \in 0 .. ChecksumRange - 1
  BY HandlespaceAssumption
<1> QED
  BY <1>1, <1>2, <1>3 DEF f

-----------------------------------------------------------------------------
(* The theorems *)

\* A handlespace begins empty, with the configured peers.
LEMMA HandlespaceInitial == HandlespaceInit => HandlespaceInv(store)
<1> SUFFICES ASSUME NEW static \in SUBSET PeerAddress
             PROVE  HandlespaceInv(RegisterStaticPeers(NewHandlespace, static))
  BY Zenon DEF HandlespaceInit
<1> DEFINE h == NewHandlespace
<1>1. /\ DOMAIN h.node = {} /\ h.pools = {} /\ h.owners = {} /\ h.connections = {}
      /\ h.timers = {} /\ h.elements = 0 /\ h.owned = 0 /\ h.sum = 0 /\ h.ownSum = 0
      /\ h.peers = {}
  BY Zenon DEF NewHandlespace
<1>2. Shape(h)
  BY DEF NewHandlespace, Shape, Field
<1> HIDE DEF h
<1>3. ComputeSum({}) = 0
  <2>1. 0 % Accumulator = 0
    BY AccumulatorType
  <2>2. SumFunctionOnSet([pe \in Identity |-> ComputeChecksum(pe)], {}) = 0
    BY SumEmpty
  <2> QED
    BY <2>1, <2>2 DEF ComputeSum
<1>4. Cardinality({}) = 0
  BY FS_EmptySet
<1>5. NodesKept(h) /\ StoragesKept(h)
  BY <1>1, <1>4 DEF NodesKept, StoragesKept
<1>6. DOMAIN HomesOf(h) = {} /\ Of(HomesOf(h), OwnID) = {}
  BY <1>1 DEF HomesOf, Of
<1>7. Counted(h, HomesOf(h))
  BY Zenon, <1>1, <1>3, <1>4, <1>6 DEF Counted, PeersDiffer
<1>8. HandlespaceInv(h)
  BY <1>2, <1>5, <1>7 DEF HandlespaceInv
<1> DEFINE P == h.peers \cup {WithSum(h, NewPeer(UndefinedID, a, FALSE)) : a \in static}
<1>9. RegisterStaticPeers(NewHandlespace, static) = [h EXCEPT !.peers = P]
  BY DEF RegisterStaticPeers, h
<1>10. ASSUME NEW p \in P PROVE Summed(h, p) /\ p.id = UndefinedID
  <2>1. PICK a \in static : p = WithSum(h, NewPeer(UndefinedID, a, FALSE))
    BY Zenon, <1>1
  <2>2. a \in Nat /\ UndefinedID # OwnID
    BY HandlespaceAssumption DEF UndefinedID
  <2> DEFINE n == NewPeer(UndefinedID, a, FALSE)
  <2>3. n \in Peer /\ n.id = UndefinedID
    BY <2>2 DEF NewPeer, UndefinedID, Peer
  <2> HIDE DEF n
  <2>4. Summed(h, WithSum(h, n)) /\ WithSum(h, n).id = UndefinedID
    BY Zenon, <1>8, <2>2, <2>3, WithSumIs
  <2> QED
    BY Zenon, <2>1, <2>4 DEF n
<1> HIDE DEF P
<1> QED
  BY <1>8, <1>9, <1>10, PeersKeep

\* Every operation keeps the invariant.
LEMMA HandlespaceStep ==
  ASSUME HandlespaceInv(store), [HandlespaceNext]_store
  PROVE  HandlespaceInv(store')
<1> SUFFICES ASSUME HandlespaceNext PROVE HandlespaceInv(store')
  OBVIOUS
<1>1. CASE RegisterElement
  BY Zenon, <1>1, AddPoolElementKeeps, UpdatePoolElementKeeps DEF RegisterElement, AddOrUpdatePoolElement
<1>2. CASE RefuseElement
  BY <1>2 DEF RefuseElement, AddOrUpdatePoolElement
<1>3. CASE DeregisterElement
  BY Zenon, <1>3, DeregisterPoolElementKeeps DEF DeregisterElement
<1>4. CASE ChangeElement
  BY Zenon, <1>4, UpdateOwnershipKeeps, UpdateConnectionKeeps, RestartExpiryTimerKeeps DEF ChangeElement
<1>5. CASE ExpireElements
  BY <1>5, PurgeExpiredKeeps DEF ExpireElements
<1>6. CASE MarkElements
  BY <1>6, MarkPoolElementsKeeps DEF MarkElements
<1>7. CASE PurgeMarkedElements
  BY <1>7, PurgeMarkedKeeps DEF PurgeMarkedElements
<1>8. CASE RegisterPeer
  BY <1>8, RegisterDynamicPeerKeeps DEF RegisterPeer
<1>9. CASE DeregisterAPeer
  BY <1>9, DeregisterPeerKeeps DEF DeregisterAPeer
<1> QED
  BY Zenon, <1>1, <1>2, <1>3, <1>4, <1>5, <1>6, <1>7, <1>8, <1>9 DEF HandlespaceNext

\* Every operation on the handlespace and on the peer list leaves the storages,
\* the counters and the checksums in step with the nodes.
THEOREM HandlespaceInvariant == HandlespaceSpec => []HandlespaceInv(store)
<1>1. HandlespaceInit => HandlespaceInv(store)
  BY HandlespaceInitial
<1>2. HandlespaceInv(store) /\ [HandlespaceNext]_store => HandlespaceInv(store')
  BY HandlespaceStep
<1>3. HandlespaceInv(store)' <=> HandlespaceInv(store')
  OBVIOUS
<1> QED
  BY <1>1, <1>2, <1>3, PTL DEF HandlespaceSpec

\* For any elements, registrars, connections and checksum width: what
\* poolHandlespaceNodeVerify checks holds after every operation.
THEOREM HandlespaceVerifyAlways == HandlespaceSpec => []HandlespaceVerify
<1>1. HandlespaceInv(store) => HandlespaceVerify
  <2> SUFFICES ASSUME HandlespaceInv(store) PROVE HandlespaceVerify
    OBVIOUS
  <2>1. \A r : OwnershipNodes(store, r) = Of(HomesOf(store), r)
    BY Zenon, OwnershipNodesAre DEF HandlespaceInv
  <2>2. /\ store.owned = Cardinality(OwnershipNodes(store, OwnID))
        /\ store.sum = ComputeSum(DOMAIN store.node)
        /\ store.ownSum = ComputeOwnershipChecksum(store, OwnID)
    BY Zenon, <2>1 DEF HandlespaceInv, Counted, HomesOf, ComputeOwnershipChecksum
  <2>3. \A o \in store.owners : o[2] \in DOMAIN store.node /\ o[1] = store.node[o[2]].home
    BY DEF HandlespaceInv, StoragesKept
  <2>4. \A o \in store.connections :
          o[2] \in DOMAIN store.node /\ o[1] = store.node[o[2]].connection
    BY DEF HandlespaceInv, StoragesKept
  <2>5. ASSUME NEW pe \in DOMAIN store.node
        PROVE  /\ store.node[pe].home # UndefinedID => pe \in OwnershipNodes(store, store.node[pe].home)
               /\ store.node[pe].connection # 0 => pe \in ConnectionNodes(store, store.node[pe].connection)
    <3>1. pe \in OwnershipNodes(store, store.node[pe].home)
      BY Zenon, <2>1 DEF Of, HomesOf
    <3>2. ASSUME store.node[pe].connection # 0
          PROVE  pe \in ConnectionNodes(store, store.node[pe].connection)
      <4> DEFINE o == <<store.node[pe].connection, pe>>
      <4>1. store.node[pe].connection > 0
        <5>1. store.node[pe].connection \in Nat
          BY Zenon DEF HandlespaceInv, NodesKept, Node
        <5> QED
          BY <3>2, <5>1
      <4>2. o \in store.connections /\ o[1] = store.node[pe].connection /\ o[2] = pe
        BY <4>1 DEF HandlespaceInv, StoragesKept
      <4> HIDE DEF o
      <4> QED
        BY Zenon, <4>2 DEF ConnectionNodes
    <3> QED
      BY <3>1, <3>2
  <2>6. /\ store.elements = Cardinality(DOMAIN store.node)
        /\ store.pools = {pe[1] : pe \in DOMAIN store.node}
        /\ \A t, u \in store.timers : t[2] \in DOMAIN store.node /\ (t[2] = u[2] => t = u)
    BY ZenonT(40) DEF HandlespaceInv, StoragesKept
  <2> QED
    BY <2>2, <2>3, <2>4, <2>5, <2>6 DEF HandlespaceVerify
<1> QED
  BY <1>1, HandlespaceInvariant, PTL

\* For any peers and addresses: no registrar is in the peer list twice, and the
\* checksum kept for each is that of the elements it owns here.
THEOREM PeerListVerifyAlways == HandlespaceSpec => []PeerListVerify
<1>1. HandlespaceInv(store) => PeerListVerify
  <2> SUFFICES ASSUME HandlespaceInv(store) PROVE PeerListVerify
    OBVIOUS
  <2>1. \A p, q \in store.peers :
          p.id # OwnID /\ (p.id # UndefinedID /\ p.id = q.id => p = q)
    BY Zenon DEF HandlespaceInv, Counted, PeersDiffer
  <2>2. ASSUME NEW p \in store.peers, p.id # UndefinedID
        PROVE  /\ p.sum = ComputeOwnershipChecksum(store, p.id)
               /\ ChecksumFinish(p.sum) \in 0 .. ChecksumRange - 1
    <3>1. p.sum = ComputeSum(Of(HomesOf(store), p.id))
      BY Zenon, <2>2 DEF HandlespaceInv, Counted
    <3>2. OwnershipNodes(store, p.id) = Of(HomesOf(store), p.id)
      BY Zenon, OwnershipNodesAre DEF HandlespaceInv
    <3>3. Of(HomesOf(store), p.id) \in SUBSET Identity
      BY Zenon DEF Of, HomesOf, HandlespaceInv, NodesKept
    <3>4. p.sum \in 0 .. Accumulator - 1
      BY <3>1, <3>3, SumOfChecksums
    <3> QED
      BY ZenonT(40), <3>1, <3>2, <3>4, ChecksumFinishRange DEF ComputeOwnershipChecksum
  <2> QED
    BY <2>1, <2>2 DEF PeerListVerify
<1> QED
  BY <1>1, HandlespaceInvariant, PTL

-----------------------------------------------------------------------------
(* Lists: sequences without the same element twice.                        *)

Distinct(s) == \A i, j \in DOMAIN s : s[i] = s[j] => i = j

\* The elements behind a removed one move up by one place.
LEMMA RemNodeFacts ==
  ASSUME NEW S, NEW s \in Seq(S), NEW k \in 1..Len(s)
  PROVE  /\ RemNode(s, k) \in Seq(S)
         /\ Len(RemNode(s, k)) = Len(s) - 1
         /\ \A i \in 1..(Len(s) - 1) : RemNode(s, k)[i] = IF i < k THEN s[i] ELSE s[i + 1]
<1> DEFINE a == SubSeq(s, 1, k - 1)
           b == SubSeq(s, k + 1, Len(s))
<1>1. a \in Seq(S) /\ Len(a) = k - 1 /\ \A i \in 1..(k - 1) : a[i] = s[i]
  OBVIOUS
<1>2. b \in Seq(S) /\ Len(b) = Len(s) - k /\ \A i \in 1..(Len(s) - k) : b[i] = s[k + i]
  OBVIOUS
<1>3. RemNode(s, k) = a \o b
  BY DEF RemNode
<1> HIDE DEF a, b
<1>4. Len(a \o b) = Len(s) - 1 /\ a \o b \in Seq(S)
  <2>1. a \in Seq(S) /\ b \in Seq(S) /\ Len(a) = k - 1 /\ Len(b) = Len(s) - k
    BY Zenon, <1>1, <1>2
  <2>2. a \o b \in Seq(S)
    BY <2>1
  <2>3. Len(a \o b) = Len(a) + Len(b)
    BY <2>1
  <2> QED
    BY <2>1, <2>2, <2>3
<1>5. \A i \in 1..(Len(s) - 1) : (a \o b)[i] = IF i < k THEN s[i] ELSE s[i + 1]
  <2> SUFFICES ASSUME NEW i \in 1..(Len(s) - 1)
               PROVE  (a \o b)[i] = IF i < k THEN s[i] ELSE s[i + 1]
    BY Zenon
  <2>1. CASE i < k
    BY <1>1, <1>2, <2>1
  <2>2. CASE ~(i < k)
    <3>1. (a \o b)[i] = b[i - (k - 1)]
      BY <1>1, <1>2, <2>2
    <3>2. b[i - (k - 1)] = s[i + 1]
      BY <1>2, <2>2
    <3> QED
      BY <3>1, <3>2, <2>2
  <2> QED
    BY Zenon, <2>1, <2>2
<1> QED
  BY Zenon, <1>3, <1>4, <1>5

\* Removing the element at a place of a list leaves the others, once each.
LEMMA ListRemove ==
  ASSUME NEW S, NEW s \in Seq(S), Distinct(s), NEW k \in DOMAIN s
  PROVE  /\ RemNode(s, k) \in Seq(S)
         /\ Len(RemNode(s, k)) = Len(s) - 1
         /\ Distinct(RemNode(s, k))
         /\ Range(RemNode(s, k)) = Range(s) \ {s[k]}
<1> DEFINE r == RemNode(s, k)
           e == s[k]
<1>1. k \in 1..Len(s)
  OBVIOUS
<1>3. /\ r \in Seq(S)
      /\ Len(r) = Len(s) - 1
      /\ \A i \in 1..(Len(s) - 1) : r[i] = IF i < k THEN s[i] ELSE s[i + 1]
  BY Zenon, <1>1, RemNodeFacts
<1> HIDE DEF r
<1> DEFINE old(i) == IF i < k THEN i ELSE i + 1
<1>31. \A i \in 1..Len(r) : old(i) \in 1..Len(s) /\ old(i) # k /\ r[i] = s[old(i)]
  BY <1>3
<1>32. \A i, j \in 1..Len(r) : old(i) = old(j) => i = j
  BY <1>3
<1>33. \A i, j \in 1..Len(s) : s[i] = s[j] => i = j
  BY DEF Distinct
<1>34. DOMAIN r = 1..Len(r) /\ DOMAIN s = 1..Len(s)
  BY <1>3
<1> HIDE DEF old
<1>4. Distinct(r)
  <2> SUFFICES ASSUME NEW i \in 1..Len(r), NEW j \in 1..Len(r), r[i] = r[j] PROVE i = j
    BY Zenon, <1>34 DEF Distinct
  <2>1. old(i) = old(j)
    BY Zenon, <1>31, <1>33
  <2> QED
    BY Zenon, <1>32, <2>1
<1>5. Range(r) \subseteq Range(s) \ {e}
  <2> SUFFICES ASSUME NEW i \in 1..Len(r) PROVE r[i] \in Range(s) /\ r[i] # e
    BY <1>34 DEF Range
  <2> QED
    BY Zenon, <1>1, <1>31, <1>33, <1>34 DEF Range
<1>6. ASSUME NEW x \in Range(s) \ {e} PROVE x \in Range(r)
  <2>1. PICK j \in 1..Len(s) : s[j] = x
    BY DEF Range
  <2>2. CASE j < k
    <3>1. j \in 1..(Len(s) - 1) /\ r[j] = x
      BY <1>1, <1>3, <2>1, <2>2
    <3> QED
      BY Zenon, <1>3, <1>34, <3>1 DEF Range
  <2>3. CASE j > k
    <3>1. j - 1 \in 1..(Len(s) - 1) /\ r[j - 1] = x
      BY <1>1, <1>3, <2>1, <2>3
    <3> QED
      BY Zenon, <1>3, <1>34, <3>1 DEF Range
  <2> QED
    BY <1>1, <2>1, <2>2, <2>3
<1> QED
  BY <1>3, <1>4, <1>5, <1>6 DEF r

\* Pushing a new element keeps a list one without the same element twice.
LEMMA ListPush ==
  ASSUME NEW S, NEW s \in Seq(S), Distinct(s), NEW e \in S, e \notin Range(s)
  PROVE  /\ <<e>> \o s \in Seq(S)
         /\ Len(<<e>> \o s) = Len(s) + 1
         /\ Distinct(<<e>> \o s)
         /\ Range(<<e>> \o s) = Range(s) \cup {e}
<1> DEFINE r == <<e>> \o s
<1>1. r \in Seq(S) /\ Len(r) = Len(s) + 1 /\ r[1] = e
  OBVIOUS
<1>2. \A i \in 2..(Len(s) + 1) : r[i] = s[i - 1]
  OBVIOUS
<1>3. \A i \in 1..Len(s) : r[i + 1] = s[i]
  OBVIOUS
<1> HIDE DEF r
<1>4. \A i \in 1..Len(s) : s[i] # e
  BY DEF Range
<1>5. Distinct(r)
  <2>1. DOMAIN r = 1..(Len(s) + 1) /\ DOMAIN s = 1..Len(s)
    BY <1>1
  <2>2. ASSUME NEW i \in 2..(Len(s) + 1) PROVE i - 1 \in 1..Len(s) /\ r[i] # e
    BY <1>2, <1>4
  <2>3. ASSUME NEW i \in 2..(Len(s) + 1), NEW j \in 2..(Len(s) + 1), r[i] = r[j] PROVE i = j
    <3>1. i - 1 \in DOMAIN s /\ j - 1 \in DOMAIN s
      BY Zenon, <2>1, <2>2
    <3>2. s[i - 1] = s[j - 1]
      BY Zenon, <1>2, <2>3
    <3>3. i - 1 = j - 1
      BY Zenon, <3>1, <3>2 DEF Distinct
    <3> QED
      BY <3>3
  <2>4. \A i \in DOMAIN r : i = 1 \/ i \in 2..(Len(s) + 1)
    BY <2>1
  <2> QED
    BY Zenon, <1>1, <2>2, <2>3, <2>4 DEF Distinct
<1>6. Range(r) \subseteq Range(s) \cup {e}
  <2>1. DOMAIN s = 1..Len(s) /\ \A i \in DOMAIN r : i = 1 \/ i \in 2..(Len(s) + 1)
    BY <1>1
  <2>2. \A i \in 2..(Len(s) + 1) : i - 1 \in 1..Len(s)
    OBVIOUS
  <2>3. ASSUME NEW i \in DOMAIN r PROVE r[i] \in Range(s) \cup {e}
    BY Zenon, <1>1, <1>2, <2>1, <2>2 DEF Range
  <2> QED
    BY Zenon, <2>3 DEF Range
<1>7. Range(s) \cup {e} \subseteq Range(r)
  <2>1. e \in Range(r)
    BY <1>1 DEF Range
  <2>2. ASSUME NEW i \in 1..Len(s) PROVE s[i] \in Range(r)
    BY <1>1, <1>3 DEF Range
  <2> QED
    BY <2>1, <2>2 DEF Range
<1> QED
  BY Zenon, <1>1, <1>5, <1>6, <1>7 DEF r

\* The rest of a list has the elements but the first.
LEMMA ListTail ==
  ASSUME NEW S, NEW s \in Seq(S), Distinct(s), s # <<>>
  PROVE  /\ Tail(s) \in Seq(S)
         /\ Distinct(Tail(s))
         /\ Range(Tail(s)) \subseteq Range(s) \ {Head(s)}
         /\ Head(s) \in Range(s)
<1>1. /\ Tail(s) \in Seq(S) /\ Len(Tail(s)) = Len(s) - 1 /\ Head(s) = s[1] /\ Len(s) >= 1
      /\ \A i \in 1..Len(Tail(s)) : Tail(s)[i] = s[i + 1]
  OBVIOUS
<1> QED
  BY <1>1 DEF Distinct, Range

-----------------------------------------------------------------------------
(* The inductive invariant *)

Place == {"none", "initialize", "loop", "finish", "setLoad", "write", "finished"}

SessionThread == [at : Place, load : Nat, shutdown : BOOLEAN, want : Nat, after : Place]

Active == {s \in Session : session[s].at # "none"}

LoadOf == [s \in Session |-> session[s].load]

ServerTypeOK ==
  /\ session \in [Session -> SessionThread]
  /\ threadList \in Seq(Session) /\ todo \in Seq(Session)
  /\ notified \in BOOLEAN /\ missed \in BOOLEAN

\* An object that is not in use has no load, and a setLoad() goes on in run().
SessionsKept ==
  \A s \in Session :
    /\ session[s].at = "none" => session[s].load = 0
    /\ session[s].at \in {"setLoad", "write"} => session[s].after \in {"loop", "finish", "finished"}

\* The list has the threads, once each; what handleRemovalsAndTimers() has yet
\* to see is in the list.
ListOfThreads ==
  /\ threads = Len(threadList)
  /\ Distinct(threadList)
  /\ Range(threadList) = Active
  /\ Cardinality(Active) = Len(threadList)

ListKept ==
  /\ ListOfThreads
  /\ server = "removals" => Distinct(todo) /\ Range(todo) \subseteq Active
  /\ server = "join" => threadList # <<>>

SumKept ==
  /\ loadSum = SumFunctionOnSet(LoadOf, Session)
  /\ loadSum <= FullLoad

\* A session has changed the load and not written its notification yet.
Writing == \E s \in Session : session[s].at = "write"

\* A load that is 1% off is going to wake the main thread, or its notification
\* came between the look at the load and the read of the pipe.  What is in the
\* pipe before the read is no reason: the read takes it.
Told == Near(announced, loadSum) \/ notified \/ missed \/ Writing

ToldBeforeRead ==
  server = "clear" => /\ Near(announced, loadSum) \/ missed \/ Writing
                      /\ missed => notified

ChangeTold ==
  /\ announced \in Int
  /\ Told
  /\ ToldBeforeRead

ServerInv == ServerTypeOK /\ SessionsKept /\ ListKept /\ SumKept /\ ChangeTold

-----------------------------------------------------------------------------
\* The sum of the loads is a natural number.
LEMMA LoadSumType ==
  ASSUME ServerTypeOK, SumKept
  PROVE  loadSum \in Int
<1>1. \A s \in Session : LoadOf[s] \in Int
  BY DEF ServerTypeOK, SessionThread, LoadOf
<1> QED
  BY Zenon, <1>1, SumType, PoolServerAssumption DEF SumKept

\* A server begins with no session and no load.
LEMMA ServerInitially ==
  ServerInit => ServerInv
<1> SUFFICES ASSUME ServerInit PROVE ServerInv
  OBVIOUS
<1>1. ServerTypeOK /\ SessionsKept
  <2>1. NoSession \in SessionThread /\ NoSession.at = "none" /\ NoSession.load = 0
    BY DEF NoSession, SessionThread, Place
  <2>2. session \in [Session -> SessionThread] /\ SessionsKept
    BY <2>1 DEF ServerInit, SessionsKept
  <2>3. threadList \in Seq(Session) /\ todo \in Seq(Session)
    BY DEF ServerInit
  <2> QED
    BY Zenon, <2>2, <2>3 DEF ServerInit, ServerTypeOK
<1>2. ListKept
  <2>1. Active = {} /\ Distinct(<<>>) /\ Range(<<>>) = {}
    BY DEF ServerInit, NoSession, Active, Distinct, Range
  <2> QED
    BY Zenon, <2>1, FS_EmptySet DEF ServerInit, ListKept, ListOfThreads
<1>3. SumKept
  <2>1. \A s \in Session : LoadOf[s] = 0
    BY DEF ServerInit, NoSession, LoadOf
  <2>2. SumFunctionOnSet(LoadOf, Session) = 0
    BY <2>1, SumZero, PoolServerAssumption
  <2> QED
    BY <2>2, PoolServerAssumption DEF ServerInit, SumKept
<1>4. ChangeTold
  BY PoolServerAssumption DEF ServerInit, ChangeTold, Told, ToldBeforeRead, Near
<1> QED
  BY Zenon, <1>1, <1>2, <1>3, <1>4 DEF ServerInv

\* A step of a session that leaves the loads and the list alone.
LEMMA SessionMoves ==
  ASSUME ServerInv,
         UNCHANGED <<listVars, server, todo, announced>>,
         session' \in [Session -> SessionThread],
         SessionsKept',
         \A s \in Session : session'[s].at = "none" <=> session[s].at = "none",
         \A s \in Session : session'[s].load = session[s].load,
         notified' \in BOOLEAN, notified => notified',
         missed' \in BOOLEAN, missed => missed', missed' => missed \/ notified',
         Writing => Writing' \/ (notified' /\ (server = "clear" => missed'))
  PROVE  ServerInv'
<1> USE DEF listVars
<1>1. Active' = Active /\ LoadOf' = LoadOf
  BY DEF Active, LoadOf, ServerInv, ServerTypeOK
<1>2. ServerTypeOK'
  BY Zenon DEF ServerInv, ServerTypeOK
<1>3. ListKept' /\ SumKept'
  BY Zenon, <1>1 DEF ServerInv, ListKept, ListOfThreads, SumKept
<1>4. ChangeTold'
  <2>1. Near(announced, loadSum)' <=> Near(announced, loadSum)
    BY Zenon DEF Near
  <2> QED
    BY Zenon, <2>1 DEF ServerInv, ChangeTold, Told, ToldBeforeRead
<1> QED
  BY ZenonT(40), <1>2, <1>3, <1>4 DEF ServerInv

\* Session s goes on, with the load it has.
Moved(s) ==
  /\ session' \in [Session -> SessionThread]
  /\ SessionsKept'
  /\ \A x \in Session : session'[x].at = "none" <=> session[x].at = "none"
  /\ \A x \in Session : session'[x].load = session[x].load
  /\ \A x \in Session \ {s} : session'[x] = session[x]

\* A session that only goes on in run() moves nothing else.
LEMMA GoesMoves ==
  ASSUME ServerInv, NEW s \in Session, session[s].at # "none",
         NEW place \in Place \ {"none", "setLoad", "write"}, Goes(s, place)
  PROVE  Moved(s)
<1> DEFINE new == [session[s] EXCEPT !.at = place, !.want = 0, !.after = "none"]
<1>1. session[s] \in SessionThread
  BY DEF ServerInv, ServerTypeOK
<1>2. new \in SessionThread /\ new.at = place /\ new.load = session[s].load
  BY Zenon, <1>1 DEF SessionThread, Place
<1>3. session' = [session EXCEPT ![s] = new]
  BY Zenon, <1>1 DEF Goes
<1> HIDE DEF new
<1>4. session'[s] = new /\ \A x \in Session \ {s} : session'[x] = session[x]
  BY <1>3 DEF ServerInv, ServerTypeOK
<1> QED
  BY ZenonT(40), <1>2, <1>3, <1>4 DEF Moved, ServerInv, ServerTypeOK, SessionsKept

\* The calls of the handlers in run() move nothing else.
LEMMA HandlerMoves ==
  ASSUME ServerInv, NEW s \in Session, session[s].at \notin {"none", "write"},
         NEW after \in {"loop", "finish", "finished"}, Handler(s, after),
         UNCHANGED <<listVars, notified, mainThreadVars>>
  PROVE  ServerInv'
<1>1. Moved(s)
  <2>1. CASE Goes(s, after)
    <3>1. after \in Place \ {"none", "setLoad", "write"}
      BY DEF Place
    <3> QED
      BY ZenonT(40), <2>1, <3>1, GoesMoves
  <2>2. ASSUME NEW load \in SessionLoads,
               session' = [session EXCEPT ![s].at = "setLoad", ![s].want = load,
                                          ![s].after = after]
        PROVE  Moved(s)
    <3> DEFINE new == [session[s] EXCEPT !.at = "setLoad", !.want = load, !.after = after]
    <3>1. session[s] \in SessionThread /\ load \in Nat /\ after # "none"
      BY PoolServerAssumption DEF ServerInv, ServerTypeOK
    <3>2. /\ new \in SessionThread /\ new.load = session[s].load
          /\ new.at = "setLoad" /\ new.after = after
      BY Zenon, <3>1 DEF SessionThread, Place
    <3>3. session' = [session EXCEPT ![s] = new]
      BY Zenon, <2>2
    <3> HIDE DEF new
    <3>4. session'[s] = new /\ \A x \in Session \ {s} : session'[x] = session[x]
      BY <3>3 DEF ServerInv, ServerTypeOK
    <3> QED
      BY ZenonT(40), <3>1, <3>2, <3>3, <3>4 DEF Moved, ServerInv, ServerTypeOK, SessionsKept
  <2> QED
    BY Zenon, <2>1, <2>2 DEF Handler
<1>2. notified' \in BOOLEAN /\ notified' = notified /\ missed' \in BOOLEAN /\ missed' = missed
  BY DEF ServerInv, ServerTypeOK, mainThreadVars
<1>3. Writing => Writing'
  BY <1>1 DEF Moved, Writing
<1>4. UNCHANGED <<listVars, server, todo, announced>>
  BY DEF listVars, mainThreadVars
<1>5. (notified => notified') /\ (missed => missed') /\ (missed' => missed \/ notified')
  BY <1>2
<1> QED
  BY ZenonT(40), <1>1, <1>2, <1>3, <1>4, <1>5, SessionMoves DEF Moved

\* The load of one session changes: so does the sum.
LEMMA LoadUpdate ==
  ASSUME NEW s \in Session,
         \A x \in Session : LoadOf[x] \in Int /\ LoadOf'[x] \in Int,
         \A x \in Session \ {s} : LoadOf[x] = LoadOf'[x]
  PROVE  SumFunctionOnSet(LoadOf', Session)
           = SumFunctionOnSet(LoadOf, Session) - LoadOf[s] + LoadOf'[s]
<1>1. IsFiniteSet(Session)
  BY Zenon, PoolServerAssumption
<1> QED
  BY <1>1, SumUpdate

\* setLoad: the sum follows the load of the session.
LEMMA SetLoadKeeps ==
  ASSUME ServerInv, NEW s \in Session, SetLoad(s)
  PROVE  ServerInv'
<1> DEFINE sum     == loadSum - session[s].load + session[s].want
           changed == sum <= FullLoad /\ sum # loadSum
           new     == [session[s] EXCEPT
                         !.load  = IF sum <= FullLoad THEN session[s].want ELSE session[s].load,
                         !.want  = 0,
                         !.at    = IF changed THEN "write" ELSE session[s].after,
                         !.after = IF changed THEN session[s].after ELSE "none"]
<1>1. /\ session[s] \in SessionThread /\ session[s].at = "setLoad"
      /\ session[s].after \in {"loop", "finish", "finished"}
  BY DEF SetLoad, ServerInv, ServerTypeOK, SessionsKept
<1>2. loadSum \in Int /\ FullLoad \in Nat /\ sum \in Int
  BY <1>1, LoadSumType, PoolServerAssumption DEF ServerInv, SessionThread
<1>3. session' = [session EXCEPT ![s] = new]
  BY Zenon DEF SetLoad
<1>4. /\ loadSum' = IF sum <= FullLoad THEN sum ELSE loadSum
      /\ UNCHANGED <<threadList, threads, notified, mainThreadVars>>
  BY DEF SetLoad
<1>5. /\ new \in SessionThread /\ new.at # "none"
      /\ new.load = IF sum <= FullLoad THEN session[s].want ELSE session[s].load
      /\ new.at = IF changed THEN "write" ELSE session[s].after
      /\ new.after = IF changed THEN session[s].after ELSE "none"
  BY Zenon, <1>1 DEF SessionThread, Place
<1> HIDE DEF new, changed, sum
<1>6. session'[s] = new /\ \A x \in Session \ {s} : session'[x] = session[x]
  BY <1>3 DEF ServerInv, ServerTypeOK
<1>7. session' \in [Session -> SessionThread]
  BY Zenon, <1>3, <1>5 DEF ServerInv, ServerTypeOK
<1>8. SessionsKept'
  BY Zenon, <1>1, <1>5, <1>6 DEF ServerInv, SessionsKept
<1>9. ServerTypeOK'
  BY Zenon, <1>4, <1>7 DEF ServerInv, ServerTypeOK, mainThreadVars
<1>10. Active' = Active
  BY Zenon, <1>1, <1>5, <1>6 DEF Active
<1>11. ListKept'
  BY Zenon, <1>4, <1>10 DEF ServerInv, ListKept, ListOfThreads, mainThreadVars
<1>12. SumKept'
  <2>1. \A x \in Session : LoadOf[x] \in Int /\ LoadOf'[x] \in Int
    BY <1>7 DEF LoadOf, ServerInv, ServerTypeOK, SessionThread
  <2>2. \A x \in Session \ {s} : LoadOf[x] = LoadOf'[x]
    BY Zenon, <1>6 DEF LoadOf
  <2>3. SumFunctionOnSet(LoadOf', Session) = SumFunctionOnSet(LoadOf, Session) - LoadOf[s] + LoadOf'[s]
    BY Zenon, <2>1, <2>2, LoadUpdate
  <2>4. LoadOf[s] = session[s].load /\ LoadOf'[s] = new.load
    BY Zenon, <1>6 DEF LoadOf
  <2>5. session[s].load \in Int /\ session[s].want \in Int
    BY <1>1 DEF SessionThread
  <2>6. SumFunctionOnSet(LoadOf', Session) = loadSum'
    <3>1. loadSum = SumFunctionOnSet(LoadOf, Session)
      BY Zenon DEF ServerInv, SumKept
    <3>2. CASE sum <= FullLoad
      <4>1. loadSum' = sum /\ new.load = session[s].want
        BY ZenonT(40), <1>4, <1>5, <3>2
      <4> QED
        BY Zenon, <1>2, <2>3, <2>4, <2>5, <3>1, <4>1 DEF sum
    <3>3. CASE ~(sum <= FullLoad)
      <4>1. loadSum' = loadSum /\ new.load = session[s].load
        BY Zenon, <1>4, <1>5, <3>3
      <4> QED
        BY <1>2, <2>3, <2>4, <2>5, <3>1, <4>1
    <3> QED
      BY Zenon, <3>2, <3>3
  <2>7. loadSum' <= FullLoad
    BY Zenon, <1>2, <1>4 DEF ServerInv, SumKept
  <2> QED
    BY Zenon, <2>6, <2>7 DEF SumKept
<1>13. ChangeTold'
  <2>1. CASE changed
    <3>1. Writing'
      BY Zenon, <1>5, <1>6, <2>1 DEF Writing
    <3> QED
      BY Zenon, <1>4, <3>1 DEF ServerInv, ChangeTold, Told, ToldBeforeRead, mainThreadVars
  <2>2. CASE ~changed
    <3>1. loadSum' = loadSum
      BY Zenon, <1>4, <2>2 DEF changed
    <3>2. Writing => Writing'
      BY Zenon, <1>1, <1>6 DEF Writing
    <3>3. Near(announced, loadSum)' <=> Near(announced, loadSum)
      BY Zenon, <1>4, <3>1 DEF Near, mainThreadVars
    <3> QED
      BY Zenon, <1>4, <3>2, <3>3 DEF ServerInv, ChangeTold, Told, ToldBeforeRead, mainThreadVars
  <2> QED
    BY Zenon, <2>1, <2>2
<1> QED
  BY ZenonT(40), <1>8, <1>9, <1>11, <1>12, <1>13 DEF ServerInv

\* The steps of a session.
LEMMA SessionKeeps ==
  ASSUME ServerInv, NEW s \in Session, SessionStep(s)
  PROVE  ServerInv'
<1>1. CASE InitializeSession(s)
  BY Zenon, <1>1, HandlerMoves DEF InitializeSession
<1>2. CASE ReceiveEvent(s)
  BY ZenonT(40), <1>2, HandlerMoves DEF ReceiveEvent
<1>3. CASE LeaveLoop(s)
  <2>1. Moved(s)
    BY Zenon, <1>3, GoesMoves DEF LeaveLoop, Place
  <2>2. notified' \in BOOLEAN /\ notified' = notified /\ missed' \in BOOLEAN /\ missed' = missed
    BY Zenon, <1>3 DEF LeaveLoop, ServerInv, ServerTypeOK, mainThreadVars
  <2>3. Writing => Writing'
    BY Zenon, <1>3, <2>1 DEF LeaveLoop, Moved, Writing
  <2>4. UNCHANGED <<listVars, server, todo, announced>>
    BY Zenon, <1>3 DEF LeaveLoop, mainThreadVars
  <2>5. (notified => notified') /\ (missed => missed') /\ (missed' => missed \/ notified')
    BY Zenon, <2>2
  <2> QED
    BY ZenonT(40), <2>1, <2>2, <2>3, <2>4, <2>5, SessionMoves DEF Moved
<1>4. CASE FinishSession(s)
  BY Zenon, <1>4, HandlerMoves DEF FinishSession
<1>5. CASE SetLoad(s)
  BY Zenon, <1>5, SetLoadKeeps
<1>6. CASE WriteNotification(s)
  <2>1. session[s].after \in {"loop", "finish", "finished"} /\ session[s].at # "none"
    BY Zenon, <1>6 DEF WriteNotification, ServerInv, SessionsKept
  <2>2. Moved(s)
    BY Zenon, <1>6, <2>1, GoesMoves DEF WriteNotification, Place
  <2>3. missed' \in BOOLEAN /\ missed' = (missed \/ server = "clear") /\ notified' = TRUE
    BY Zenon, <1>6 DEF WriteNotification, ServerInv, ServerTypeOK
  <2> QED
    BY Zenon, <1>6, <2>2, <2>3, SessionMoves DEF WriteNotification, Moved
<1> QED
  BY ZenonT(40), <1>1, <1>2, <1>3, <1>4, <1>5, <1>6 DEF SessionStep

\* TCPLikeServerList::remove of a thread that has ended.
LEMMA RemoveSessionKeeps ==
  ASSUME ServerInv, NEW s \in Session, session[s].at = "finished", RemoveSession(s),
         announced' = announced, missed' = missed
  PROVE  /\ session' \in [Session -> SessionThread]
         /\ threadList' \in Seq(Session)
         /\ notified' \in BOOLEAN
         /\ SessionsKept' /\ ListOfThreads' /\ SumKept' /\ Told'
         /\ Active' = Active \ {s}
<1>1. session[s] \in SessionThread /\ NoSession \in SessionThread
  BY DEF ServerInv, ServerTypeOK, NoSession, SessionThread, Place
<1>2. NoSession.at = "none" /\ NoSession.load = 0
  BY Zenon DEF NoSession
<1>3. session' \in [Session -> SessionThread]
  BY ZenonT(40), <1>1 DEF RemoveSession, ServerInv, ServerTypeOK
<1>4. session'[s] = NoSession /\ \A x \in Session \ {s} : session'[x] = session[x]
  BY DEF RemoveSession, ServerInv, ServerTypeOK
<1>5. SessionsKept'
  BY Zenon, <1>2, <1>4 DEF ServerInv, SessionsKept
<1>6. Active' = Active \ {s} /\ s \in Active
  BY Zenon, <1>2, <1>4 DEF Active
<1>7. /\ threadList' \in Seq(Session)
      /\ Len(threadList') = Len(threadList) - 1
      /\ Distinct(threadList')
      /\ Range(threadList') = Active'
  <2>1. PICK i \in DOMAIN threadList : threadList[i] = s /\ threadList' = RemNode(threadList, i)
    BY Zenon DEF RemoveSession
  <2>2. /\ threadList \in Seq(Session) /\ Distinct(threadList)
        /\ Range(threadList) = Active
    BY Zenon DEF ServerInv, ServerTypeOK, ListKept, ListOfThreads
  <2> QED
    BY ZenonT(40), <1>6, <2>1, <2>2, ListRemove
<1>8. ListOfThreads'
  <2>1. IsFiniteSet(Active)
    BY Zenon, PoolServerAssumption, FS_Subset DEF Active
  <2>2. Cardinality(Active') = Cardinality(Active) - 1
    BY ZenonT(40), <1>6, <2>1, FS_RemoveElement
  <2> QED
    BY Zenon, <1>7, <2>2 DEF ServerInv, ListKept, ListOfThreads, RemoveSession
<1>9. loadSum \in Int /\ session[s].load \in Nat /\ FullLoad \in Nat
  BY Zenon, <1>1, LoadSumType, PoolServerAssumption DEF ServerInv, SessionThread
<1>10. SumKept'
  <2>1. \A x \in Session : LoadOf[x] \in Int /\ LoadOf'[x] \in Int
    BY <1>3 DEF LoadOf, ServerInv, ServerTypeOK, SessionThread
  <2>2. \A x \in Session \ {s} : LoadOf[x] = LoadOf'[x]
    BY Zenon, <1>4 DEF LoadOf
  <2>3. SumFunctionOnSet(LoadOf', Session) = SumFunctionOnSet(LoadOf, Session) - LoadOf[s] + LoadOf'[s]
    BY Zenon, <2>1, <2>2, LoadUpdate
  <2>4. LoadOf[s] = session[s].load /\ LoadOf'[s] = 0
    BY ZenonT(40), <1>2, <1>4 DEF LoadOf
  <2>5. SumFunctionOnSet(LoadOf', Session) = loadSum'
    <3>1. /\ loadSum = SumFunctionOnSet(LoadOf, Session)
          /\ loadSum' = loadSum - session[s].load
      BY Zenon DEF ServerInv, SumKept, RemoveSession
    <3> QED
      BY <1>9, <2>3, <2>4, <3>1
  <2>6. loadSum' <= FullLoad
    <3>1. loadSum <= FullLoad /\ loadSum' = loadSum - session[s].load
      BY Zenon DEF ServerInv, SumKept, RemoveSession
    <3> QED
      BY <1>9, <3>1
  <2> QED
    BY <2>5, <2>6 DEF SumKept
<1>11. notified' \in BOOLEAN
  BY DEF RemoveSession
<1>12. Told'
  <2>1. CASE session[s].load # 0
    BY ZenonT(40), <2>1 DEF RemoveSession, Told
  <2>2. CASE session[s].load = 0
    <3>1. loadSum' = loadSum
      BY <1>9, <2>2 DEF RemoveSession
    <3>2. Writing => Writing'
      BY Zenon, <1>4 DEF Writing
    <3>3. notified => notified'
      BY ZenonT(40) DEF RemoveSession
    <3>4. Near(announced, loadSum)' <=> Near(announced, loadSum)
      BY Zenon, <3>1 DEF Near
    <3> QED
      BY Zenon, <3>2, <3>3, <3>4 DEF ServerInv, ChangeTold, Told
  <2> QED
    BY Zenon, <2>1, <2>2
<1> QED
  BY ZenonT(40), <1>3, <1>5, <1>6, <1>7, <1>8, <1>10, <1>11, <1>12

\* A step of the main thread that leaves the sessions and the list alone, and
\* neither begins nor is in a walk through the list.
LEMMA MainThreadMoves ==
  ASSUME ServerInv,
         UNCHANGED <<session, listVars, todo>>,
         server' \notin {"removals", "join"},
         notified' \in BOOLEAN, missed' \in BOOLEAN,
         ChangeTold'
  PROVE  ServerInv'
<1> USE DEF listVars
<1>1. ServerTypeOK' /\ SessionsKept'
  BY DEF ServerInv, ServerTypeOK, SessionsKept
<1>2. Active' = Active /\ LoadOf' = LoadOf
  BY DEF Active, LoadOf
<1>3. ListKept' /\ SumKept'
  BY <1>2 DEF ServerInv, ListKept, ListOfThreads, SumKept
<1> QED
  BY Zenon, <1>1, <1>3 DEF ServerInv

\* A step that leaves the loads, the sessions and the pipe alone, and does not
\* get to the read of the pipe.
LEMMA ToldSame ==
  ASSUME ServerInv, UNCHANGED <<session, loadSum, notified, announced, missed>>,
         server' # "clear"
  PROVE  ChangeTold'
<1>1. Near(announced, loadSum)' <=> Near(announced, loadSum)
  BY Zenon DEF Near
<1>2. Writing' <=> Writing
  BY Zenon DEF Writing
<1> QED
  BY Zenon, <1>1, <1>2 DEF ServerInv, ChangeTold, Told, ToldBeforeRead

\* The wait in the main loop.
LEMMA PollEventsKeeps ==
  ASSUME ServerInv, PollEvents
  PROVE  ServerInv'
<1>1. CASE breakDetected
  <2>1. server' = "removeAll" /\ UNCHANGED <<session, listVars, notified, announced, missed, todo>>
    BY Zenon, <1>1 DEF PollEvents
  <2>2. ChangeTold'
    BY Zenon, <2>1, ToldSame DEF listVars
  <2> QED
    BY Zenon, <2>1, <2>2, MainThreadMoves DEF ServerInv, ServerTypeOK
<1>2. CASE ~breakDetected
  <2>1. server' = "removals" /\ todo' = threadList
        /\ UNCHANGED <<session, listVars, notified, announced, missed>>
    BY Zenon, <1>2 DEF PollEvents
  <2>2. Active' = Active /\ LoadOf' = LoadOf
    BY Zenon, <2>1 DEF Active, LoadOf
  <2>3. ServerTypeOK' /\ SessionsKept'
    BY Zenon, <2>1 DEF ServerInv, ServerTypeOK, SessionsKept, listVars
  <2>4. ListKept' /\ SumKept'
    BY ZenonT(40), <2>1, <2>2 DEF ServerInv, ListKept, ListOfThreads, SumKept, listVars
  <2>5. ChangeTold'
    BY Zenon, <2>1, ToldSame DEF listVars
  <2> QED
    BY ZenonT(40), <2>3, <2>4, <2>5 DEF ServerInv
<1> QED
  BY <1>1, <1>2

\* The walk of handleRemovalsAndTimers() through the list.
LEMMA HandleRemovalsKeeps ==
  ASSUME ServerInv, HandleRemovals
  PROVE  ServerInv'
<1> DEFINE s == Head(todo)
<1>1. /\ server = "removals" /\ todo # <<>> /\ todo' = Tail(todo)
      /\ UNCHANGED <<server, announced, missed>>
  BY DEF HandleRemovals
<1>2. /\ Tail(todo) \in Seq(Session)
      /\ Distinct(Tail(todo))
      /\ Range(Tail(todo)) \subseteq Range(todo) \ {s}
      /\ s \in Range(todo)
  BY Zenon, <1>1, ListTail DEF ServerInv, ServerTypeOK, ListKept
<1>3. Range(todo) \subseteq Active /\ s \in Session
  BY Zenon, <1>1, <1>2 DEF ServerInv, ListKept, Active
<1> HIDE DEF s
<1>4. CASE session[s].at = "finished"
  <2>1. RemoveSession(s)
    BY Zenon, <1>4 DEF HandleRemovals, s
  <2>2. /\ session' \in [Session -> SessionThread]
        /\ threadList' \in Seq(Session)
        /\ notified' \in BOOLEAN
        /\ SessionsKept' /\ ListOfThreads' /\ SumKept' /\ Told'
        /\ Active' = Active \ {s}
    BY ZenonT(40), <1>1, <1>3, <1>4, <2>1, RemoveSessionKeeps
  <2>3. ServerTypeOK'
    BY Zenon, <1>1, <1>2, <2>2 DEF ServerInv, ServerTypeOK
  <2>4. ListKept'
    BY ZenonT(40), <1>1, <1>2, <1>3, <2>2 DEF ListKept
  <2>5. ChangeTold'
    BY Zenon, <1>1, <2>2 DEF ServerInv, ChangeTold, ToldBeforeRead
  <2> QED
    BY ZenonT(40), <2>2, <2>3, <2>4, <2>5 DEF ServerInv
<1>5. CASE session[s].at # "finished"
  <2>1. UNCHANGED <<session, listVars, notified>>
    BY <1>5 DEF HandleRemovals, s
  <2>2. Active' = Active /\ LoadOf' = LoadOf
    BY Zenon, <2>1 DEF Active, LoadOf
  <2>3. ServerTypeOK' /\ SessionsKept'
    BY Zenon, <1>1, <1>2, <2>1 DEF ServerInv, ServerTypeOK, SessionsKept, listVars
  <2>4. ListKept' /\ SumKept'
    BY ZenonT(40), <1>1, <1>2, <1>3, <2>1, <2>2
       DEF ServerInv, ListKept, ListOfThreads, SumKept, listVars
  <2>5. ChangeTold'
    BY Zenon, <1>1, <2>1, ToldSame DEF listVars
  <2> QED
    BY <2>3, <2>4, <2>5 DEF ServerInv
<1> QED
  BY ZenonT(40), <1>4, <1>5

\* A new session has no load.
LEMMA AcceptSessionKeeps ==
  ASSUME ServerInv, AcceptSession
  PROVE  ServerInv'
<1>1. /\ server = "accept"
      /\ UNCHANGED <<loadSum, notified, todo, announced, missed>>
  BY Zenon DEF AcceptSession
<1>2. CASE UNCHANGED <<session, threadList, threads>> /\ server' \in {"aborted", "announce"}
  <2>1. ChangeTold'
    BY Zenon, <1>1, <1>2, ToldSame
  <2> QED
    BY Zenon, <1>1, <1>2, <2>1, MainThreadMoves DEF ServerInv, ServerTypeOK, listVars
<1> DEFINE s == CHOOSE x \in Session : session[x].at = "none"
<1>3. CASE /\ threads < Cardinality(Session)
           /\ session' = [session EXCEPT ![s].at = "initialize"]
           /\ threadList' = <<s>> \o threadList
           /\ threads' = threads + 1
           /\ server' = "announce"
  <2>1. \E x \in Session : session[x].at = "none"
    <3> SUFFICES ASSUME Active = Session PROVE FALSE
      BY DEF Active
    <3>1. Len(threadList) \in Nat
      BY DEF ServerInv, ServerTypeOK
    <3> QED
      BY <1>3, <3>1 DEF ServerInv, ListKept, ListOfThreads
  <2>2. s \in Session /\ session[s].at = "none"
    BY <2>1
  <2> HIDE DEF s
  <2> DEFINE new == [session[s] EXCEPT !.at = "initialize"]
  <2>3. session[s] \in SessionThread
    BY <2>2 DEF ServerInv, ServerTypeOK
  <2>4. new \in SessionThread /\ new.at = "initialize" /\ new.load = session[s].load
    BY <2>3 DEF SessionThread, Place
  <2>5. session' = [session EXCEPT ![s] = new]
    BY Zenon, <1>3
  <2> HIDE DEF new
  <2>6. /\ session' \in [Session -> SessionThread]
        /\ session'[s] = new /\ \A x \in Session \ {s} : session'[x] = session[x]
    BY ZenonT(40), <2>2, <2>4, <2>5 DEF ServerInv, ServerTypeOK
  <2>7. SessionsKept'
    BY Zenon, <2>4, <2>6 DEF ServerInv, SessionsKept
  <2>8. Active' = Active \cup {s} /\ s \notin Active
    BY Zenon, <2>2, <2>4, <2>6 DEF Active
  <2>9. LoadOf' = LoadOf
    BY Zenon, <2>4, <2>6 DEF LoadOf
  <2>10. /\ threadList' \in Seq(Session)
         /\ Len(threadList') = Len(threadList) + 1
         /\ Distinct(threadList')
         /\ Range(threadList') = Active'
    BY ZenonT(40), <1>3, <2>2, <2>8, ListPush DEF ServerInv, ServerTypeOK, ListKept, ListOfThreads
  <2>11. ListKept'
    <3>1. IsFiniteSet(Active)
      BY Zenon, PoolServerAssumption, FS_Subset DEF Active
    <3>2. Cardinality(Active') = Cardinality(Active) + 1
      BY ZenonT(40), <2>8, <3>1, FS_AddElement
    <3> QED
      BY Zenon, <1>3, <2>10, <3>2 DEF ServerInv, ListKept, ListOfThreads
  <2>12. ServerTypeOK'
    BY ZenonT(40), <1>1, <2>6, <2>10 DEF ServerInv, ServerTypeOK
  <2>13. SumKept'
    BY ZenonT(40), <1>1, <2>9 DEF ServerInv, SumKept
  <2>14. ChangeTold'
    <3>1. Writing => Writing'
      BY ZenonT(40), <2>2, <2>6 DEF Writing
    <3>2. Near(announced, loadSum)' <=> Near(announced, loadSum)
      BY Zenon, <1>1 DEF Near
    <3> QED
      BY ZenonT(40), <1>1, <1>3, <3>1, <3>2 DEF ServerInv, ChangeTold, Told, ToldBeforeRead
  <2> QED
    BY ZenonT(40), <2>7, <2>11, <2>12, <2>13, <2>14 DEF ServerInv
<1> QED
  BY Zenon, <1>2, <1>3 DEF AcceptSession

\* After the look, the load that is registered is less than 1% off the sum,
\* also without any thread.
LEMMA AnnounceLoadKeeps ==
  ASSUME ServerInv, AnnounceLoad
  PROVE  ServerInv'
<1> DEFINE newLoad == IF threads > 0 THEN loadSum ELSE 0
<1>1. /\ announced' = (IF Near(newLoad, announced) THEN announced ELSE newLoad)
      /\ missed' = FALSE /\ server' = "clear"
      /\ UNCHANGED <<session, listVars, notified, todo>>
  BY Zenon DEF AnnounceLoad
<1>2. newLoad = loadSum
  <2>1. CASE threads > 0
    BY <2>1
  <2>2. CASE ~(threads > 0)
    <3>1. threadList = <<>>
      <4>1. Len(threadList) \in Nat /\ threads = Len(threadList)
        BY DEF ServerInv, ServerTypeOK, ListKept, ListOfThreads
      <4>2. Len(threadList) = 0
        BY <2>2, <4>1
      <4> QED
        BY <4>2 DEF ServerInv, ServerTypeOK
    <3>2. Active = {}
      BY <3>1 DEF ServerInv, ListKept, ListOfThreads, Range
    <3>3. \A s \in Session : LoadOf[s] = 0
      BY Zenon, <3>2 DEF LoadOf, Active, ServerInv, SessionsKept
    <3>4. loadSum = 0
      BY Zenon, <3>3, SumZero, PoolServerAssumption DEF ServerInv, SumKept
    <3> QED
      BY <2>2, <3>4
  <2> QED
    BY <2>1, <2>2
<1> HIDE DEF newLoad
<1>3. loadSum \in Int /\ announced \in Int /\ loadSum' = loadSum
  BY Zenon, <1>1, LoadSumType DEF ServerInv, ChangeTold, listVars
<1>4. announced' \in Int /\ Near(announced', loadSum)
  <2>1. CASE Near(loadSum, announced)
    <3>1. announced' = announced
      BY Zenon, <1>1, <1>2, <2>1
    <3> QED
      BY <1>3, <2>1, <3>1 DEF Near
  <2>2. CASE ~Near(loadSum, announced)
    <3>1. announced' = loadSum
      BY Zenon, <1>1, <1>2, <2>2
    <3> QED
      BY <1>3, <3>1, PoolServerAssumption DEF Near
  <2> QED
    BY Zenon, <2>1, <2>2
<1>5. ChangeTold'
  BY Zenon, <1>1, <1>3, <1>4 DEF ChangeTold, Told, ToldBeforeRead
<1>6. notified' \in BOOLEAN /\ missed' \in BOOLEAN
  BY Zenon, <1>1 DEF ServerInv, ServerTypeOK
<1> QED
  BY ZenonT(40), <1>1, <1>5, <1>6, MainThreadMoves

\* A change that the read of the pipe hides is one whose notification came after
\* the look at the load.
LEMMA ClearPipeKeeps ==
  ASSUME ServerInv, ClearPipe
  PROVE  ServerInv'
<1>1. /\ server = "clear" /\ server' = "auto-stop"
      /\ notified' = (notified /\ "pipe" \notin polled)
      /\ missed' = (missed /\ "pipe" \in polled)
      /\ UNCHANGED <<session, listVars, todo, announced>>
  BY Zenon DEF ClearPipe
<1>2. /\ Near(announced, loadSum) \/ missed \/ Writing
      /\ missed => notified
  BY Zenon, <1>1 DEF ServerInv, ChangeTold, ToldBeforeRead
<1>3. (Near(announced, loadSum)' <=> Near(announced, loadSum)) /\ (Writing' <=> Writing)
  BY Zenon, <1>1 DEF Near, Writing, listVars
<1>4. Told'
  BY Zenon, <1>1, <1>2, <1>3 DEF Told
<1>5. ChangeTold'
  BY Zenon, <1>1, <1>4 DEF ServerInv, ChangeTold, ToldBeforeRead
<1>6. notified' \in BOOLEAN /\ missed' \in BOOLEAN
  BY Zenon, <1>1
<1> QED
  BY ZenonT(40), <1>1, <1>5, <1>6, MainThreadMoves

\* removeAll() tells the first thread of the list to shut down.
LEMMA ShutdownFirstKeeps ==
  ASSUME ServerInv, ShutdownFirst
  PROVE  ServerInv'
<1>1. server = "removeAll" /\ UNCHANGED <<listVars, notified, todo, announced, missed>>
  BY DEF ShutdownFirst
<1>2. CASE threadList = <<>>
  <2>1. server' = "done" /\ session' = session
    BY Zenon, <1>2 DEF ShutdownFirst
  <2>2. ChangeTold'
    BY Zenon, <1>1, <2>1, ToldSame DEF listVars
  <2> QED
    BY Zenon, <1>1, <2>1, <2>2, MainThreadMoves DEF ServerInv, ServerTypeOK
<1>3. CASE threadList # <<>>
  <2> DEFINE s == threadList[1]
  <2>1. s \in Session
    BY <1>3 DEF ServerInv, ServerTypeOK
  <2>2. session' = [session EXCEPT ![s].shutdown = TRUE] /\ server' = "join"
    BY <1>3 DEF ShutdownFirst
  <2> HIDE DEF s
  <2> DEFINE new == [session[s] EXCEPT !.shutdown = TRUE]
  <2>3. session[s] \in SessionThread
    BY <2>1 DEF ServerInv, ServerTypeOK
  <2>4. /\ new \in SessionThread /\ new.at = session[s].at /\ new.load = session[s].load
        /\ new.after = session[s].after
    BY Zenon, <2>3 DEF SessionThread
  <2>5. session' = [session EXCEPT ![s] = new]
    BY <2>2
  <2> HIDE DEF new
  <2>6. /\ session' \in [Session -> SessionThread]
        /\ \A x \in Session : /\ session'[x].at = session[x].at
                              /\ session'[x].load = session[x].load
                              /\ session'[x].after = session[x].after
    BY <2>1, <2>4, <2>5 DEF ServerInv, ServerTypeOK
  <2>7. Active' = Active /\ LoadOf' = LoadOf
    BY <2>6 DEF Active, LoadOf
  <2>8. SessionsKept' /\ ServerTypeOK'
    BY Zenon, <1>1, <2>6 DEF ServerInv, SessionsKept, ServerTypeOK, listVars
  <2>9. ListKept' /\ SumKept'
    BY ZenonT(40), <1>1, <1>3, <2>2, <2>7 DEF ServerInv, ListKept, ListOfThreads, SumKept, listVars
  <2>10. ChangeTold'
    <3>1. Writing' <=> Writing
      BY Zenon, <2>6 DEF Writing
    <3>2. Near(announced, loadSum)' <=> Near(announced, loadSum)
      BY Zenon, <1>1 DEF Near, listVars
    <3> QED
      BY ZenonT(40), <1>1, <2>2, <3>1, <3>2 DEF ServerInv, ChangeTold, Told, ToldBeforeRead
  <2> QED
    BY ZenonT(40), <2>8, <2>9, <2>10 DEF ServerInv
<1> QED
  BY Zenon, <1>2, <1>3

\* removeAll() waits for a thread that is in the list.
LEMMA JoinFirstKeeps ==
  ASSUME ServerInv, JoinFirst
  PROVE  ServerInv'
<1> DEFINE s == threadList[1]
<1>1. /\ server = "join" /\ server' = "removeAll" /\ session[s].at = "finished"
      /\ RemoveSession(s) /\ UNCHANGED <<todo, announced, missed>>
  BY Zenon DEF JoinFirst
<1>2. s \in Session
  BY <1>1 DEF ServerInv, ServerTypeOK, ListKept
<1> HIDE DEF s
<1>3. /\ session' \in [Session -> SessionThread]
      /\ threadList' \in Seq(Session)
      /\ notified' \in BOOLEAN
      /\ SessionsKept' /\ ListOfThreads' /\ SumKept' /\ Told'
  BY Zenon, <1>1, <1>2, RemoveSessionKeeps
<1>4. ServerTypeOK' /\ ListKept' /\ ChangeTold'
  BY Zenon, <1>1, <1>3 DEF ServerInv, ServerTypeOK, ListKept, ChangeTold, ToldBeforeRead
<1> QED
  BY ZenonT(40), <1>3, <1>4 DEF ServerInv

\* Every step of the sessions and of the main thread keeps the invariant.
LEMMA ServerStepKeeps ==
  ServerInv /\ [ServerNext]_serverVars => ServerInv'
<1> SUFFICES ASSUME ServerInv, [ServerNext]_serverVars PROVE ServerInv'
  OBVIOUS
<1>1. CASE ServerStep
  <2>1. CASE RemovalsDone
    <3>1. ChangeTold'
      BY Zenon, <2>1, ToldSame DEF RemovalsDone, listVars
    <3> QED
      BY ZenonT(40), <2>1, <3>1, MainThreadMoves DEF RemovalsDone, ServerInv, ServerTypeOK
  <2>2. CASE AutoStop
    <3>1. ChangeTold'
      BY Zenon, <2>2, ToldSame DEF AutoStop, listVars
    <3> QED
      BY Zenon, <2>2, <3>1, MainThreadMoves DEF AutoStop, ServerInv, ServerTypeOK
  <2> QED
    BY ZenonT(40), <1>1, <2>1, <2>2, PollEventsKeeps, HandleRemovalsKeeps, AcceptSessionKeeps,
       AnnounceLoadKeeps, ClearPipeKeeps, ShutdownFirstKeeps, JoinFirstKeeps
       DEF ServerStep
<1>2. CASE \E s \in Session : SessionStep(s)
  BY Zenon, <1>2, SessionKeeps
<1>3. CASE BreakSignal \/ UNCHANGED serverVars
  <2>1. UNCHANGED <<session, listVars, notified, mainThreadVars>>
    BY Zenon, <1>3 DEF BreakSignal, serverVars
  <2>2. Active' = Active /\ LoadOf' = LoadOf
    BY Zenon, <2>1 DEF Active, LoadOf
  <2>3. ServerTypeOK' /\ SessionsKept'
    BY Zenon, <2>1 DEF ServerInv, ServerTypeOK, SessionsKept, listVars, mainThreadVars
  <2>4. ListKept' /\ SumKept'
    BY ZenonT(40), <2>1, <2>2 DEF ServerInv, ListKept, ListOfThreads, SumKept, listVars, mainThreadVars
  <2>5. ChangeTold'
    <3>1. Near(announced, loadSum)' <=> Near(announced, loadSum)
      BY Zenon, <2>1 DEF Near, listVars, mainThreadVars
    <3>2. Writing' <=> Writing
      BY Zenon, <2>1 DEF Writing
    <3> QED
      BY Zenon, <2>1, <3>1, <3>2
         DEF ServerInv, ChangeTold, Told, ToldBeforeRead, mainThreadVars
  <2> QED
    BY Zenon, <2>3, <2>4, <2>5 DEF ServerInv
<1> QED
  BY ZenonT(40), <1>1, <1>2, <1>3 DEF ServerNext

-----------------------------------------------------------------------------
\* Whatever the sessions set, in whatever order they end and are removed, the
\* list and its counters agree, and a load that is not announced is going to be.
THEOREM ServerInvariant == ServerSpec => []ServerInv
  BY ServerInitially, ServerStepKeeps, PTL DEF ServerSpec

\* The list has every thread once, its length is the counter, and the sum of the
\* loads that setLoad() and remove() update is the sum over the sessions and
\* within the limit.
THEOREM LoadAccountedAlways == ServerSpec => []LoadAccounted
<1>1. ServerInv => LoadAccounted
  BY DEF ServerInv, ListKept, ListOfThreads, SumKept, Active, LoadOf, LoadAccounted
<1> QED
  BY <1>1, ServerInvariant, PTL

\* A main thread that sleeps with nothing to wake it has announced a load that
\* is less than 1% off, unless a notification came between getTotalLoad() and
\* ext_read().
THEOREM LoadChangesToldAlways == ServerSpec => []LoadChangesTold
<1>1. ServerInv => LoadChangesTold
  BY Zenon DEF ServerInv, ChangeTold, Told, Writing, LoadChangesTold
<1> QED
  BY <1>1, ServerInvariant, PTL
=============================================================================
