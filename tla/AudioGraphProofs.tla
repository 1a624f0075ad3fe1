-------------------------- MODULE AudioGraphProofs --------------------------
(***************************************************************************)
(* Proofs about AudioGraph, for every bound on nodes and edges and every   *)
(* history of operations.                                                  *)
(*                                                                         *)
(* The algorithms come first, each for any finite graph:                   *)
(*   has_cycle          depth first; it finds a cycle if and only if there *)
(*                      is one (CycleFound)                                *)
(*   compute_topological_order  Kahn; every order names each node once and *)
(*                      after its predecessors, and without a cycle there  *)
(*                      is one (OrdersComputed)                            *)
(*   process_graph      with such an order, every node takes its turn      *)
(*                      after its predecessors, so the device gets the     *)
(*                      solution of the graph's equations (BlockIsSignal)  *)
(* Then the inductive invariant GraphInv, operation by operation.  Then    *)
(* the serial chain: it has one order only, the path, and insert_in_chain  *)
(* widens that path by a node.                                             *)
(*                                                                         *)
(* What the loops do is shown along their steps; where an induction is     *)
(* needed, it is by the first step at which the claim would fail           *)
(* (Smallest).                                                             *)
(***************************************************************************)
EXTENDS AudioGraph, FiniteSetTheorems, SequenceTheorems, WellFoundedInduction, TLAPS

-----------------------------------------------------------------------------
(* Induction: a set of numbers has a first *)

\* What would fail somewhere fails somewhere first.
LEMMA Smallest ==
  ASSUME NEW T \in SUBSET Nat, T # {}
  PROVE  \E x \in T : \A y \in T : x <= y
<1>1. PICK x \in T : \A y \in T : ~(<<y, x>> \in OpToRel(<, Nat))
  BY NatLessThanWellFounded, WFMin
<1>2. ASSUME NEW y \in T PROVE x <= y
  <2>1. ~(<<y, x>> \in {ss \in Nat \X Nat : ss[1] < ss[2]})
    BY <1>1 DEF OpToRel
  <2>2. <<y, x>> \in Nat \X Nat
    OBVIOUS
  <2>3. ~(y < x)
    BY <2>1, <2>2
  <2> QED
    BY <2>3
<1> QED
  BY <1>2

-----------------------------------------------------------------------------
(* Sequences and sets *)

\* The last element is put on.
LEMMA Pushed ==
  ASSUME NEW S, NEW p \in Seq(S), NEW n \in S, NEW q, q = Append(p, n)
  PROVE  /\ q \in Seq(S) /\ Len(p) \in Nat /\ Len(q) = Len(p) + 1
         /\ \A i \in 1..Len(p) : q[i] = p[i]
         /\ q[Len(p) + 1] = n
OBVIOUS

\* The last element is taken off.
LEMMA Returned ==
  ASSUME NEW S, NEW p \in Seq(S), p # <<>>, NEW q, q = Front(p)
  PROVE  /\ q \in Seq(S) /\ Len(p) \in Nat \ {0} /\ Len(q) = Len(p) - 1
         /\ \A i \in 1..(Len(p) - 1) : q[i] = p[i]
<1>1. Len(p) \in Nat \ {0}
  OBVIOUS
<1>2. Len(p) - 1 \in 0..Len(p)
  BY <1>1
<1>3. q = SubSeq(p, 1, Len(p) - 1)
  BY DEF Front
<1>4. /\ q \in Seq(S) /\ Len(q) = Len(p) - 1
      /\ \A i \in 1..(Len(p) - 1) : q[i] = p[i]
  <2>1. PICK l \in Int : l = Len(p) - 1
    BY <1>1
  <2>2. 1 \in Int /\ \A i \in 1..l : p[i] \in S
    BY <1>1, <2>1, ElementOfSeq
  <2>3. /\ SubSeq(p, 1, l) \in Seq(S)
        /\ Len(SubSeq(p, 1, l)) = IF 1 <= l THEN l - 1 + 1 ELSE 0
        /\ \A i \in 1..(l - 1 + 1) : SubSeq(p, 1, l)[i] = p[1 + i - 1]
    BY <2>1, <2>2, SubSeqProperties
  <2> QED
    BY <1>1, <1>3, <2>1, <2>3
<1> QED
  BY <1>1, <1>4

\* What is in a sequence is at a place in it.
LEMMA InToSet ==
  ASSUME NEW S, NEW p \in Seq(S)
  PROVE  /\ \A x : x \in ToSet(p) <=> \E i \in 1..Len(p) : x = p[i]
         /\ ToSet(p) \subseteq S
  BY DEF ToSet

\* A set of natural numbers below a bound is finite.
LEMMA IdsFinite ==
  ASSUME NEW n \in Nat, NEW ids \in SUBSET (0..n)
  PROVE  IsFiniteSet(ids) /\ Cardinality(ids) \in Nat
<1>1. IsFiniteSet(0..n)
  BY FS_Interval
<1> QED
  BY <1>1, FS_Subset, FS_CardinalityType

\* No element comes twice.
Distinct(p) == \A i, j \in 1..Len(p) : p[i] = p[j] => i = j

\* Without its first element a sequence of distinct ones has the others.
LEMMA DistinctTail ==
  ASSUME NEW S, NEW p \in Seq(S), p # <<>>, Distinct(p), NEW q, q = Tail(p), NEW n, n = Head(p)
  PROVE  /\ q \in Seq(S) /\ Distinct(q) /\ n \in S /\ n \in ToSet(p) /\ n \notin ToSet(q)
         /\ \A x : x \in ToSet(p) <=> x = n \/ x \in ToSet(q)
<1>1. /\ Len(p) \in Nat \ {0} /\ n \in S /\ n = p[1]
      /\ q \in Seq(S) /\ Len(q) = Len(p) - 1
      /\ \A i \in 1..Len(q) : q[i] = p[i + 1]
  BY HeadTailProperties
<1>2. PICK l \in Nat : l = Len(q) /\ Len(p) = l + 1
  <2>1. Len(p) - 1 \in Nat /\ Len(p) = (Len(p) - 1) + 1
    BY <1>1
  <2>2. Len(p) - 1 = Len(q)
    BY <1>1
  <2> QED
    BY <2>1, <2>2
<1>3. \A x : x \in ToSet(p) <=> \E i \in 1..Len(p) : x = p[i]
  BY InToSet
<1>4. \A x : x \in ToSet(q) <=> \E i \in 1..Len(q) : x = q[i]
  <2>1. q \in Seq(S)
    BY <1>1
  <2> QED
    BY <2>1, InToSet
<1>5. n \in ToSet(p)
  <2>1. 1 \in 1..Len(p)
    BY <1>2
  <2> QED
    BY <1>1, <1>3, <2>1
<1>6. n \notin ToSet(q)
  <2>1. SUFFICES ASSUME NEW i \in 1..Len(q), n = q[i] PROVE FALSE
    BY <1>4
  <2>2. 1 \in 1..Len(p) /\ i + 1 \in 1..Len(p) /\ 1 # i + 1 /\ p[1] = p[i + 1]
    BY <1>1, <1>2, <2>1
  <2> QED
    BY <2>2 DEF Distinct
<1>7. Distinct(q)
  <2> SUFFICES ASSUME NEW i \in 1..Len(q), NEW j \in 1..Len(q), q[i] = q[j] PROVE i = j
    BY DEF Distinct
  <2>1. i + 1 \in 1..Len(p) /\ j + 1 \in 1..Len(p) /\ p[i + 1] = p[j + 1]
    BY <1>1, <1>2
  <2>2. i + 1 = j + 1
    BY <2>1 DEF Distinct
  <2> QED
    BY <2>2
<1>8. ASSUME NEW x \in ToSet(p), x # n PROVE x \in ToSet(q)
  <2>1. PICK i \in 1..Len(p) : x = p[i]
    BY <1>3
  <2>2. i - 1 \in 1..Len(q) /\ (i - 1) + 1 = i
    BY <1>1, <1>2, <1>8, <2>1
  <2>3. x = q[i - 1]
    BY <1>1, <2>1, <2>2
  <2> QED
    BY <1>4, <2>2, <2>3
<1>9. ASSUME NEW x \in ToSet(q) PROVE x \in ToSet(p)
  <2>1. PICK i \in 1..Len(q) : x = q[i]
    BY <1>4
  <2>2. i + 1 \in 1..Len(p) /\ x = p[i + 1]
    BY <1>1, <1>2, <2>1
  <2> QED
    BY <1>3, <2>2
<1> QED
  BY <1>1, <1>5, <1>6, <1>7, <1>8, <1>9

\* Two sequences of distinct elements that share none, one after the other.
LEMMA DistinctConcat ==
  ASSUME NEW S, NEW p \in Seq(S), NEW q \in Seq(S), Distinct(p), Distinct(q),
         \A x : ~(x \in ToSet(p) /\ x \in ToSet(q)), NEW r, r = p \o q
  PROVE  /\ r \in Seq(S) /\ Distinct(r)
         /\ \A x : x \in ToSet(r) <=> x \in ToSet(p) \/ x \in ToSet(q)
<1>1. /\ r \in Seq(S) /\ Len(r) = Len(p) + Len(q)
      /\ \A i \in 1..Len(p) + Len(q) : r[i] = IF i <= Len(p) THEN p[i] ELSE q[i - Len(p)]
  BY ConcatProperties
<1>2. PICK l, m \in Nat : l = Len(p) /\ m = Len(q) /\ Len(r) = l + m
  BY <1>1
<1>3. /\ \A x : x \in ToSet(p) <=> \E i \in 1..l : x = p[i]
      /\ \A x : x \in ToSet(q) <=> \E i \in 1..m : x = q[i]
      /\ \A x : x \in ToSet(r) <=> \E i \in 1..(l + m) : x = r[i]
  <2>1. PICK t \in Seq(S) : t = r
    BY <1>1
  <2>2. \A x : x \in ToSet(r) <=> \E i \in 1..Len(r) : x = r[i]
    <3>1. \A x : x \in ToSet(t) <=> \E i \in 1..Len(t) : x = t[i]
      BY InToSet
    <3> QED
      BY <2>1, <3>1, Zenon
  <2>3. /\ \A x : x \in ToSet(p) <=> \E i \in 1..Len(p) : x = p[i]
        /\ \A x : x \in ToSet(q) <=> \E i \in 1..Len(q) : x = q[i]
    BY InToSet
  <2> QED
    BY <1>2, <2>2, <2>3
<1>4. \A i \in 1..l : r[i] = p[i] /\ p[i] \in ToSet(p)
  BY <1>1, <1>2, <1>3
<1>5. \A i \in (l + 1)..(l + m) : r[i] = q[i - l] /\ i - l \in 1..m /\ q[i - l] \in ToSet(q)
  <2>1. \A i \in (l + 1)..(l + m) : i \in 1..(l + m) /\ ~(i <= l) /\ i - l \in 1..m
    BY <1>2
  <2> QED
    BY <1>1, <1>2, <1>3, <2>1
<1>6. \A i \in 1..(l + m) : i \in 1..l \/ i \in (l + 1)..(l + m)
  BY <1>2
<1>7. Distinct(r)
  <2> SUFFICES ASSUME NEW i \in 1..(l + m), NEW j \in 1..(l + m), r[i] = r[j] PROVE i = j
    BY <1>2 DEF Distinct
  <2>1. CASE i \in 1..l /\ j \in 1..l
    BY <1>2, <1>4, <2>1 DEF Distinct
  <2>2. CASE i \in (l + 1)..(l + m) /\ j \in (l + 1)..(l + m)
    <3>1. i - l \in 1..m /\ j - l \in 1..m /\ q[i - l] = q[j - l]
      BY <1>5, <2>2
    <3>2. i - l = j - l
      BY <1>2, <3>1 DEF Distinct
    <3> QED
      BY <1>2, <3>2
  <2>3. CASE i \in 1..l /\ j \in (l + 1)..(l + m)
    BY <1>4, <1>5, <2>3
  <2>4. CASE i \in (l + 1)..(l + m) /\ j \in 1..l
    BY <1>4, <1>5, <2>4
  <2> QED
    BY <1>6, <2>1, <2>2, <2>3, <2>4
<1>8. ASSUME NEW x \in ToSet(r) PROVE x \in ToSet(p) \/ x \in ToSet(q)
  <2>1. PICK i \in 1..(l + m) : x = r[i]
    BY <1>3
  <2>2. CASE i \in 1..l
    BY <1>4, <2>1, <2>2
  <2>3. CASE i \in (l + 1)..(l + m)
    BY <1>5, <2>1, <2>3
  <2> QED
    BY <1>6, <2>2, <2>3
<1>9. ASSUME NEW x \in ToSet(p) PROVE x \in ToSet(r)
  <2>1. PICK i \in 1..l : x = p[i]
    BY <1>3
  <2>2. i \in 1..(l + m) /\ x = r[i]
    BY <1>2, <1>4, <2>1
  <2> QED
    BY <1>3, <2>2
<1>10. ASSUME NEW x \in ToSet(q) PROVE x \in ToSet(r)
  <2>1. PICK i \in 1..m : x = q[i]
    BY <1>3
  <2>2. i + l \in (l + 1)..(l + m) /\ i + l \in 1..(l + m) /\ (i + l) - l = i
    BY <1>2, <2>1
  <2>3. x = r[i + l]
    BY <1>5, <2>1, <2>2
  <2> QED
    BY <1>3, <2>2, <2>3
<1> QED
  BY <1>1, <1>7, <1>8, <1>9, <1>10

\* One element more.
LEMMA DistinctAppend ==
  ASSUME NEW S, NEW p \in Seq(S), Distinct(p), NEW n \in S, n \notin ToSet(p),
         NEW r, r = Append(p, n)
  PROVE  /\ r \in Seq(S) /\ Distinct(r)
         /\ \A x : x \in ToSet(r) <=> x \in ToSet(p) \/ x = n
<1> DEFINE q == <<n>>
<1>1. q \in Seq(S) /\ Len(q) = 1 /\ q[1] = n
  OBVIOUS
<1>2. \A i \in 1..1 : i = 1
  OBVIOUS
<1>3. r = p \o q
  OBVIOUS
<1>4. ToSet(q) = {n}
  <2>1. \A x : x \in ToSet(q) <=> \E i \in 1..Len(q) : x = q[i]
    <3> HIDE DEF q
    <3> QED
      BY <1>1, InToSet
  <2>2. 1 \in 1..1
    OBVIOUS
  <2> HIDE DEF q
  <2> QED
    BY <1>1, <1>2, <2>1, <2>2
<1> HIDE DEF q
<1>5. Distinct(q)
  BY <1>1, <1>2 DEF Distinct
<1>6. \A x : ~(x \in ToSet(p) /\ x \in ToSet(q))
  BY <1>4
<1>7. /\ r \in Seq(S) /\ Distinct(r)
      /\ \A x : x \in ToSet(r) <=> x \in ToSet(p) \/ x \in ToSet(q)
  BY <1>1, <1>3, <1>5, <1>6, DistinctConcat, Zenon
<1> QED
  BY <1>4, <1>7

\* There are as many elements as places.
LEMMA DistinctCount ==
  ASSUME NEW S, NEW p \in Seq(S), Distinct(p)
  PROVE  IsFiniteSet(ToSet(p)) /\ Cardinality(ToSet(p)) = Len(p)
<1>1. \A x : x \in ToSet(p) <=> \E i \in 1..Len(p) : x = p[i]
  BY InToSet
<1>2. Len(p) \in Nat /\ p = [i \in 1..Len(p) |-> p[i]]
  OBVIOUS
<1>3. p \in [1..Len(p) -> ToSet(p)] /\ DOMAIN p = 1..Len(p)
  BY <1>1, <1>2
<1>4. p \in Injection(1..Len(p), ToSet(p))
  BY <1>3 DEF Distinct, Injection, IsInjective
<1>5. p \in Surjection(1..Len(p), ToSet(p))
  BY <1>1, <1>3 DEF Surjection
<1>6. ExistsBijection(1..Len(p), ToSet(p))
  BY <1>4, <1>5 DEF ExistsBijection, Bijection
<1>7. IsFiniteSet(1..Len(p)) /\ Cardinality(1..Len(p)) = Len(p)
  <2>1. /\ IsFiniteSet(1..Len(p))
        /\ Cardinality(1..Len(p)) = IF 1 > Len(p) THEN 0 ELSE Len(p) - 1 + 1
    <3>1. 1 \in Int /\ Len(p) \in Int
      BY <1>2
    <3> QED
      BY <3>1, FS_Interval, Zenon
  <2> QED
    BY <1>2, <2>1
<1> QED
  BY <1>6, <1>7, FS_Bijection

\* SetToSeqs lists the elements of a set, each once.
LEMMA Listed ==
  ASSUME NEW S, IsFiniteSet(S), NEW s \in SetToSeqs(S)
  PROVE  s \in Seq(S) /\ Distinct(s) /\ ToSet(s) = S
<1>1. Cardinality(S) \in Nat
  BY FS_CardinalityType
<1>2. /\ s \in [1..Cardinality(S) -> S]
      /\ \A i, j \in 1..Cardinality(S) : i # j => s[i] # s[j]
  BY DEF SetToSeqs
<1>3. s \in Seq(S) /\ Len(s) = Cardinality(S)
  BY <1>1, <1>2
<1>4. Distinct(s)
  BY <1>2, <1>3 DEF Distinct
<1>5. ToSet(s) \subseteq S /\ IsFiniteSet(ToSet(s)) /\ Cardinality(ToSet(s)) = Cardinality(S)
  BY <1>3, <1>4, InToSet, DistinctCount
<1>6. ToSet(s) = S
  BY <1>5, FS_Subset
<1> QED
  BY <1>3, <1>4, <1>6

\* A finite set can be listed.
LEMMA ListExists ==
  ASSUME NEW S, IsFiniteSet(S)
  PROVE  SetToSeqs(S) # {}
<1>1. ExistsBijection(1..Cardinality(S), S)
  BY FS_CardinalityType
<1>2. PICK f : f \in [1..Cardinality(S) -> S] /\ IsInjective(f)
  BY <1>1 DEF ExistsBijection, Bijection, Injection
<1>3. \A i, j \in 1..Cardinality(S) : i # j => f[i] # f[j]
  BY <1>2 DEF IsInjective
<1> QED
  BY <1>2, <1>3 DEF SetToSeqs

\* Each element once, and all of them.
LEMMA DistinctFull ==
  ASSUME NEW S, IsFiniteSet(S), NEW p \in Seq(S), Distinct(p), Len(p) = Cardinality(S)
  PROVE  ToSet(p) = S
<1>1. ToSet(p) \subseteq S /\ IsFiniteSet(ToSet(p)) /\ Cardinality(ToSet(p)) = Cardinality(S)
  BY InToSet, DistinctCount
<1> QED
  BY <1>1, FS_Subset
-----------------------------------------------------------------------------
(* The search for a cycle *)

SearchStart == [cycle |-> FALSE, visited |-> {}, path |-> <<>>]
IsSearch(f, m, ids, graph) ==
  f = [k \in 0..m |-> IF k = 0 THEN SearchStart ELSE Searched(f[k - 1], ids, graph)]

\* The function that has_cycle is defined with is there.
LEMMA SearchExists ==
  ASSUME NEW ids, NEW graph
  PROVE  \A m \in Nat : \E f : IsSearch(f, m, ids, graph)
<1> DEFINE T == {m \in Nat : ~\E f : IsSearch(f, m, ids, graph)}
<1>1. SUFFICES ASSUME T # {} PROVE FALSE
  OBVIOUS
<1>2. PICK m \in T : \A y \in T : m <= y
  <2>1. T \in SUBSET Nat
    OBVIOUS
  <2> HIDE DEF T
  <2> QED
    BY <1>1, <2>1, Smallest
<1>3. m \in Nat /\ ~\E f : IsSearch(f, m, ids, graph)
  OBVIOUS
<1>4. CASE m = 0
  <2> DEFINE f == [k \in 0..0 |-> SearchStart]
  <2>1. IsSearch(f, 0, ids, graph)
    BY DEF IsSearch
  <2> QED
    BY <1>3, <1>4, <2>1
<1>5. CASE m # 0
  <2>1. m - 1 \in Nat /\ m - 1 \notin T
    <3>1. m - 1 \in Nat /\ ~(m <= m - 1)
      BY <1>3, <1>5
    <3> HIDE DEF T
    <3> QED
      BY <1>2, <3>1
  <2>2. PICK g : IsSearch(g, m - 1, ids, graph)
    BY <2>1
  <2> DEFINE f == [k \in 0..m |-> IF k = m THEN Searched(g[m - 1], ids, graph) ELSE g[k]]
  <2>3. \A k \in 0..m : f[k] = IF k = 0 THEN SearchStart ELSE Searched(f[k - 1], ids, graph)
    BY <1>3, <1>5, <2>2 DEF IsSearch
  <2>4. IsSearch(f, m, ids, graph)
    BY <2>3 DEF IsSearch
  <2> QED
    BY <1>3, <2>4
<1> QED
  BY <1>4, <1>5

\* The search goes one call or return at a time.
LEMMA SearchStepwise ==
  ASSUME NEW ids, NEW graph, Cardinality(ids) \in Nat
  PROVE  \E f : /\ f[0] = SearchStart
                /\ \A k \in 1..(2 * Cardinality(ids)) : f[k] = Searched(f[k - 1], ids, graph)
                /\ has_cycle(ids, graph) = f[2 * Cardinality(ids)].cycle
<1>1. 2 * Cardinality(ids) \in Nat
  OBVIOUS
<1>2. \E f : IsSearch(f, 2 * Cardinality(ids), ids, graph)
  BY <1>1, SearchExists
<1>3. \E f : /\ IsSearch(f, 2 * Cardinality(ids), ids, graph)
             /\ has_cycle(ids, graph) = f[2 * Cardinality(ids)].cycle
  BY <1>2, Zenon DEF has_cycle, IsSearch, SearchStart
<1>4. PICK f : /\ IsSearch(f, 2 * Cardinality(ids), ids, graph)
               /\ has_cycle(ids, graph) = f[2 * Cardinality(ids)].cycle
  BY <1>3
<1>5. /\ f[0] = SearchStart
      /\ \A k \in 1..(2 * Cardinality(ids)) : f[k] = Searched(f[k - 1], ids, graph)
  BY <1>1, <1>4 DEF IsSearch
<1> QED
  BY <1>4, <1>5

\* The nodes from which the search has returned.
Left(v, p) == v \ ToSet(p)

\* The path is a path, of nodes visited, each once.
PathTyped(c, v, p, ids) ==
  /\ c \in BOOLEAN /\ v \in SUBSET ids /\ p \in Seq(ids)
  /\ \A i \in 1..Len(p) : p[i] \in v
PathFollows(p, graph) ==
  \A i, j \in 1..Len(p) : j = i + 1 => <<p[i], p[j]>> \in graph

\* What the search has left leads to nothing it has not left, and has no cycle.
LeftClosed(v, p, ids, graph) ==
  \A n \in Left(v, p), m \in ids : <<n, m>> \in graph => m \in Left(v, p)
LeftNoCycle(v, p, graph) == HasNoCycle(Left(v, p), graph)

\* Each step enters or leaves a node, until all have been left.
Counted(v, p, k, ids) ==
  k = 2 * Cardinality(v) - Len(p) \/ (p = <<>> /\ v = ids)

SearchOk(s, k, ids, graph) ==
  /\ PathTyped(s.cycle, s.visited, s.path, ids)
  /\ Distinct(s.path)
  /\ PathFollows(s.path, graph)
  /\ LeftClosed(s.visited, s.path, ids, graph)
  /\ LeftNoCycle(s.visited, s.path, graph)
  /\ ~s.cycle => Counted(s.visited, s.path, k, ids)
  /\ s.cycle => ~HasNoCycle(ids, graph)

\* The five things a step can be.
Finds(s, t, ids, graph) ==
  /\ s.path # <<>> /\ \E n \in ToSet(s.path) : <<Last(s.path), n>> \in graph
  /\ t.cycle /\ t.visited = s.visited /\ t.path = s.path
Calls(s, t, ids, graph) ==
  \E n \in ids \ s.visited :
    /\ s.path = <<>> \/ <<Last(s.path), n>> \in graph
    /\ ~t.cycle /\ t.visited = s.visited \cup {n} /\ t.path = Append(s.path, n)
Returns(s, t, ids, graph) ==
  /\ s.path # <<>>
  /\ \A m \in ids : <<Last(s.path), m>> \in graph => m \in Left(s.visited, s.path)
  /\ ~t.cycle /\ t.visited = s.visited /\ t.path = Front(s.path)
Ends(s, t, ids) == s.path = <<>> /\ ids \subseteq s.visited /\ t = s

\* A step of dfs_cycle_check finds a cycle, calls, returns or ends; with a cycle
\* found nothing happens any more.
LEMMA SearchSteps ==
  ASSUME NEW ids, NEW graph, NEW s, NEW t, t = Searched(s, ids, graph),
         s \in [cycle : BOOLEAN, visited : SUBSET ids, path : Seq(ids)]
  PROVE  /\ t \in [cycle : BOOLEAN, visited : SUBSET ids, path : Seq(ids)]
         /\ IF s.cycle THEN t = s
            ELSE Finds(s, t, ids, graph) \/ Calls(s, t, ids, graph)
                 \/ Returns(s, t, ids, graph) \/ Ends(s, t, ids)
<1> DEFINE next == IF s.path = <<>> THEN ids \ s.visited
                   ELSE successors(Last(s.path), ids, graph) \ (s.visited \ ToSet(s.path))
           n == CHOOSE m \in next : TRUE
<1>1. /\ s.cycle \in BOOLEAN /\ s.visited \in SUBSET ids /\ s.path \in Seq(ids)
      /\ s = [cycle |-> s.cycle, visited |-> s.visited, path |-> s.path]
  OBVIOUS
<1>2. t = IF s.cycle THEN s
          ELSE IF next # {} THEN IF n \in ToSet(s.path) THEN [s EXCEPT !.cycle = TRUE]
                                 ELSE Visit(s, n)
          ELSE IF s.path # <<>> THEN [s EXCEPT !.path = Front(@)]
          ELSE s
  BY Zenon DEF Searched
<1>3. next \subseteq ids /\ ToSet(s.path) \subseteq ids
  BY <1>1, InToSet DEF successors
<1>4. CASE s.cycle
  BY <1>2, <1>4
<1>5. CASE ~s.cycle /\ next # {} /\ n \in ToSet(s.path)
  <2>1. n \in next
    BY <1>5
  <2>2. t = [s EXCEPT !.cycle = TRUE]
    BY <1>2, <1>5
  <2>3. s.path # <<>>
    BY <1>5 DEF ToSet
  <2>4. <<Last(s.path), n>> \in graph
    BY <2>1, <2>3 DEF successors
  <2>5. t.cycle /\ t.visited = s.visited /\ t.path = s.path
    BY <1>1, <2>2
  <2>6. Finds(s, t, ids, graph)
    BY <1>5, <2>3, <2>4, <2>5 DEF Finds
  <2> QED
    BY <1>1, <1>5, <2>2, <2>6
<1>6. CASE ~s.cycle /\ next # {} /\ n \notin ToSet(s.path)
  <2>1. n \in next
    BY <1>6
  <2>2. t = Visit(s, n)
    BY <1>2, <1>6
  <2>3. n \in ids \ s.visited
    BY <1>3, <1>6, <2>1
  <2>4. s.path = <<>> \/ <<Last(s.path), n>> \in graph
    BY <2>1 DEF successors
  <2>5. ~t.cycle /\ t.visited = s.visited \cup {n} /\ t.path = Append(s.path, n)
    BY <1>1, <1>6, <2>2 DEF Visit
  <2>6. Calls(s, t, ids, graph)
    <3> HIDE DEF n, next
    <3> QED
      BY <2>3, <2>4, <2>5 DEF Calls
  <2>7. t \in [cycle : BOOLEAN, visited : SUBSET ids, path : Seq(ids)]
    <3> HIDE DEF n, next
    <3>1. Append(s.path, n) \in Seq(ids)
      BY <1>1, <2>3
    <3> QED
      BY <1>1, <2>2, <2>3, <3>1 DEF Visit
  <2> QED
    BY <1>6, <2>6, <2>7
<1>7. CASE ~s.cycle /\ next = {} /\ s.path # <<>>
  <2>1. t = [s EXCEPT !.path = Front(@)]
    BY <1>2, <1>7
  <2>2. \A m \in ids : <<Last(s.path), m>> \in graph => m \in Left(s.visited, s.path)
    BY <1>7 DEF successors, Left
  <2>3. ~t.cycle /\ t.visited = s.visited /\ t.path = Front(s.path)
    BY <1>1, <1>7, <2>1
  <2>4. Returns(s, t, ids, graph)
    BY <1>7, <2>2, <2>3 DEF Returns
  <2>5. Front(s.path) \in Seq(ids)
    BY <1>1, <1>7, Returned
  <2> QED
    BY <1>1, <1>7, <2>1, <2>4, <2>5
<1>8. CASE ~s.cycle /\ next = {} /\ s.path = <<>>
  <2>1. t = s
    BY <1>2, <1>8
  <2>2. ids \subseteq s.visited
    BY <1>8
  <2> QED
    BY <1>1, <1>8, <2>1, <2>2 DEF Ends
<1> QED
  BY <1>1, <1>4, <1>5, <1>6, <1>7, <1>8
\* An edge from the end of the path back to it closes a cycle.
LEMMA FoundIsCycle ==
  ASSUME NEW ids, NEW graph, NEW p \in Seq(ids), p # <<>>, PathFollows(p, graph),
         NEW n \in ToSet(p), <<Last(p), n>> \in graph
  PROVE  ~HasNoCycle(ids, graph)
<1>1. Len(p) \in Nat \ {0}
  OBVIOUS
<1>2. PICK j \in 1..Len(p) : n = p[j]
  BY InToSet
<1> DEFINE S == {p[i] : i \in j..Len(p)}
<1>3. S \in SUBSET ids /\ S # {}
  <2>1. j \in j..Len(p) /\ \A i \in j..Len(p) : i \in 1..Len(p)
    BY <1>1, <1>2
  <2>2. \A i \in j..Len(p) : p[i] \in ids
    BY <2>1, ElementOfSeq
  <2>3. p[j] \in S
    BY <2>1
  <2>4. \A x \in S : x \in ids
    BY <2>2
  <2>5. S # {} /\ S \in SUBSET ids
    <3> HIDE DEF S
    <3> QED
      BY <2>3, <2>4
  <2> HIDE DEF S
  <2> QED
    BY <2>5
<1>4. ASSUME NEW x \in S PROVE \E m \in S : <<m, x>> \in graph
  <2>1. PICK i \in j..Len(p) : x = p[i]
    OBVIOUS
  <2>2. CASE i = j
    <3>1. Len(p) \in j..Len(p)
      BY <1>1, <1>2
    <3>2. Last(p) \in S
      BY <3>1 DEF Last
    <3> QED
      BY <1>2, <2>1, <2>2, <3>2
  <2>3. CASE i # j
    <3>1. i - 1 \in j..Len(p) /\ i - 1 \in 1..Len(p) /\ i \in 1..Len(p) /\ i = (i - 1) + 1
      BY <1>1, <1>2, <2>1, <2>3
    <3>2. <<p[i - 1], p[i]>> \in graph
      BY <3>1 DEF PathFollows
    <3> QED
      BY <2>1, <3>1, <3>2
  <2> QED
    BY <2>2, <2>3
<1>5. ~\E n1 \in S : \A m \in S : <<m, n1>> \notin graph
  <2> HIDE DEF S
  <2> QED
    BY <1>4
<1> HIDE DEF S
<1> QED
  BY <1>3, <1>5, Zenon DEF HasNoCycle

\* A node is entered.
LEMMA CallKeeps ==
  ASSUME NEW ids, IsFiniteSet(ids), NEW graph, NEW k \in Nat,
         NEW v, NEW p, NEW n \in ids \ v, NEW w, w = v \cup {n}, NEW q, q = Append(p, n),
         PathTyped(FALSE, v, p, ids), Distinct(p), PathFollows(p, graph),
         LeftClosed(v, p, ids, graph), LeftNoCycle(v, p, graph), Counted(v, p, k, ids),
         p = <<>> \/ <<Last(p), n>> \in graph
  PROVE  /\ PathTyped(FALSE, w, q, ids) /\ Distinct(q) /\ PathFollows(q, graph)
         /\ LeftClosed(w, q, ids, graph) /\ LeftNoCycle(w, q, graph) /\ Counted(w, q, k + 1, ids)
<1>1. v \in SUBSET ids /\ p \in Seq(ids) /\ n \in ids /\ n \notin v /\ \A i \in 1..Len(p) : p[i] \in v
  BY DEF PathTyped
<1>2. /\ q \in Seq(ids) /\ Len(p) \in Nat /\ Len(q) = Len(p) + 1
      /\ \A i \in 1..Len(p) : q[i] = p[i]
      /\ q[Len(p) + 1] = n
  BY <1>1, Pushed
<1>3. ASSUME NEW i \in 1..Len(q) PROVE (i \in 1..Len(p) /\ q[i] = p[i]) \/ (i = Len(p) + 1 /\ q[i] = n)
  BY <1>2
<1>4. PathTyped(FALSE, w, q, ids)
  BY <1>1, <1>2, <1>3 DEF PathTyped
<1>5. Distinct(q) /\ \A x : x \in ToSet(q) <=> x \in ToSet(p) \/ x = n
  <2>1. n \notin ToSet(p)
    BY <1>1, InToSet
  <2>2. p \in Seq(ids) /\ Distinct(p) /\ n \in ids
    BY <1>1
  <2> QED
    BY <2>1, <2>2, DistinctAppend, Zenon
<1>6. PathFollows(q, graph)
  <2> SUFFICES ASSUME NEW i \in 1..Len(q), NEW j \in 1..Len(q), j = i + 1
               PROVE  <<q[i], q[j]>> \in graph
    BY DEF PathFollows
  <2>1. i \in 1..Len(p) /\ q[i] = p[i]
    BY <1>2
  <2>2. CASE j \in 1..Len(p)
    BY <1>2, <2>1, <2>2 DEF PathFollows
  <2>3. CASE j = Len(p) + 1
    <3>1. i = Len(p) /\ p # <<>>
      BY <1>2, <2>1, <2>3
    <3> QED
      BY <1>2, <2>1, <2>3, <3>1 DEF Last
  <2> QED
    BY <1>3, <2>2, <2>3
<1>8. Left(w, q) = Left(v, p)
  BY <1>1, <1>5 DEF Left
<1>9. Counted(w, q, k + 1, ids)
  <2>1. Cardinality(v) \in Nat /\ Cardinality(w) = Cardinality(v) + 1
    BY <1>1, FS_Subset, FS_AddElement, FS_CardinalityType
  <2>2. v # ids
    BY <1>1
  <2> QED
    BY <1>2, <2>1, <2>2 DEF Counted
<1> QED
  BY <1>4, <1>5, <1>6, <1>8, <1>9 DEF LeftClosed, LeftNoCycle

\* A node is left.
LEMMA ReturnKeeps ==
  ASSUME NEW ids, IsFiniteSet(ids), NEW graph, NEW k \in Nat,
         NEW v, NEW p, p # <<>>, NEW q, q = Front(p),
         PathTyped(FALSE, v, p, ids), Distinct(p), PathFollows(p, graph),
         LeftClosed(v, p, ids, graph), LeftNoCycle(v, p, graph), Counted(v, p, k, ids),
         \A m \in ids : <<Last(p), m>> \in graph => m \in Left(v, p)
  PROVE  /\ PathTyped(FALSE, v, q, ids) /\ Distinct(q) /\ PathFollows(q, graph)
         /\ LeftClosed(v, q, ids, graph) /\ LeftNoCycle(v, q, graph) /\ Counted(v, q, k + 1, ids)
<1>1. v \in SUBSET ids /\ p \in Seq(ids) /\ \A i \in 1..Len(p) : p[i] \in v
  BY DEF PathTyped
<1>2. /\ q \in Seq(ids) /\ Len(p) \in Nat \ {0} /\ Len(q) = Len(p) - 1
      /\ \A i \in 1..(Len(p) - 1) : q[i] = p[i]
  BY <1>1, Returned
<1>3. PICK l \in Nat : l = Len(q) /\ Len(p) = l + 1
  BY <1>2
<1>4. PathTyped(FALSE, v, q, ids)
  BY <1>1, <1>2, <1>3 DEF PathTyped
<1>5. Distinct(q)
  BY <1>2, <1>3 DEF Distinct
<1>6. PathFollows(q, graph)
  BY <1>2, <1>3 DEF PathFollows
<1>7. PICK n : n = Last(p) /\ n = p[l + 1] /\ n \in v
  <2>1. l + 1 \in 1..Len(p)
    BY <1>3
  <2> QED
    BY <1>1, <1>3, <2>1 DEF Last
<1>8. /\ n \in ToSet(p) /\ n \notin ToSet(q)
      /\ \A x : x \in ToSet(p) <=> x = n \/ x \in ToSet(q)
  <2>1. \A x : x \in ToSet(p) <=> \E i \in 1..Len(p) : x = p[i]
    BY <1>1, InToSet
  <2>2. \A x : x \in ToSet(q) <=> \E i \in 1..Len(q) : x = q[i]
    <3>1. q \in Seq(ids)
      BY <1>2
    <3> QED
      BY <3>1, InToSet
  <2>3. n \in ToSet(p)
    <3>1. l + 1 \in 1..Len(p)
      BY <1>3
    <3> QED
      BY <1>7, <2>1, <3>1
  <2>4. n \notin ToSet(q)
    <3>1. SUFFICES ASSUME NEW i \in 1..Len(q), n = q[i] PROVE FALSE
      BY <2>2
    <3>2. i \in 1..Len(p) /\ l + 1 \in 1..Len(p) /\ i # l + 1 /\ p[i] = n
      BY <1>2, <1>3, <3>1
    <3> QED
      BY <1>7, <3>2 DEF Distinct
  <2>5. ASSUME NEW x \in ToSet(p), x # n PROVE x \in ToSet(q)
    <3>1. PICK i \in 1..Len(p) : x = p[i]
      BY <2>1
    <3>2. i \in 1..Len(q) /\ x = q[i]
      BY <1>2, <1>3, <1>7, <2>5, <3>1
    <3> QED
      BY <2>2, <3>2
  <2>6. ASSUME NEW x \in ToSet(q) PROVE x \in ToSet(p)
    <3>1. PICK i \in 1..Len(q) : x = q[i]
      BY <2>2
    <3>2. i \in 1..Len(p) /\ x = p[i]
      BY <1>2, <1>3, <3>1
    <3> QED
      BY <2>1, <3>2
  <2> QED
    BY <2>3, <2>4, <2>5, <2>6
<1>9. Left(v, q) = Left(v, p) \cup {n} /\ n \notin Left(v, p)
  BY <1>7, <1>8 DEF Left
<1>10. \A m \in ids : <<n, m>> \in graph => m \in Left(v, p)
  BY <1>7
<1>11. LeftClosed(v, q, ids, graph)
  BY <1>9, <1>10 DEF LeftClosed
<1>12. LeftNoCycle(v, q, graph)
  <2> SUFFICES ASSUME NEW S \in SUBSET Left(v, q), S # {}
               PROVE  \E x \in S : \A m \in S : <<m, x>> \notin graph
    BY DEF LeftNoCycle, HasNoCycle
  <2>1. CASE n \in S
    <3> SUFFICES ASSUME NEW m \in S, <<m, n>> \in graph PROVE FALSE
      BY <2>1
    <3>1. n \in ids
      BY <1>1, <1>7
    <3>2. CASE m = n
      BY <1>9, <1>10, <3>1, <3>2
    <3>3. CASE m # n
      BY <1>9, <3>1, <3>3 DEF LeftClosed
    <3> QED
      BY <3>2, <3>3
  <2>2. CASE n \notin S
    <3>1. S \in SUBSET Left(v, p)
      BY <1>9, <2>2
    <3> QED
      BY <3>1 DEF LeftNoCycle, HasNoCycle
  <2> QED
    BY <2>1, <2>2
<1>13. Counted(v, q, k + 1, ids)
  <2>1. Cardinality(v) \in Nat
    BY <1>1, FS_Subset, FS_CardinalityType
  <2> QED
    BY <1>3, <2>1 DEF Counted
<1> QED
  BY <1>4, <1>5, <1>6, <1>11, <1>12, <1>13

\* Every step keeps the search right.
LEMMA SearchKeeps ==
  ASSUME NEW ids, IsFiniteSet(ids), NEW graph, NEW k \in Nat, NEW s, NEW t,
         s \in [cycle : BOOLEAN, visited : SUBSET ids, path : Seq(ids)],
         t = Searched(s, ids, graph), SearchOk(s, k, ids, graph)
  PROVE  SearchOk(t, k + 1, ids, graph)
<1>1. /\ t \in [cycle : BOOLEAN, visited : SUBSET ids, path : Seq(ids)]
      /\ IF s.cycle THEN t = s
         ELSE Finds(s, t, ids, graph) \/ Calls(s, t, ids, graph)
              \/ Returns(s, t, ids, graph) \/ Ends(s, t, ids)
  BY SearchSteps
<1>2. CASE s.cycle
  BY <1>1, <1>2 DEF SearchOk
<1>3. CASE ~s.cycle /\ Finds(s, t, ids, graph)
  <2>1. ~HasNoCycle(ids, graph)
    BY <1>3, FoundIsCycle DEF SearchOk, Finds
  <2>2. t.cycle /\ t.visited = s.visited /\ t.path = s.path /\ t.cycle \in BOOLEAN
    BY <1>1, <1>3 DEF Finds
  <2>3. PathTyped(t.cycle, t.visited, t.path, ids)
    BY <2>2 DEF SearchOk, PathTyped
  <2> QED
    BY <2>1, <2>2, <2>3 DEF SearchOk
<1>4. CASE ~s.cycle /\ Calls(s, t, ids, graph)
  <2>1. PICK n \in ids \ s.visited :
          /\ s.path = <<>> \/ <<Last(s.path), n>> \in graph
          /\ ~t.cycle /\ t.visited = s.visited \cup {n} /\ t.path = Append(s.path, n)
    BY <1>4 DEF Calls
  <2>2. PathTyped(FALSE, s.visited, s.path, ids)
    BY DEF SearchOk, PathTyped
  <2>3. /\ PathTyped(FALSE, t.visited, t.path, ids) /\ Distinct(t.path)
        /\ PathFollows(t.path, graph) /\ LeftClosed(t.visited, t.path, ids, graph)
        /\ LeftNoCycle(t.visited, t.path, graph) /\ Counted(t.visited, t.path, k + 1, ids)
    <3>1. PICK v, p, w, q : v = s.visited /\ p = s.path /\ w = t.visited /\ q = t.path
      OBVIOUS
    <3>2. /\ PathTyped(FALSE, v, p, ids) /\ Distinct(p) /\ PathFollows(p, graph)
          /\ LeftClosed(v, p, ids, graph) /\ LeftNoCycle(v, p, graph) /\ Counted(v, p, k, ids)
      BY <1>4, <2>2, <3>1 DEF SearchOk
    <3>3. /\ n \in ids \ v /\ w = v \cup {n} /\ q = Append(p, n)
          /\ p = <<>> \/ <<Last(p), n>> \in graph
      BY <2>1, <3>1
    <3>4. /\ PathTyped(FALSE, w, q, ids) /\ Distinct(q) /\ PathFollows(q, graph)
          /\ LeftClosed(w, q, ids, graph) /\ LeftNoCycle(w, q, graph)
          /\ Counted(w, q, k + 1, ids)
      BY <3>2, <3>3, CallKeeps, Zenon
    <3> QED
      BY <3>1, <3>4
  <2>4. PathTyped(t.cycle, t.visited, t.path, ids)
    BY <1>1, <2>3 DEF PathTyped
  <2> QED
    BY <2>1, <2>3, <2>4 DEF SearchOk
<1>5. CASE ~s.cycle /\ Returns(s, t, ids, graph)
  <2>1. /\ s.path # <<>>
        /\ \A m \in ids : <<Last(s.path), m>> \in graph => m \in Left(s.visited, s.path)
        /\ ~t.cycle /\ t.visited = s.visited /\ t.path = Front(s.path)
    BY <1>5 DEF Returns
  <2>2. PathTyped(FALSE, s.visited, s.path, ids)
    BY DEF SearchOk, PathTyped
  <2>3. /\ PathTyped(FALSE, t.visited, t.path, ids) /\ Distinct(t.path)
        /\ PathFollows(t.path, graph) /\ LeftClosed(t.visited, t.path, ids, graph)
        /\ LeftNoCycle(t.visited, t.path, graph) /\ Counted(t.visited, t.path, k + 1, ids)
    BY <1>5, <2>1, <2>2, ReturnKeeps DEF SearchOk
  <2>4. PathTyped(t.cycle, t.visited, t.path, ids)
    BY <1>1, <2>3 DEF PathTyped
  <2> QED
    BY <2>1, <2>3, <2>4 DEF SearchOk
<1>6. CASE ~s.cycle /\ Ends(s, t, ids)
  <2>1. t = s /\ t.path = <<>> /\ t.visited = ids
    BY <1>6 DEF Ends, SearchOk, PathTyped
  <2> QED
    BY <1>6, <2>1 DEF SearchOk, Counted
<1> QED
  BY <1>1, <1>2, <1>3, <1>4, <1>5, <1>6

\* has_cycle finds a cycle exactly if there is one.
THEOREM CycleFound ==
  ASSUME NEW ids, IsFiniteSet(ids), NEW graph
  PROVE  has_cycle(ids, graph) <=> ~HasNoCycle(ids, graph)
<1>1. Cardinality(ids) \in Nat
  BY FS_CardinalityType
<1>2. PICK last \in Nat : last = 2 * Cardinality(ids)
  BY <1>1
<1>3. PICK f : /\ f[0] = SearchStart
               /\ \A k \in 1..last : f[k] = Searched(f[k - 1], ids, graph)
               /\ has_cycle(ids, graph) = f[last].cycle
  BY <1>1, <1>2, SearchStepwise
<1> DEFINE Right(k) == /\ f[k] \in [cycle : BOOLEAN, visited : SUBSET ids, path : Seq(ids)]
                       /\ SearchOk(f[k], k, ids, graph)
           T == {k \in 0..last : ~Right(k)}
<1>4. Right(0)
  <2>1. /\ f[0].cycle = FALSE /\ f[0].visited = {} /\ f[0].path = <<>>
        /\ f[0] \in [cycle : BOOLEAN, visited : SUBSET ids, path : Seq(ids)]
    BY <1>3 DEF SearchStart
  <2>2. PathTyped(FALSE, {}, <<>>, ids) /\ Distinct(<<>>) /\ PathFollows(<<>>, graph)
    BY DEF PathTyped, Distinct, PathFollows
  <2>3. Left({}, <<>>) = {}
    BY DEF Left
  <2>4. LeftClosed({}, <<>>, ids, graph) /\ LeftNoCycle({}, <<>>, graph)
    <3>1. \A S \in SUBSET {} : S = {}
      OBVIOUS
    <3>2. HasNoCycle({}, graph)
      BY <3>1, Zenon DEF HasNoCycle
    <3> QED
      BY <2>3, <3>2 DEF LeftClosed, LeftNoCycle
  <2>5. Counted({}, <<>>, 0, ids)
    <3>1. Cardinality({}) = 0 /\ Len(<<>>) = 0
      BY FS_EmptySet
    <3> QED
      BY <3>1 DEF Counted
  <2> QED
    BY <2>1, <2>2, <2>4, <2>5 DEF SearchOk
<1>5. ASSUME T # {} PROVE FALSE
  <2>1. PICK m \in T : \A y \in T : m <= y
    <3>1. T \in SUBSET Nat
      BY <1>2
    <3> HIDE DEF T
    <3> QED
      BY <1>5, <3>1, Smallest
  <2>2. m \in 1..last /\ ~Right(m)
    BY <1>2, <1>4
  <2>3. PICK l \in Nat : l = m - 1 /\ m = l + 1
    BY <2>2
  <2>4. l \in 0..last /\ l \notin T
    BY <1>2, <2>1, <2>2, <2>3
  <2>5. Right(l)
    BY <2>4
  <2>6. f[m] = Searched(f[l], ids, graph)
    BY <1>3, <2>2, <2>3
  <2>7. SearchOk(f[m], m, ids, graph)
    BY <2>3, <2>5, <2>6, SearchKeeps
  <2>8. f[m] \in [cycle : BOOLEAN, visited : SUBSET ids, path : Seq(ids)]
    BY <2>5, <2>6, SearchSteps
  <2> QED
    BY <2>2, <2>7, <2>8
<1>6. Right(last)
  <2>1. last \in 0..last
    BY <1>2
  <2> QED
    BY <1>5, <2>1
<1>7. PICK s : s = f[last] /\ s \in [cycle : BOOLEAN, visited : SUBSET ids, path : Seq(ids)]
               /\ SearchOk(s, last, ids, graph)
  BY <1>6
<1>8. CASE s.cycle
  BY <1>3, <1>7, <1>8 DEF SearchOk
<1>9. CASE ~s.cycle
  <2>1. Counted(s.visited, s.path, last, ids) /\ PathTyped(FALSE, s.visited, s.path, ids)
    BY <1>7, <1>9 DEF SearchOk, PathTyped
  <2>2. s.visited = ids /\ s.path = <<>>
    <3>1. CASE last = 2 * Cardinality(s.visited) - Len(s.path)
      <4>1. s.visited \in SUBSET ids /\ s.path \in Seq(ids) /\ Len(s.path) \in Nat
        BY <2>1 DEF PathTyped
      <4>2. /\ Cardinality(s.visited) \in Nat /\ Cardinality(s.visited) <= Cardinality(ids)
            /\ Cardinality(ids) = Cardinality(s.visited) => ids = s.visited
        BY <4>1, FS_Subset, FS_CardinalityType
      <4>3. Len(s.path) = 0 /\ Cardinality(ids) = Cardinality(s.visited)
        BY <1>1, <1>2, <3>1, <4>1, <4>2
      <4> QED
        BY <4>1, <4>2, <4>3
    <3> QED
      BY <2>1, <3>1 DEF Counted
  <2>3. Left(s.visited, s.path) = ids
    BY <2>2 DEF Left, ToSet
  <2>4. HasNoCycle(ids, graph)
    BY <1>7, <2>3 DEF SearchOk, LeftNoCycle
  <2> QED
    BY <1>3, <1>7, <1>9, <2>4
<1> QED
  BY <1>7, <1>8, <1>9
-----------------------------------------------------------------------------
(* Kahn's algorithm *)

\* The predecessors that are not in the order yet.
Waiting(m, o) == {l \in DOMAIN nodes : <<l, m>> \in edges /\ l \notin ToSet(o)}

\* Each node is in the queue or in the order once it waits for no other.
RunDistinct(q, o) ==
  Distinct(q) /\ Distinct(o) /\ \A x : ~(x \in ToSet(q) /\ x \in ToSet(o))
DegreesRight(d, o) == \A m \in DOMAIN nodes : d[m] = Cardinality(Waiting(m, o))
QueueRight(q, o) ==
  \A m \in DOMAIN nodes : Waiting(m, o) = {} <=> m \in ToSet(q) \/ m \in ToSet(o)
OrderRight(o) ==
  \A j \in 1..Len(o), l \in DOMAIN nodes :
    <<l, o[j]>> \in edges => \E i \in 1..Len(o) : i < j /\ o[i] = l

RunRight(q, d, o) ==
  /\ q \in Seq(DOMAIN nodes) /\ d \in [DOMAIN nodes -> Nat] /\ o \in Seq(DOMAIN nodes)
  /\ RunDistinct(q, o) /\ DegreesRight(d, o) /\ QueueRight(q, o) /\ OrderRight(o)
RunOk(run, k) ==
  /\ RunRight(run.queue, run.in_degree, run.order)
  /\ run.queue # <<>> => Len(run.order) = k

\* The predecessors a node waits for can be counted.
LEMMA WaitingFinite ==
  ASSUME IsFiniteSet(DOMAIN nodes), NEW m, NEW o
  PROVE  /\ IsFiniteSet(Waiting(m, o)) /\ Cardinality(Waiting(m, o)) \in Nat
         /\ Cardinality(Waiting(m, o)) = 0 <=> Waiting(m, o) = {}
<1>1. Waiting(m, o) \in SUBSET DOMAIN nodes
  BY DEF Waiting
<1>2. IsFiniteSet(Waiting(m, o))
  BY <1>1, FS_Subset
<1> QED
  BY <1>2, FS_CardinalityType, FS_EmptySet

\* What the others wait for once a node has had its turn, and those it was last for.
Lowered(d, n) == [m \in DOMAIN nodes |-> d[m] - (IF <<n, m>> \in edges THEN 1 ELSE 0)]
Ready(n, d) ==
  {m \in DOMAIN nodes : <<n, m>> \in edges /\ d[m] = 0}

\* A turn of Kahn's algorithm keeps what is right about a run.
LEMMA TurnKeeps ==
  ASSUME IsFiniteSet(DOMAIN nodes),
         NEW q, NEW d, NEW o, q # <<>>, RunRight(q, d, o),
         NEW n, n = Head(q), NEW d2, d2 = Lowered(d, n),
         NEW next \in SetToSeqs(Ready(n, d2)),
         NEW q2, q2 = Tail(q) \o next, NEW o2, o2 = Append(o, n)
  PROVE  RunRight(q2, d2, o2)
<1> DEFINE D == DOMAIN nodes
           ready == Ready(n, d2)
<1> q \in Seq(D) /\ d \in [D -> Nat] /\ o \in Seq(D)
  BY DEF RunRight
<1> RunDistinct(q, o) /\ DegreesRight(d, o) /\ QueueRight(q, o) /\ OrderRight(o)
  BY DEF RunRight
<1>1. Distinct(q) /\ Distinct(o) /\ \A x : ~(x \in ToSet(q) /\ x \in ToSet(o))
  BY DEF RunDistinct
<1>2. PICK t : t = Tail(q)
  OBVIOUS
<1>3. /\ t \in Seq(D) /\ Distinct(t) /\ n \in D /\ n \in ToSet(q) /\ n \notin ToSet(t)
      /\ \A x : x \in ToSet(q) <=> x = n \/ x \in ToSet(t)
  BY <1>1, <1>2, DistinctTail
<1>4. n \notin ToSet(o) /\ Waiting(n, o) = {}
  BY <1>1, <1>3 DEF QueueRight
<1>5. o2 \in Seq(D) /\ Distinct(o2) /\ \A x : x \in ToSet(o2) <=> x \in ToSet(o) \/ x = n
  <2>1. o \in Seq(D) /\ Distinct(o) /\ n \in D /\ n \notin ToSet(o) /\ o2 = Append(o, n)
    BY <1>1, <1>3, <1>4
  <2> QED
    BY <2>1, DistinctAppend, Zenon
<1>6. ASSUME NEW m \in D
      PROVE  /\ \A l : l \in Waiting(m, o2) <=> l \in Waiting(m, o) /\ l # n
             /\ n \in Waiting(m, o) <=> <<n, m>> \in edges
             /\ d2[m] = Cardinality(Waiting(m, o2)) /\ d2[m] \in Nat
             /\ d2[m] = 0 <=> Waiting(m, o2) = {}
  <2>1. /\ \A l : l \in Waiting(m, o2) <=> l \in Waiting(m, o) /\ l # n
        /\ n \in Waiting(m, o) <=> <<n, m>> \in edges
        /\ Cardinality(Waiting(m, o2)) =
             Cardinality(Waiting(m, o)) - (IF <<n, m>> \in edges THEN 1 ELSE 0)
    <3>1. \A l : l \in Waiting(m, o2) <=> l \in Waiting(m, o) /\ l # n
      BY <1>5 DEF Waiting
    <3>2. n \in Waiting(m, o) <=> <<n, m>> \in edges
      BY <1>3, <1>4 DEF Waiting
    <3>3. PICK w, w2 : w = Waiting(m, o) /\ w2 = Waiting(m, o2)
      OBVIOUS
    <3>4. w2 = w \ {n} /\ IsFiniteSet(w) /\ Cardinality(w) \in Nat
      BY <3>1, <3>3, WaitingFinite
    <3>5. Cardinality(w2) = IF n \in w THEN Cardinality(w) - 1 ELSE Cardinality(w)
      BY <3>4, FS_RemoveElement
    <3> QED
      BY <3>1, <3>2, <3>3, <3>4, <3>5
  <2>2. d2[m] = Cardinality(Waiting(m, o)) - (IF <<n, m>> \in edges THEN 1 ELSE 0)
    BY DEF DegreesRight, Lowered
  <2>3. /\ Cardinality(Waiting(m, o2)) \in Nat
        /\ Cardinality(Waiting(m, o2)) = 0 <=> Waiting(m, o2) = {}
    BY WaitingFinite
  <2> QED
    BY <2>1, <2>2, <2>3
<1>7. d2 \in [D -> Nat] /\ DegreesRight(d2, o2)
  <2>1. \A m \in D : d2[m] \in Nat
    BY <1>6
  <2>2. d2 \in [D -> Nat]
    BY <2>1 DEF Lowered
  <2> QED
    BY <1>6, <2>2 DEF DegreesRight
<1>8. IsFiniteSet(ready) /\ ready \subseteq D
  <2>1. ready \subseteq D
    BY DEF Ready
  <2> QED
    BY <2>1, FS_Subset
<1>9. next \in Seq(D) /\ Distinct(next) /\ ToSet(next) = ready
  <2>1. next \in Seq(ready) /\ Distinct(next) /\ ToSet(next) = ready
    BY <1>8, Listed
  <2>2. next \in Seq(D)
    BY <1>8, <2>1, SeqMonotonic
  <2> QED
    BY <2>1, <2>2
<1>10. \A m : m \in ready <=> m \in D /\ <<n, m>> \in edges /\ Waiting(m, o2) = {}
  BY <1>6 DEF Ready
<1>11. ASSUME NEW m \in ready PROVE m \notin ToSet(q) /\ m \notin ToSet(o)
  BY <1>6, <1>10, <1>11 DEF QueueRight
<1>12. \A x : ~(x \in ToSet(t) /\ x \in ToSet(next))
  BY <1>3, <1>9, <1>11
<1>13. /\ q2 \in Seq(D) /\ Distinct(q2)
       /\ \A x : x \in ToSet(q2) <=> x \in ToSet(t) \/ x \in ready
  <2>1. q2 = t \o next
    BY <1>2
  <2>2. /\ q2 \in Seq(D) /\ Distinct(q2)
        /\ \A x : x \in ToSet(q2) <=> x \in ToSet(t) \/ x \in ToSet(next)
    BY <1>3, <1>9, <1>12, <2>1, DistinctConcat
  <2> QED
    BY <1>9, <2>2
<1>14. RunDistinct(q2, o2)
  <2>1. \A x : ~(x \in ToSet(q2) /\ x \in ToSet(o2))
    BY <1>1, <1>3, <1>5, <1>11, <1>13
  <2> QED
    BY <1>5, <1>13, <2>1 DEF RunDistinct
<1>15. QueueRight(q2, o2)
  <2> SUFFICES ASSUME NEW m \in D
               PROVE  Waiting(m, o2) = {} <=> m \in ToSet(q2) \/ m \in ToSet(o2)
    BY DEF QueueRight
  <2>1. Waiting(m, o) = {} <=> m \in ToSet(q) \/ m \in ToSet(o)
    BY DEF QueueRight
  <2>2. /\ \A l : l \in Waiting(m, o2) <=> l \in Waiting(m, o) /\ l # n
        /\ n \in Waiting(m, o) <=> <<n, m>> \in edges
    BY <1>6
  <2>3. m \in ToSet(q2) <=> m \in ToSet(t) \/ m \in ready
    BY <1>13
  <2>4. m \in ToSet(q) <=> m = n \/ m \in ToSet(t)
    BY <1>3
  <2>5. m \in ToSet(o2) <=> m \in ToSet(o) \/ m = n
    BY <1>5
  <2>6. m \in ready <=> <<n, m>> \in edges /\ Waiting(m, o2) = {}
    BY <1>10
  <2> HIDE DEF ready
  <2> QED
    BY <2>1, <2>2, <2>3, <2>4, <2>5, <2>6
<1>16. OrderRight(o2)
  <2>1. /\ Len(o) \in Nat /\ Len(o2) = Len(o) + 1
        /\ \A i \in 1..Len(o) : o2[i] = o[i]
        /\ o2[Len(o) + 1] = n
    BY <1>3, Pushed
  <2> SUFFICES ASSUME NEW j \in 1..Len(o2), NEW l \in D, <<l, o2[j]>> \in edges
               PROVE  \E i \in 1..Len(o2) : i < j /\ o2[i] = l
    BY <2>1 DEF OrderRight
  <2>2. CASE j \in 1..Len(o)
    <3>1. <<l, o[j]>> \in edges
      BY <2>1, <2>2
    <3>2. PICK i \in 1..Len(o) : i < j /\ o[i] = l
      BY <2>2, <3>1 DEF OrderRight
    <3>3. i \in 1..Len(o2) /\ o2[i] = l
      BY <2>1, <3>2
    <3> QED
      BY <3>2, <3>3
  <2>3. CASE j = Len(o) + 1
    <3>1. <<l, n>> \in edges
      BY <2>1, <2>3
    <3>2. l \in ToSet(o)
      BY <1>4, <3>1 DEF Waiting
    <3>3. PICK i \in 1..Len(o) : l = o[i]
      BY <3>2, InToSet
    <3>4. i \in 1..Len(o2) /\ i < j /\ o2[i] = l
      BY <2>1, <2>3, <3>3
    <3> QED
      BY <3>4
  <2> QED
    BY <2>1, <2>2, <2>3
<1> QED
  BY <1>5, <1>7, <1>13, <1>14, <1>15, <1>16 DEF RunRight
\* Of a run that has nodes in its queue the next ones are right, and there is one.
LEMMA PoppedOk ==
  ASSUME IsFiniteSet(DOMAIN nodes), NEW k \in Nat, NEW run, RunOk(run, k)
  PROVE  /\ \A t \in Popped(run) : RunOk(t, k + 1)
         /\ Popped(run) # {}
<1> DEFINE q == run.queue
           d == run.in_degree
           o == run.order
<1>1. /\ RunRight(q, d, o) /\ q \in Seq(DOMAIN nodes) /\ o \in Seq(DOMAIN nodes)
      /\ q # <<>> => Len(o) = k
  BY DEF RunOk, RunRight
<1>2. CASE q = <<>>
  <2>1. Popped(run) = {run}
    BY <1>2 DEF Popped
  <2>2. RunOk(run, k + 1)
    BY <1>2 DEF RunOk
  <2> QED
    BY <2>1, <2>2
<1>3. CASE q # <<>>
  <2> DEFINE n == Head(q)
             d2 == Lowered(d, n)
  <2>1. Popped(run) = {[queue |-> Tail(q) \o next, in_degree |-> d2, order |-> Append(o, n)] :
                         next \in SetToSeqs(Ready(n, d2))}
    <3>1. {m \in successors(n, DOMAIN nodes, edges) : d2[m] = 0} = Ready(n, d2)
      BY DEF successors, Ready
    <3>3. Popped(run) = {[queue |-> Tail(q) \o next, in_degree |-> d2, order |-> Append(o, n)] :
                           next \in SetToSeqs({m \in successors(n, DOMAIN nodes, edges) : d2[m] = 0})}
      BY <1>3, Zenon DEF Popped, Lowered
    <3> HIDE DEF n, d2
    <3> QED
      BY <3>1, <3>3, Zenon
  <2>2. ASSUME NEW t \in Popped(run) PROVE RunOk(t, k + 1)
    <3>1. PICK next \in SetToSeqs(Ready(n, d2)) :
            t = [queue |-> Tail(q) \o next, in_degree |-> d2, order |-> Append(o, n)]
      BY <2>1
    <3>2. PICK q2, o2 : q2 = Tail(q) \o next /\ o2 = Append(o, n)
      OBVIOUS
    <3>3. RunRight(q2, d2, o2)
      <4>1. n = Head(q) /\ d2 = Lowered(d, n)
        OBVIOUS
      <4> HIDE DEF n, d2, q, d, o
      <4> QED
        BY <1>1, <1>3, <3>1, <3>2, <4>1, TurnKeeps, Zenon
    <3>4. t.queue = q2 /\ t.in_degree = d2 /\ t.order = o2
      BY <3>1, <3>2
    <3>5. Len(o2) = k + 1
      <4>1. Len(o2) = Len(o) + 1
        BY <1>1, <3>2
      <4> QED
        BY <1>1, <1>3, <4>1
    <3> QED
      BY <3>3, <3>4, <3>5 DEF RunOk
  <2>3. Popped(run) # {}
    <3>1. Ready(n, d2) \in SUBSET DOMAIN nodes
      BY DEF Ready
    <3>2. SetToSeqs(Ready(n, d2)) # {}
      BY <3>1, FS_Subset, ListExists
    <3> QED
      BY <2>1, <3>2
  <2> QED
    BY <2>2, <2>3
<1> QED
  BY <1>2, <1>3

\* The runs begin with the nodes that have no predecessor.
Degrees == [n \in DOMAIN nodes |-> Cardinality(predecessors(n, DOMAIN nodes, edges))]
Starts == {[queue |-> first, in_degree |-> Degrees, order |-> <<>>] :
             first \in SetToSeqs({n \in DOMAIN nodes : Degrees[n] = 0})}

\* The runs start right: with the nodes that have no predecessor in the queue.
LEMMA StartsOk ==
  ASSUME IsFiniteSet(DOMAIN nodes)
  PROVE  (\A run \in Starts : RunOk(run, 0)) /\ Starts # {}
<1> DEFINE sources == {n \in DOMAIN nodes : Degrees[n] = 0}
<1>1. sources \in SUBSET DOMAIN nodes /\ IsFiniteSet(sources)
  <2>1. sources \in SUBSET DOMAIN nodes
    OBVIOUS
  <2> QED
    BY <2>1, FS_Subset
<1>2. ToSet(<<>>) = {} /\ Len(<<>>) = 0
  BY DEF ToSet
<1>3. \A m : Waiting(m, <<>>) = predecessors(m, DOMAIN nodes, edges)
  BY <1>2 DEF Waiting, predecessors
<1>4. ASSUME NEW m \in DOMAIN nodes
      PROVE  /\ Degrees[m] = Cardinality(Waiting(m, <<>>)) /\ Degrees[m] \in Nat
             /\ Degrees[m] = 0 <=> Waiting(m, <<>>) = {}
  <2>1. Degrees[m] = Cardinality(Waiting(m, <<>>))
    BY <1>3 DEF Degrees
  <2>2. /\ Cardinality(Waiting(m, <<>>)) \in Nat
        /\ Cardinality(Waiting(m, <<>>)) = 0 <=> Waiting(m, <<>>) = {}
    BY WaitingFinite
  <2> QED
    BY <2>1, <2>2
<1>5. ASSUME NEW run \in Starts PROVE RunOk(run, 0)
  <2>1. PICK first \in SetToSeqs(sources) :
          run = [queue |-> first, in_degree |-> Degrees, order |-> <<>>]
    BY DEF Starts
  <2>2. first \in Seq(sources) /\ Distinct(first) /\ ToSet(first) = sources
    BY <1>1, Listed
  <2>3. first \in Seq(DOMAIN nodes)
    BY <1>1, <2>2, SeqMonotonic
  <2>4. Degrees \in [DOMAIN nodes -> Nat]
    BY <1>4 DEF Degrees
  <2>5. RunDistinct(first, <<>>)
    BY <1>2, <2>2 DEF RunDistinct, Distinct
  <2>6. DegreesRight(Degrees, <<>>)
    BY <1>4 DEF DegreesRight
  <2>7. QueueRight(first, <<>>)
    BY <1>2, <1>4, <2>2 DEF QueueRight
  <2>8. OrderRight(<<>>)
    BY <1>2 DEF OrderRight
  <2>9. run.queue = first /\ run.in_degree = Degrees /\ run.order = <<>>
    BY <2>1
  <2> QED
    BY <1>2, <2>3, <2>4, <2>5, <2>6, <2>7, <2>8, <2>9 DEF RunOk, RunRight
<1>6. Starts # {}
  <2>1. SetToSeqs(sources) # {}
    BY <1>1, ListExists
  <2> QED
    BY <2>1 DEF Starts
<1> QED
  BY <1>5, <1>6

IsRuns(f, m) ==
  f = [k \in 0..m |-> IF k = 0 THEN Starts ELSE UNION {Popped(run) : run \in f[k - 1]}]

\* The function that compute_topological_order is defined with is there.
LEMMA RunsExist == \A m \in Nat : \E f : IsRuns(f, m)
<1> DEFINE T == {m \in Nat : ~\E f : IsRuns(f, m)}
<1>1. SUFFICES ASSUME T # {} PROVE FALSE
  OBVIOUS
<1>2. PICK m \in T : \A y \in T : m <= y
  <2>1. T \in SUBSET Nat
    OBVIOUS
  <2> HIDE DEF T
  <2> QED
    BY <1>1, <2>1, Smallest
<1>3. m \in Nat /\ ~\E f : IsRuns(f, m)
  OBVIOUS
<1>4. CASE m = 0
  <2> DEFINE f == [k \in 0..0 |-> Starts]
  <2>1. IsRuns(f, 0)
    BY DEF IsRuns
  <2> QED
    BY <1>3, <1>4, <2>1
<1>5. CASE m # 0
  <2>1. m - 1 \in Nat /\ m - 1 \notin T
    <3>1. m - 1 \in Nat /\ ~(m <= m - 1)
      BY <1>3, <1>5
    <3> HIDE DEF T
    <3> QED
      BY <1>2, <3>1
  <2>2. PICK g : IsRuns(g, m - 1)
    BY <2>1
  <2> DEFINE f == [k \in 0..m |-> IF k = m THEN UNION {Popped(run) : run \in g[m - 1]} ELSE g[k]]
  <2>3. \A k \in 0..m : f[k] = IF k = 0 THEN Starts ELSE UNION {Popped(run) : run \in f[k - 1]}
    <3> SUFFICES ASSUME NEW k \in 0..m
                 PROVE  f[k] = IF k = 0 THEN Starts ELSE UNION {Popped(run) : run \in f[k - 1]}
      OBVIOUS
    <3>1. \A n \in 0..(m - 1) :
            g[n] = IF n = 0 THEN Starts ELSE UNION {Popped(run) : run \in g[n - 1]}
      BY <2>2 DEF IsRuns
    <3>2. k # m => k \in 0..(m - 1) /\ f[k] = g[k]
      BY <1>3
    <3>3. k # 0 => k - 1 \in 0..m /\ f[k - 1] = g[k - 1]
      BY <1>3
    <3>4. f[m] = UNION {Popped(run) : run \in g[m - 1]}
      BY <1>3
    <3> HIDE DEF f
    <3> QED
      BY <1>3, <1>5, <3>1, <3>2, <3>3, <3>4
  <2>4. IsRuns(f, m)
    BY <2>3 DEF IsRuns
  <2> QED
    BY <1>3, <2>4
<1> QED
  BY <1>4, <1>5

\* compute_topological_order turn by turn.
LEMMA RunsStepwise ==
  ASSUME NEW count \in Nat, count = Cardinality(DOMAIN nodes)
  PROVE  \E f : /\ f[0] = Starts
                /\ \A k \in 1..count : f[k] = UNION {Popped(run) : run \in f[k - 1]}
                /\ compute_topological_order =
                     {run.order : run \in {r \in f[count] : Len(r.order) = count}}
<1>1. \E f : IsRuns(f, count)
  BY RunsExist
<1>2. \E f : /\ IsRuns(f, count)
             /\ compute_topological_order =
                  {run.order : run \in {r \in f[count] : Len(r.order) = count}}
  BY <1>1, Zenon DEF compute_topological_order, IsRuns, Starts, Degrees
<1>3. PICK f : /\ IsRuns(f, count)
               /\ compute_topological_order =
                    {run.order : run \in {r \in f[count] : Len(r.order) = count}}
  BY <1>2
<1>4. f[0] = Starts /\ \A k \in 1..count : f[k] = UNION {Popped(run) : run \in f[k - 1]}
  BY <1>3 DEF IsRuns
<1> QED
  BY <1>3, <1>4
\* An order names every node once, none before one that precedes it.
IsOrder(o) ==
  /\ o \in Seq(DOMAIN nodes) /\ Distinct(o) /\ ToSet(o) = DOMAIN nodes
  /\ OrderRight(o)

\* What the algorithm gives is an order, and without a cycle it gives one.
THEOREM OrdersComputed ==
  ASSUME IsFiniteSet(DOMAIN nodes)
  PROVE  /\ \A o \in compute_topological_order : IsOrder(o)
         /\ HasNoCycle(DOMAIN nodes, edges) => compute_topological_order # {}
<1>1. PICK count \in Nat : count = Cardinality(DOMAIN nodes)
  BY FS_CardinalityType
<1>2. PICK f : /\ f[0] = Starts
               /\ \A k \in 1..count : f[k] = UNION {Popped(run) : run \in f[k - 1]}
               /\ compute_topological_order =
                    {run.order : run \in {r \in f[count] : Len(r.order) = count}}
  BY <1>1, RunsStepwise
<1> DEFINE Right(k) == (\A run \in f[k] : RunOk(run, k)) /\ f[k] # {}
           T == {k \in 0..count : ~Right(k)}
<1>3. Right(0)
  BY <1>2, StartsOk
<1>4. ASSUME T # {} PROVE FALSE
  <2>1. PICK m \in T : \A y \in T : m <= y
    <3>1. T \in SUBSET Nat
      OBVIOUS
    <3> HIDE DEF T
    <3> QED
      BY <1>4, <3>1, Smallest
  <2>2. m \in 1..count /\ ~Right(m)
    BY <1>3
  <2>3. PICK l \in Nat : l = m - 1 /\ m = l + 1
    BY <2>2
  <2>4. l \in 0..count /\ l \notin T
    BY <2>1, <2>2, <2>3
  <2>5. Right(l)
    BY <2>4
  <2>6. f[m] = UNION {Popped(run) : run \in f[l]}
    BY <1>2, <2>2, <2>3
  <2>7. ASSUME NEW t \in f[m] PROVE RunOk(t, m)
    <3>1. PICK run \in f[l] : t \in Popped(run)
      BY <2>6
    <3>2. RunOk(run, l)
      BY <2>5
    <3> QED
      BY <2>3, <3>1, <3>2, PoppedOk
  <2>8. f[m] # {}
    <3>1. PICK run \in f[l] : RunOk(run, l)
      BY <2>5
    <3>2. Popped(run) # {}
      BY <3>1, PoppedOk
    <3> QED
      BY <2>6, <3>2
  <2> QED
    BY <2>2, <2>7, <2>8
<1>5. Right(count)
  <2>1. count \in 0..count
    OBVIOUS
  <2> QED
    BY <1>4, <2>1
<1>6. ASSUME NEW o \in compute_topological_order PROVE IsOrder(o)
  <2>1. PICK run \in f[count] : Len(run.order) = count /\ o = run.order
    BY <1>2
  <2>2. o \in Seq(DOMAIN nodes) /\ Distinct(o) /\ OrderRight(o)
    BY <1>5, <2>1 DEF RunOk, RunRight, RunDistinct
  <2>3. ToSet(o) = DOMAIN nodes
    BY <1>1, <2>1, <2>2, DistinctFull
  <2> QED
    BY <2>2, <2>3 DEF IsOrder
<1>7. ASSUME HasNoCycle(DOMAIN nodes, edges) PROVE compute_topological_order # {}
  <2>1. PICK run \in f[count] : RunOk(run, count)
    BY <1>5
  <2> DEFINE q == run.queue
             o == run.order
  <2>2. /\ q \in Seq(DOMAIN nodes) /\ o \in Seq(DOMAIN nodes)
        /\ RunDistinct(q, o) /\ QueueRight(q, o)
        /\ q # <<>> => Len(o) = count
    BY <2>1 DEF RunOk, RunRight
  <2>3. q = <<>>
    <3>1. SUFFICES ASSUME q # <<>> PROVE FALSE
      OBVIOUS
    <3>2. Len(o) = Cardinality(DOMAIN nodes) /\ Distinct(o) /\ Distinct(q)
      BY <1>1, <2>2, <3>1 DEF RunDistinct
    <3> HIDE DEF q, o
    <3>3. ToSet(o) = DOMAIN nodes
      BY <2>2, <3>2, DistinctFull
    <3>4. PICK n : n = Head(q) /\ n \in ToSet(q) /\ n \in DOMAIN nodes
      BY <2>2, <3>1, <3>2, DistinctTail
    <3> QED
      BY <2>2, <3>3, <3>4 DEF RunDistinct
  <2> HIDE DEF q, o
  <2>4. ToSet(q) = {}
    BY <2>3 DEF ToSet
  <2>5. ToSet(o) = DOMAIN nodes
    <3> DEFINE S == (DOMAIN nodes) \ ToSet(o)
    <3>1. SUFFICES ASSUME S # {} PROVE FALSE
      BY <2>2, InToSet
    <3>2. S \in (SUBSET DOMAIN nodes) \ {{}}
      <4>1. S \in SUBSET DOMAIN nodes
        OBVIOUS
      <4> HIDE DEF S
      <4> QED
        BY <3>1, <4>1
    <3>3. PICK n \in S : \A m \in S : <<m, n>> \notin edges
      <4> HIDE DEF S
      <4> QED
        BY <1>7, <3>2 DEF HasNoCycle
    <3>4. Waiting(n, o) = {}
      BY <3>3 DEF Waiting
    <3> QED
      BY <2>2, <2>4, <3>3, <3>4 DEF QueueRight
  <2>6. Len(run.order) = count
    <3>1. Distinct(o) /\ o \in Seq(DOMAIN nodes)
      BY <2>2 DEF RunDistinct
    <3>2. Cardinality(ToSet(o)) = Len(o)
      BY <3>1, DistinctCount
    <3> QED
      BY <1>1, <2>5, <3>2 DEF o
  <2>7. run.order \in {r.order : r \in {r1 \in f[count] : Len(r1.order) = count}}
    BY <2>1, <2>6
  <2> QED
    BY <1>2, <2>7
<1> QED
  BY <1>6, <1>7
-----------------------------------------------------------------------------
(* The processing of a block *)

\* The equation of the reference: each node's signal from those of its predecessors.
IsSignal(f, passing) ==
  f = [n \in DOMAIN nodes |->
         Produces(n, UNION {f[m] : m \in predecessors(n, DOMAIN nodes, edges)}, passing)]

\* The Output node, the only one there is.
OneOutput ==
  output_node \in DOMAIN nodes /\ \A n \in DOMAIN nodes : nodes[n].kind = "Output" <=> n = output_node

\* A sum has only the signals of the predecessors.
LEMMA SumSame ==
  ASSUME NEW p, NEW q, NEW n,
         \A m \in predecessors(n, DOMAIN nodes, edges) : p[m] = q[m]
  PROVE  Sum(p, n) = Sum(q, n)
<1>1. {p[m] : m \in predecessors(n, DOMAIN nodes, edges)} =
        {q[m] : m \in predecessors(n, DOMAIN nodes, edges)}
  OBVIOUS
<1> QED
  BY <1>1 DEF Sum

BlockStart == [pool |-> [n \in DOMAIN nodes |-> {}], device |-> {}]
IsBlocks(f, m, o, passing) ==
  f = [k \in 0..m |-> IF k = 0 THEN BlockStart ELSE Turn(f[k - 1], o[k], passing)]

\* The function that process_graph is defined with is there.
LEMMA BlocksExist ==
  ASSUME NEW o, NEW passing
  PROVE  \A m \in Nat : \E f : IsBlocks(f, m, o, passing)
<1> DEFINE T == {m \in Nat : ~\E f : IsBlocks(f, m, o, passing)}
<1>1. SUFFICES ASSUME T # {} PROVE FALSE
  OBVIOUS
<1>2. PICK m \in T : \A y \in T : m <= y
  <2>1. T \in SUBSET Nat
    OBVIOUS
  <2> HIDE DEF T
  <2> QED
    BY <1>1, <2>1, Smallest
<1>3. m \in Nat /\ ~\E f : IsBlocks(f, m, o, passing)
  OBVIOUS
<1>4. CASE m = 0
  <2> DEFINE f == [k \in 0..0 |-> BlockStart]
  <2>1. IsBlocks(f, 0, o, passing)
    BY DEF IsBlocks
  <2> QED
    BY <1>3, <1>4, <2>1
<1>5. CASE m # 0
  <2>1. m - 1 \in Nat /\ m - 1 \notin T
    <3>1. m - 1 \in Nat /\ ~(m <= m - 1)
      BY <1>3, <1>5
    <3> HIDE DEF T
    <3> QED
      BY <1>2, <3>1
  <2>2. PICK g : IsBlocks(g, m - 1, o, passing)
    BY <2>1
  <2> DEFINE f == [k \in 0..m |-> IF k = m THEN Turn(g[m - 1], o[m], passing) ELSE g[k]]
  <2>3. \A k \in 0..m : f[k] = IF k = 0 THEN BlockStart ELSE Turn(f[k - 1], o[k], passing)
    BY <1>3, <1>5, <2>2 DEF IsBlocks
  <2>4. IsBlocks(f, m, o, passing)
    BY <2>3 DEF IsBlocks
  <2> QED
    BY <1>3, <2>4
<1> QED
  BY <1>4, <1>5

\* process_graph turn by turn.
LEMMA BlocksStepwise ==
  ASSUME NEW o \in Seq(DOMAIN nodes), NEW passing
  PROVE  \E f : /\ f[0] = BlockStart
                /\ \A k \in 1..Len(o) : f[k] = Turn(f[k - 1], o[k], passing)
                /\ process_graph(o, passing) = f[Len(o)].device
<1>1. Len(o) \in Nat
  OBVIOUS
<1>2. \E f : IsBlocks(f, Len(o), o, passing)
  BY <1>1, BlocksExist
<1>3. \E f : /\ IsBlocks(f, Len(o), o, passing)
             /\ process_graph(o, passing) = f[Len(o)].device
  BY <1>2, Zenon DEF process_graph, IsBlocks, BlockStart
<1>4. PICK f : /\ IsBlocks(f, Len(o), o, passing)
               /\ process_graph(o, passing) = f[Len(o)].device
  BY <1>3
<1>5. f[0] = BlockStart /\ \A k \in 1..Len(o) : f[k] = Turn(f[k - 1], o[k], passing)
  BY <1>1, <1>4 DEF IsBlocks
<1> QED
  BY <1>4, <1>5

\* After k turns those nodes hold what they make of the buffers as they are now,
\* and the device has what the Output node is given now.
BlockOk(b, k, o, passing) ==
  /\ b.pool = [n \in DOMAIN nodes |-> b.pool[n]]
  /\ \A i \in 1..k : b.pool[o[i]] = Produces(o[i], Sum(b.pool, o[i]), passing)
  /\ \A i \in 1..k : o[i] = output_node => b.device = Sum(b.pool, output_node)

\* The turn of a node disturbs nothing that went before it.
LEMMA TurnOk ==
  ASSUME NEW o, IsOrder(o), OneOutput, NEW passing, NEW k \in Nat, k + 1 \in 1..Len(o),
         NEW b, BlockOk(b, k, o, passing), NEW c, c = Turn(b, o[k + 1], passing)
  PROVE  BlockOk(c, k + 1, o, passing)
<1> DEFINE n == o[k + 1]
           p == b.pool
           r == c.pool
<1>1. /\ o \in Seq(DOMAIN nodes) /\ Distinct(o) /\ ToSet(o) = DOMAIN nodes /\ OrderRight(o)
  BY DEF IsOrder
<1>2. n \in DOMAIN nodes /\ \A i \in 1..k : i \in 1..Len(o) /\ o[i] \in DOMAIN nodes /\ o[i] # n
  <2>1. Len(o) \in Nat /\ \A i \in 1..k : i \in 1..Len(o) /\ i # k + 1
    BY <1>1
  <2>2. \A i \in 1..Len(o) : o[i] \in DOMAIN nodes
    BY <1>1, ElementOfSeq
  <2> QED
    BY <1>1, <2>1, <2>2 DEF Distinct
<1>3. /\ r = [p EXCEPT ![n] = Produces(n, Sum(p, n), passing)]
      /\ c.device = IF nodes[n].kind = "Output" THEN Sum(p, n) ELSE b.device
  BY DEF Turn
<1>4. p = [m \in DOMAIN nodes |-> p[m]]
  BY DEF BlockOk
<1>5. /\ r = [m \in DOMAIN nodes |-> r[m]]
      /\ r[n] = Produces(n, Sum(p, n), passing)
      /\ \A m \in DOMAIN nodes : m # n => r[m] = p[m]
  <2> HIDE DEF n, p, r
  <2> QED
    BY <1>2, <1>3, <1>4
<1>6. ASSUME NEW j \in 1..(k + 1) PROVE Sum(r, o[j]) = Sum(p, o[j])
  <2>1. j \in 1..Len(o)
    BY <1>1
  <2>2. ASSUME NEW m \in predecessors(o[j], DOMAIN nodes, edges) PROVE r[m] = p[m]
    <3>1. m \in DOMAIN nodes /\ <<m, o[j]>> \in edges
      BY <2>2 DEF predecessors
    <3>2. PICK i \in 1..Len(o) : i < j /\ o[i] = m
      BY <1>1, <2>1, <3>1 DEF OrderRight
    <3>3. i \in 1..k
      BY <3>2
    <3>4. m # n
      BY <1>2, <3>2, <3>3
    <3> HIDE DEF n, p, r
    <3> QED
      BY <1>5, <3>1, <3>4
  <2> HIDE DEF n, p, r
  <2> QED
    BY <2>2, SumSame
<1>7. ASSUME NEW i \in 1..(k + 1) PROVE r[o[i]] = Produces(o[i], Sum(r, o[i]), passing)
  <2>1. CASE i \in 1..k
    <3>1. p[o[i]] = Produces(o[i], Sum(p, o[i]), passing)
      BY <2>1 DEF BlockOk
    <3>2. r[o[i]] = p[o[i]]
      <4> HIDE DEF n, p, r
      <4> QED
        BY <1>2, <1>5, <2>1
    <3>3. Sum(r, o[i]) = Sum(p, o[i])
      BY <1>6
    <3> HIDE DEF n, p, r
    <3> QED
      BY <3>1, <3>2, <3>3
  <2>2. CASE i = k + 1
    <3>1. Sum(r, n) = Sum(p, n)
      BY <1>6, <2>2
    <3> HIDE DEF p, r
    <3> QED
      BY <1>5, <2>2, <3>1
  <2> QED
    BY <2>1, <2>2
<1>8. ASSUME NEW i \in 1..(k + 1), o[i] = output_node PROVE c.device = Sum(r, output_node)
  <2>1. Sum(r, output_node) = Sum(p, output_node)
    BY <1>6, <1>8
  <2>2. CASE i \in 1..k
    <3>1. b.device = Sum(p, output_node)
      BY <1>8, <2>2 DEF BlockOk
    <3>2. nodes[n].kind # "Output"
      BY <1>2, <1>8, <2>2 DEF OneOutput
    <3> HIDE DEF n, p, r
    <3> QED
      BY <1>3, <2>1, <3>1, <3>2
  <2>3. CASE i = k + 1
    <3>1. nodes[n].kind = "Output" /\ n = output_node
      BY <1>2, <1>8, <2>3 DEF OneOutput
    <3> HIDE DEF n, p, r
    <3> QED
      BY <1>3, <2>1, <3>1
  <2> QED
    BY <2>2, <2>3
<1> HIDE DEF n, p
<1> QED
  BY <1>5, <1>7, <1>8 DEF BlockOk

\* After the last turn the buffers solve the equation, and the device has what the
\* solution gives.
LEMMA BlockSolves ==
  ASSUME NEW o, IsOrder(o), OneOutput, NEW passing
  PROVE  \E f : /\ IsSignal(f, passing)
                /\ process_graph(o, passing) =
                     UNION {f[m] : m \in predecessors(output_node, DOMAIN nodes, edges)}
<1>1. o \in Seq(DOMAIN nodes) /\ Len(o) \in Nat /\ ToSet(o) = DOMAIN nodes
  BY DEF IsOrder
<1>2. PICK f : /\ f[0] = BlockStart
               /\ \A k \in 1..Len(o) : f[k] = Turn(f[k - 1], o[k], passing)
               /\ process_graph(o, passing) = f[Len(o)].device
  BY <1>1, BlocksStepwise
<1> DEFINE Right(k) == BlockOk(f[k], k, o, passing)
           T == {k \in 0..Len(o) : ~Right(k)}
<1>3. Right(0)
  <2>1. 1..0 = {}
    OBVIOUS
  <2>2. f[0].pool = [n \in DOMAIN nodes |-> {}]
    BY <1>2 DEF BlockStart
  <2>3. f[0].pool = [n \in DOMAIN nodes |-> f[0].pool[n]]
    BY <2>2
  <2> QED
    BY <2>1, <2>3 DEF BlockOk
<1>4. ASSUME T # {} PROVE FALSE
  <2>1. PICK m \in T : \A y \in T : m <= y
    <3>1. T \in SUBSET Nat
      BY <1>1
    <3> HIDE DEF T
    <3> QED
      BY <1>4, <3>1, Smallest
  <2>2. m \in 1..Len(o) /\ ~Right(m)
    BY <1>1, <1>3
  <2>3. PICK l \in Nat : l = m - 1 /\ m = l + 1
    BY <2>2
  <2>4. l \in 0..Len(o) /\ l \notin T
    BY <1>1, <2>1, <2>2, <2>3
  <2>5. Right(l)
    BY <2>4
  <2>6. f[m] = Turn(f[l], o[l + 1], passing) /\ l + 1 \in 1..Len(o)
    BY <1>2, <2>2, <2>3
  <2>7. BlockOk(f[m], l + 1, o, passing)
    BY <2>5, <2>6, TurnOk
  <2> QED
    BY <2>2, <2>3, <2>7
<1>5. Right(Len(o))
  <2>1. Len(o) \in 0..Len(o)
    BY <1>1
  <2> QED
    BY <1>4, <2>1
<1>6. PICK b : b = f[Len(o)] /\ BlockOk(b, Len(o), o, passing)
  BY <1>5
<1>7. PICK p : p = b.pool /\ p = [n \in DOMAIN nodes |-> p[n]]
  BY <1>6 DEF BlockOk
<1>8. ASSUME NEW n \in DOMAIN nodes PROVE \E i \in 1..Len(o) : n = o[i]
  BY <1>1, InToSet
<1>9. ASSUME NEW n \in DOMAIN nodes
      PROVE  p[n] = Produces(n, UNION {p[m] : m \in predecessors(n, DOMAIN nodes, edges)}, passing)
  <2>1. PICK i \in 1..Len(o) : n = o[i]
    BY <1>8
  <2>2. p[o[i]] = Produces(o[i], Sum(p, o[i]), passing)
    BY <1>6, <1>7 DEF BlockOk
  <2>3. p[n] = Produces(n, Sum(p, n), passing)
    BY <2>1, <2>2
  <2> QED
    BY <2>3, Zenon DEF Sum
<1>10. IsSignal(p, passing)
  BY <1>7, <1>9 DEF IsSignal
<1>11. b.device = UNION {p[m] : m \in predecessors(output_node, DOMAIN nodes, edges)}
  <2>1. PICK i \in 1..Len(o) : output_node = o[i]
    BY <1>8 DEF OneOutput
  <2> QED
    BY <1>6, <1>7, <2>1 DEF BlockOk, Sum
<1> QED
  BY <1>2, <1>6, <1>10, <1>11

\* The equation has one solution.
LEMMA SignalUnique ==
  ASSUME NEW o, IsOrder(o), NEW passing, NEW f, IsSignal(f, passing), NEW g, IsSignal(g, passing)
  PROVE  f = g
<1>1. o \in Seq(DOMAIN nodes) /\ Len(o) \in Nat /\ ToSet(o) = DOMAIN nodes /\ OrderRight(o)
  BY DEF IsOrder
<1> DEFINE T == {i \in 1..Len(o) : f[o[i]] # g[o[i]]}
<1>2. ASSUME T # {} PROVE FALSE
  <2>1. PICK j \in T : \A y \in T : j <= y
    <3>1. T \in SUBSET Nat
      BY <1>1
    <3> HIDE DEF T
    <3> QED
      BY <1>2, <3>1, Smallest
  <2>2. j \in 1..Len(o) /\ f[o[j]] # g[o[j]] /\ o[j] \in DOMAIN nodes
    BY <1>1, ElementOfSeq
  <2>3. ASSUME NEW m \in predecessors(o[j], DOMAIN nodes, edges) PROVE f[m] = g[m]
    <3>1. m \in DOMAIN nodes /\ <<m, o[j]>> \in edges
      BY <2>3 DEF predecessors
    <3>2. PICK i \in 1..Len(o) : i < j /\ o[i] = m
      BY <1>1, <2>2, <3>1 DEF OrderRight
    <3>3. i \notin T
      <4>1. ~(j <= i)
        BY <2>2, <3>2
      <4> HIDE DEF T
      <4> QED
        BY <2>1, <4>1
    <3> QED
      BY <3>2, <3>3
  <2>4. Sum(f, o[j]) = Sum(g, o[j])
    BY <2>3, SumSame
  <2>5. f[o[j]] = Produces(o[j], Sum(f, o[j]), passing)
    BY <2>2 DEF IsSignal, Sum
  <2>6. g[o[j]] = Produces(o[j], Sum(g, o[j]), passing)
    BY <2>2 DEF IsSignal, Sum
  <2> QED
    BY <2>2, <2>4, <2>5, <2>6
<1>3. ASSUME NEW n \in DOMAIN nodes PROVE f[n] = g[n]
  <2>1. PICK i \in 1..Len(o) : n = o[i]
    BY <1>1, InToSet
  <2> QED
    BY <1>2, <2>1
<1>4. f = [n \in DOMAIN nodes |-> f[n]] /\ g = [n \in DOMAIN nodes |-> g[n]]
  BY DEF IsSignal
<1> QED
  BY <1>3, <1>4

\* A block along an order gives the device what the graph says.
LEMMA BlockIsSignal ==
  ASSUME cached_order # NoOrder => IsOrder(cached_order), OneOutput
  PROVE  DeviceGetsTheGraph
<1> SUFFICES ASSUME cached_order # NoOrder, NEW passing \in SUBSET OfKind("Plugin")
             PROVE  process_graph(cached_order, passing) =
                      UNION {(CHOOSE f : IsSignal(f, passing))[m] :
                               m \in predecessors(output_node, DOMAIN nodes, edges)}
  BY Zenon DEF DeviceGetsTheGraph, IsSignal
<1>1. IsOrder(cached_order)
  OBVIOUS
<1>2. PICK f : /\ IsSignal(f, passing)
               /\ process_graph(cached_order, passing) =
                    UNION {f[m] : m \in predecessors(output_node, DOMAIN nodes, edges)}
  BY <1>1, BlockSolves
<1>3. IsSignal((CHOOSE g : IsSignal(g, passing)), passing)
  BY <1>2, Zenon
<1>4. f = (CHOOSE g : IsSignal(g, passing))
  BY <1>1, <1>2, <1>3, SignalUnique, Zenon
<1> QED
  BY <1>2, <1>4, Zenon
-----------------------------------------------------------------------------
(* The neighbours in a chain *)

Kept(s, n) == IF nodes[n].kind \in {"Input", "Output"} THEN s ELSE Append(s, n)
IsInner(f, m, o) == f = [k \in 0..m |-> IF k = 0 THEN <<>> ELSE Kept(f[k - 1], o[k])]

\* The function that Inner is defined with is there.
LEMMA InnerExists ==
  ASSUME NEW o
  PROVE  \A m \in Nat : \E f : IsInner(f, m, o)
<1> DEFINE T == {m \in Nat : ~\E f : IsInner(f, m, o)}
<1>1. SUFFICES ASSUME T # {} PROVE FALSE
  OBVIOUS
<1>2. PICK m \in T : \A y \in T : m <= y
  <2>1. T \in SUBSET Nat
    OBVIOUS
  <2> HIDE DEF T
  <2> QED
    BY <1>1, <2>1, Smallest
<1>3. m \in Nat /\ ~\E f : IsInner(f, m, o)
  OBVIOUS
<1>4. CASE m = 0
  <2> DEFINE f == [k \in 0..0 |-> <<>>]
  <2>1. IsInner(f, 0, o)
    BY DEF IsInner
  <2> QED
    BY <1>3, <1>4, <2>1
<1>5. CASE m # 0
  <2>1. m - 1 \in Nat /\ m - 1 \notin T
    <3>1. m - 1 \in Nat /\ ~(m <= m - 1)
      BY <1>3, <1>5
    <3> HIDE DEF T
    <3> QED
      BY <1>2, <3>1
  <2>2. PICK g : IsInner(g, m - 1, o)
    BY <2>1
  <2> DEFINE f == [k \in 0..m |-> IF k = m THEN Kept(g[m - 1], o[m]) ELSE g[k]]
  <2>3. \A k \in 0..m : f[k] = IF k = 0 THEN <<>> ELSE Kept(f[k - 1], o[k])
    BY <1>3, <1>5, <2>2 DEF IsInner
  <2>4. IsInner(f, m, o)
    BY <2>3 DEF IsInner
  <2> QED
    BY <1>3, <2>4
<1> QED
  BY <1>4, <1>5

\* Inner node by node.
LEMMA InnerStepwise ==
  ASSUME NEW o \in Seq(DOMAIN nodes)
  PROVE  \E f : /\ f[0] = <<>>
                /\ \A k \in 1..Len(o) : f[k] = Kept(f[k - 1], o[k])
                /\ Inner(o) = f[Len(o)]
<1>1. Len(o) \in Nat
  OBVIOUS
<1>2. \E f : IsInner(f, Len(o), o)
  BY <1>1, InnerExists
<1>3. \E f : IsInner(f, Len(o), o) /\ Inner(o) = f[Len(o)]
  BY <1>2, Zenon DEF Inner, IsInner, Kept
<1>4. PICK f : IsInner(f, Len(o), o) /\ Inner(o) = f[Len(o)]
  BY <1>3
<1>5. /\ f[0] = <<>>
      /\ \A k \in 1..Len(o) : f[k] = Kept(f[k - 1], o[k])
  BY <1>1, <1>4 DEF IsInner
<1> QED
  BY <1>4, <1>5

\* The nodes between Input and Output are nodes.
LEMMA InnerTyped ==
  ASSUME NEW o \in Seq(DOMAIN nodes)
  PROVE  Inner(o) \in Seq(DOMAIN nodes)
<1>1. PICK f : /\ f[0] = <<>>
               /\ \A k \in 1..Len(o) : f[k] = Kept(f[k - 1], o[k])
               /\ Inner(o) = f[Len(o)]
  BY InnerStepwise
<1> DEFINE T == {k \in 0..Len(o) : f[k] \notin Seq(DOMAIN nodes)}
<1>2. ASSUME T # {} PROVE FALSE
  <2>1. PICK m \in T : \A y \in T : m <= y
    <3>1. T \in SUBSET Nat
      OBVIOUS
    <3> HIDE DEF T
    <3> QED
      BY <1>2, <3>1, Smallest
  <2>2. m \in 1..Len(o) /\ f[m] \notin Seq(DOMAIN nodes)
    <3>1. f[0] \in Seq(DOMAIN nodes)
      BY <1>1
    <3> QED
      BY <3>1
  <2>3. m - 1 \in 0..Len(o) /\ m - 1 \notin T
    BY <2>1, <2>2
  <2>4. f[m - 1] \in Seq(DOMAIN nodes) /\ o[m] \in DOMAIN nodes
    BY <2>2, <2>3, ElementOfSeq
  <2>5. f[m] = Kept(f[m - 1], o[m])
    BY <1>1, <2>2
  <2>6. PICK c \in Seq(DOMAIN nodes), n \in DOMAIN nodes : c = f[m - 1] /\ n = o[m]
    BY <2>4
  <2>7. Append(c, n) \in Seq(DOMAIN nodes)
    BY <2>6, AppendProperties, Zenon
  <2>8. Kept(c, n) \in Seq(DOMAIN nodes)
    BY <2>6, <2>7, Zenon DEF Kept
  <2> QED
    BY <2>2, <2>5, <2>6, <2>8
<1> QED
  BY <1>1, <1>2

\* The two neighbours are nodes.
LEMMA NeighboursTyped ==
  ASSUME NEW o \in Seq(DOMAIN nodes), NEW position \in Nat \ {0},
         input_node \in DOMAIN nodes, output_node \in DOMAIN nodes
  PROVE  /\ Before(Inner(o), position) \in DOMAIN nodes
         /\ After(Inner(o), position) \in DOMAIN nodes
<1>1. PICK s \in Seq(DOMAIN nodes) : s = Inner(o)
  BY InnerTyped
<1>2. Len(s) \in Nat /\ \A i \in 1..Len(s) : s[i] \in DOMAIN nodes
  BY <1>1, ElementOfSeq
<1>3. Before(s, position) \in DOMAIN nodes
  <2>1. s # <<>> => Len(s) \in 1..Len(s)
    BY <1>1
  <2>2. position # 1 /\ position <= Len(s) + 1 => position - 1 \in 1..Len(s)
    BY <1>2
  <2> QED
    BY <1>2, <2>1, <2>2 DEF Before, Last
<1>4. After(s, position) \in DOMAIN nodes
  BY <1>2 DEF After
<1> QED
  BY <1>1, <1>3, <1>4

-----------------------------------------------------------------------------
(* Graphs without a cycle *)

\* With nodes and edges taken away a graph has no cycle if it had none.
LEMMA SmallerNoCycle ==
  ASSUME NEW ids, NEW graph, HasNoCycle(ids, graph),
         NEW ids2 \in SUBSET ids, NEW graph2 \in SUBSET graph
  PROVE  HasNoCycle(ids2, graph2)
<1> SUFFICES ASSUME NEW S \in (SUBSET ids2) \ {{}}
             PROVE  \E n \in S : \A m \in S : <<m, n>> \notin graph2
  BY DEF HasNoCycle
<1>1. S \in (SUBSET ids) \ {{}}
  OBVIOUS
<1>2. PICK n \in S : \A m \in S : <<m, n>> \notin graph
  BY <1>1 DEF HasNoCycle
<1> QED
  BY <1>2

\* A new node from which no edge leads closes no cycle.
LEMMA SinkNoCycle ==
  ASSUME NEW ids, NEW graph, HasNoCycle(ids, graph), NEW new,
         NEW graph2, \A m, n \in ids : <<m, n>> \in graph2 => <<m, n>> \in graph,
         \A n \in ids \cup {new} : <<new, n>> \notin graph2
  PROVE  HasNoCycle(ids \cup {new}, graph2)
<1> SUFFICES ASSUME NEW S \in (SUBSET (ids \cup {new})) \ {{}}
             PROVE  \E n \in S : \A m \in S : <<m, n>> \notin graph2
  BY DEF HasNoCycle
<1>1. CASE S \ {new} = {}
  <2>1. S = {new}
    BY <1>1
  <2> QED
    BY <2>1
<1>2. CASE S \ {new} # {}
  <2>1. S \ {new} \in (SUBSET ids) \ {{}}
    BY <1>2
  <2>2. PICK n \in S \ {new} : \A m \in S \ {new} : <<m, n>> \notin graph
    BY <2>1 DEF HasNoCycle
  <2>3. \A m \in S : <<m, n>> \notin graph2
    BY <2>2
  <2> QED
    BY <2>3
<1> QED
  BY <1>1, <1>2

\* A path that names each node once has no cycle.
LEMMA PathNoCycle ==
  ASSUME NEW ids, NEW p \in Seq(ids), Distinct(p), NEW S \in (SUBSET ToSet(p)) \ {{}}
  PROVE  \E n \in S : \A m \in S : <<m, n>> \notin Consecutive(p)
<1> DEFINE T == {i \in 1..Len(p) : p[i] \in S}
<1>1. T \in SUBSET Nat /\ T # {}
  <2>1. PICK x : x \in S /\ x \in ToSet(p)
    OBVIOUS
  <2>2. PICK i \in 1..Len(p) : x = p[i]
    BY <2>1, InToSet
  <2>3. i \in T
    BY <2>1, <2>2
  <2> QED
    BY <2>3
<1>2. PICK j \in T : \A y \in T : j <= y
  <2> HIDE DEF T
  <2> QED
    BY <1>1, Smallest
<1>3. ASSUME NEW m \in S, <<m, p[j]>> \in Consecutive(p) PROVE FALSE
  <2>1. PICK i \in 1..(Len(p) - 1) : m = p[i] /\ p[j] = p[i + 1]
    BY <1>3 DEF Consecutive
  <2>2. i \in 1..Len(p) /\ i + 1 \in 1..Len(p) /\ j \in 1..Len(p)
    BY <2>1
  <2>3. j = i + 1
    BY <2>1, <2>2 DEF Distinct
  <2>4. i \in T /\ ~(j <= i)
    BY <2>1, <2>2, <2>3
  <2> HIDE DEF T
  <2> QED
    BY <1>2, <2>4
<1>4. p[j] \in S
  OBVIOUS
<1> QED
  BY <1>3, <1>4
-----------------------------------------------------------------------------
(* The inductive invariant *)

NodesTyped ==
  /\ DOMAIN nodes \in SUBSET (0..(next_node_id - 1)) /\ nodes \in [DOMAIN nodes -> Nodes]
  /\ next_node_id \in 2..(MaxId + 1)
EdgesTyped == edges \subseteq (DOMAIN nodes) \X (DOMAIN nodes)

\* There is one Input and one Output.
EndsOk ==
  \E i, o \in DOMAIN nodes : \A n \in DOMAIN nodes :
    (nodes[n].kind = "Input" <=> n = i) /\ (nodes[n].kind = "Output" <=> n = o)

\* A cached order is an order of the graph as it is.
CachedOk == cached_order = NoOrder \/ IsOrder(cached_order)

GraphInv == NodesTyped /\ EdgesTyped /\ EndsOk /\ Acyclic /\ CachedOk

\* Identifiers are numbers below the next one, so there are finitely many nodes.
LEMMA InvFinite ==
  ASSUME NodesTyped
  PROVE  IsFiniteSet(DOMAIN nodes) /\ next_node_id \in Nat \ {0, 1} /\ next_node_id \notin DOMAIN nodes
<1>1. next_node_id \in Nat \ {0, 1} /\ next_node_id - 1 \in Nat
  BY AudioGraphAssumption DEF NodesTyped
<1>2. IsFiniteSet(DOMAIN nodes)
  BY <1>1, IdsFinite DEF NodesTyped
<1>3. next_node_id \notin 0..(next_node_id - 1)
  BY <1>1
<1> QED
  BY <1>1, <1>2, <1>3 DEF NodesTyped

\* What input_node and output_node find.
LEMMA InvEnds ==
  ASSUME EndsOk
  PROVE  /\ input_node \in DOMAIN nodes /\ nodes[input_node].kind = "Input"
         /\ \A n \in DOMAIN nodes : nodes[n].kind = "Input" <=> n = input_node
         /\ OneOutput /\ nodes[output_node].kind = "Output" /\ input_node # output_node
<1>1. PICK i, o \in DOMAIN nodes : \A n \in DOMAIN nodes :
        (nodes[n].kind = "Input" <=> n = i) /\ (nodes[n].kind = "Output" <=> n = o)
  BY DEF EndsOk
<1>2. input_node \in DOMAIN nodes /\ nodes[input_node].kind = "Input"
  <2>1. \E n \in DOMAIN nodes : nodes[n].kind = "Input"
    BY <1>1
  <2> QED
    BY <2>1, Zenon DEF input_node
<1>3. output_node \in DOMAIN nodes /\ nodes[output_node].kind = "Output"
  <2>1. \E n \in DOMAIN nodes : nodes[n].kind = "Output"
    BY <1>1
  <2> QED
    BY <2>1, Zenon DEF output_node
<1>4. input_node = i /\ output_node = o
  BY <1>1, <1>2, <1>3
<1>5. OneOutput
  BY <1>1, <1>3, <1>4 DEF OneOutput
<1>6. input_node # output_node
  BY <1>2, <1>3
<1> QED
  BY <1>1, <1>2, <1>3, <1>4, <1>5, <1>6

\* AudioGraph::new: Input, Output and the edge between them.
LEMMA InitInv == Init => GraphInv
<1> SUFFICES ASSUME Init PROVE GraphInv
  OBVIOUS
<1>1. /\ DOMAIN nodes = {0, 1} /\ nodes[0] = Node("Input", 0) /\ nodes[1] = Node("Output", 0)
      /\ edges = {<<0, 1>>} /\ next_node_id = 2 /\ cached_order = NoOrder
      /\ nodes = [n \in {0, 1} |-> IF n = 0 THEN Node("Input", 0) ELSE Node("Output", 0)]
  BY DEF Init
<1>2. NodesTyped
  <2>1. Node("Input", 0) \in Nodes /\ Node("Output", 0) \in Nodes
    BY DEF Node, Nodes
  <2>2. nodes \in [DOMAIN nodes -> Nodes]
    BY <1>1, <2>1
  <2>3. {0, 1} \in SUBSET (0..(2 - 1)) /\ 2 \in 2..(MaxId + 1)
    BY AudioGraphAssumption
  <2> QED
    BY <1>1, <2>2, <2>3 DEF NodesTyped
<1>3. EdgesTyped
  BY <1>1 DEF EdgesTyped
<1>4. EndsOk
  <2>1. /\ nodes[0].kind = "Input" /\ nodes[1].kind = "Output"
        /\ 0 \in DOMAIN nodes /\ 1 \in DOMAIN nodes
    BY <1>1 DEF Node
  <2>2. \A n \in DOMAIN nodes :
          (nodes[n].kind = "Input" <=> n = 0) /\ (nodes[n].kind = "Output" <=> n = 1)
    BY <1>1, <2>1
  <2> QED
    BY <2>1, <2>2 DEF EndsOk
<1>5. Acyclic
  <2> SUFFICES ASSUME NEW S \in (SUBSET DOMAIN nodes) \ {{}}
               PROVE  \E n \in S : \A m \in S : <<m, n>> \notin edges
    BY DEF Acyclic, HasNoCycle
  <2>1. CASE 0 \in S
    BY <1>1, <2>1
  <2>2. CASE 0 \notin S
    <3>1. \A m \in S : m = 1
      BY <1>1, <2>2
    <3> QED
      BY <1>1, <3>1
  <2> QED
    BY <2>1, <2>2
<1> QED
  BY <1>1, <1>2, <1>3, <1>4, <1>5 DEF GraphInv, CachedOk

\* What topological_order gives is an order; with no cycle it gives one.
LEMMA OrdersAre ==
  ASSUME GraphInv
  PROVE  (\A o \in Orders : IsOrder(o)) /\ Orders # {} /\ OrdersOrEmpty = Orders
<1>1. /\ \A o \in compute_topological_order : IsOrder(o)
      /\ compute_topological_order # {}
  BY InvFinite, OrdersComputed DEF GraphInv, Acyclic
<1>2. cached_order # NoOrder => IsOrder(cached_order)
  BY DEF GraphInv, CachedOk
<1>3. (\A o \in Orders : IsOrder(o)) /\ Orders # {}
  BY <1>1, <1>2 DEF Orders
<1> QED
  BY <1>3 DEF OrdersOrEmpty

\* The order that is cached.
LEMMA OrderStep ==
  ASSUME GraphInv, topological_order
  PROVE  GraphInv'
<1>1. UNCHANGED <<nodes, edges, next_node_id>> /\ cached_order' \in Orders
  BY DEF topological_order
<1>2. IsOrder(cached_order')
  BY <1>1, OrdersAre
<1>3. CachedOk'
  BY <1>1, <1>2 DEF CachedOk, IsOrder, OrderRight
<1>4. NodesTyped'
  BY <1>1 DEF GraphInv, NodesTyped
<1>5. EdgesTyped'
  BY <1>1 DEF GraphInv, EdgesTyped
<1>6. EndsOk'
  BY <1>1 DEF GraphInv, EndsOk
<1>7. Acyclic'
  BY <1>1 DEF GraphInv, Acyclic
<1> QED
  BY <1>3, <1>4, <1>5, <1>6, <1>7 DEF GraphInv

\* A node more.
Added(new, old, id, node) ==
  new = [n \in (DOMAIN old) \cup {id} |-> IF n = id THEN node ELSE old[n]]

\* Types and ends are kept; the other nodes are as before.
LEMMA NodeAdded ==
  ASSUME NodesTyped, EndsOk, next_node_id <= MaxId, next_node_id' = next_node_id + 1,
         NEW node \in Nodes, node.kind \notin {"Input", "Output"},
         Added(nodes', nodes, next_node_id, node)
  PROVE  /\ NodesTyped' /\ EndsOk' /\ DOMAIN nodes' = (DOMAIN nodes) \cup {next_node_id}
         /\ \A n \in DOMAIN nodes : nodes'[n] = nodes[n]
         /\ nodes'[next_node_id] = node
<1>1. next_node_id \in Nat \ {0, 1} /\ next_node_id \notin DOMAIN nodes
  BY InvFinite
<1>2. /\ DOMAIN nodes' = (DOMAIN nodes) \cup {next_node_id}
      /\ \A n \in DOMAIN nodes : nodes'[n] = nodes[n]
      /\ nodes'[next_node_id] = node
  BY <1>1 DEF Added
<1>3. NodesTyped'
  <2>1. DOMAIN nodes' \in SUBSET (0..(next_node_id' - 1)) /\ next_node_id' \in 2..(MaxId + 1)
    BY <1>1, <1>2, AudioGraphAssumption DEF NodesTyped
  <2>2. \A n \in DOMAIN nodes : nodes[n] \in Nodes
    BY DEF NodesTyped
  <2>3. nodes' \in [DOMAIN nodes' -> Nodes]
    BY <1>2, <2>2 DEF Added
  <2> QED
    BY <2>1, <2>3 DEF NodesTyped
<1>4. EndsOk'
  <2>1. PICK i, o \in DOMAIN nodes : \A n \in DOMAIN nodes :
          (nodes[n].kind = "Input" <=> n = i) /\ (nodes[n].kind = "Output" <=> n = o)
    BY DEF EndsOk
  <2>2. \A n \in DOMAIN nodes' :
          (nodes'[n].kind = "Input" <=> n = i) /\ (nodes'[n].kind = "Output" <=> n = o)
    BY <1>1, <1>2, <2>1
  <2>3. i \in DOMAIN nodes' /\ o \in DOMAIN nodes'
    BY <1>2
  <2> QED
    BY <2>2, <2>3 DEF EndsOk
<1> QED
  BY <1>2, <1>3, <1>4

\* add_node: nothing leads to or from the node.
LEMMA AddStep ==
  ASSUME GraphInv, NEW kind \in Kinds, NEW slot \in Nat, add_node(kind, slot)
  PROVE  GraphInv'
<1>1. /\ next_node_id <= MaxId /\ next_node_id' = next_node_id + 1
      /\ Added(nodes', nodes, next_node_id, Node(kind, slot))
      /\ cached_order' = NoOrder /\ edges' = edges
  BY DEF add_node, Added
<1>2. Node(kind, slot) \in Nodes /\ Node(kind, slot).kind \notin {"Input", "Output"}
  BY AudioGraphAssumption DEF Node, Nodes
<1>3. /\ NodesTyped' /\ EndsOk' /\ DOMAIN nodes' = (DOMAIN nodes) \cup {next_node_id}
  BY <1>1, <1>2, NodeAdded DEF GraphInv
<1>4. \A m, n : <<m, n>> \in edges => m \in DOMAIN nodes /\ n \in DOMAIN nodes
  BY DEF GraphInv, EdgesTyped
<1>5. EdgesTyped'
  BY <1>1, <1>3 DEF GraphInv, EdgesTyped
<1>6. Acyclic'
  <2>1. next_node_id \notin DOMAIN nodes
    BY InvFinite DEF GraphInv
  <2>2. HasNoCycle((DOMAIN nodes) \cup {next_node_id}, edges)
    BY <1>4, <2>1, SinkNoCycle DEF GraphInv, Acyclic
  <2> QED
    BY <1>1, <1>3, <2>2 DEF Acyclic
<1> QED
  BY <1>1, <1>3, <1>5, <1>6 DEF GraphInv, CachedOk

\* remove_node: the edges go with the node, so the graph is a part of what it was.
LEMMA RemoveStep ==
  ASSUME GraphInv, NEW k \in DOMAIN nodes, remove_node(k)
  PROVE  GraphInv'
<1>1. /\ nodes[k].kind \notin {"Input", "Output"}
      /\ nodes' = [m \in (DOMAIN nodes) \ {k} |-> nodes[m]]
      /\ edges' = {e \in edges : k \notin {e[1], e[2]}}
      /\ cached_order' = NoOrder /\ next_node_id' = next_node_id
  BY DEF remove_node
<1>2. /\ DOMAIN nodes' = (DOMAIN nodes) \ {k}
      /\ \A n \in DOMAIN nodes' : nodes'[n] = nodes[n]
  BY <1>1
<1>3. NodesTyped'
  <2>1. \A n \in DOMAIN nodes : nodes[n] \in Nodes
    BY DEF GraphInv, NodesTyped
  <2>2. nodes' \in [DOMAIN nodes' -> Nodes]
    BY <1>1, <1>2, <2>1
  <2> QED
    BY <1>1, <1>2, <2>2 DEF GraphInv, NodesTyped
<1>4. EdgesTyped'
  BY <1>1, <1>2 DEF GraphInv, EdgesTyped
<1>5. EndsOk'
  <2>1. PICK i, o \in DOMAIN nodes : \A n \in DOMAIN nodes :
          (nodes[n].kind = "Input" <=> n = i) /\ (nodes[n].kind = "Output" <=> n = o)
    BY DEF GraphInv, EndsOk
  <2>2. \A n \in DOMAIN nodes' :
          (nodes'[n].kind = "Input" <=> n = i) /\ (nodes'[n].kind = "Output" <=> n = o)
    BY <1>2, <2>1
  <2>3. i \in DOMAIN nodes' /\ o \in DOMAIN nodes'
    BY <1>1, <1>2, <2>1
  <2> QED
    BY <2>2, <2>3 DEF EndsOk
<1>6. Acyclic'
  <2>1. DOMAIN nodes' \in SUBSET DOMAIN nodes /\ edges' \in SUBSET edges
    BY <1>1, <1>2
  <2> QED
    BY <2>1, SmallerNoCycle DEF GraphInv, Acyclic
<1> QED
  BY <1>1, <1>3, <1>4, <1>5, <1>6 DEF GraphInv, CachedOk

\* connect: the edge was tried with has_cycle, which is right.
LEMMA ConnectStep ==
  ASSUME GraphInv, NEW from \in DOMAIN nodes, NEW to \in DOMAIN nodes, connect(from, to)
  PROVE  GraphInv'
<1>1. /\ ~has_cycle(DOMAIN nodes, edges \cup {<<from, to>>})
      /\ edges' = edges \cup {<<from, to>>}
      /\ cached_order' = NoOrder /\ nodes' = nodes /\ next_node_id' = next_node_id
  BY DEF connect
<1>2. NodesTyped'
  BY <1>1 DEF GraphInv, NodesTyped
<1>3. EdgesTyped'
  BY <1>1 DEF GraphInv, EdgesTyped
<1>4. EndsOk'
  BY <1>1 DEF GraphInv, EndsOk
<1>5. Acyclic'
  <2>1. IsFiniteSet(DOMAIN nodes)
    BY InvFinite DEF GraphInv
  <2>2. HasNoCycle(DOMAIN nodes, edges \cup {<<from, to>>})
    BY <1>1, <2>1, CycleFound, Zenon
  <2> QED
    BY <1>1, <2>2 DEF Acyclic
<1> QED
  BY <1>1, <1>2, <1>3, <1>4, <1>5 DEF GraphInv, CachedOk

\* disconnect: fewer edges.
LEMMA DisconnectStep ==
  ASSUME GraphInv, NEW from \in DOMAIN nodes, NEW to \in DOMAIN nodes, disconnect(from, to)
  PROVE  GraphInv'
<1>1. /\ edges' = edges \ {<<from, to>>}
      /\ cached_order' = NoOrder /\ nodes' = nodes /\ next_node_id' = next_node_id
  BY DEF disconnect
<1>2. NodesTyped'
  BY <1>1 DEF GraphInv, NodesTyped
<1>3. EdgesTyped'
  BY <1>1 DEF GraphInv, EdgesTyped
<1>4. EndsOk'
  BY <1>1 DEF GraphInv, EndsOk
<1>5. Acyclic'
  <2>1. DOMAIN nodes' \in SUBSET DOMAIN nodes /\ edges' \in SUBSET edges
    BY <1>1
  <2> QED
    BY <2>1, SmallerNoCycle DEF GraphInv, Acyclic
<1> QED
  BY <1>1, <1>2, <1>3, <1>4, <1>5 DEF GraphInv, CachedOk

\* adjust_slot_indices_after_remove: only slots change, which no order depends on.
LEMMA AdjustStep ==
  ASSUME GraphInv, NEW removed \in Nat, adjust_slot_indices_after_remove(removed)
  PROVE  GraphInv'
<1>1. /\ nodes' = [n \in DOMAIN nodes |->
                     [nodes[n] EXCEPT !.slot = IF @ > removed THEN @ - 1 ELSE @]]
      /\ edges' = edges /\ next_node_id' = next_node_id /\ cached_order' = cached_order
  BY DEF adjust_slot_indices_after_remove
<1>2. \A n \in DOMAIN nodes : nodes[n] \in Nodes
  BY DEF GraphInv, NodesTyped
<1>3. /\ DOMAIN nodes' = DOMAIN nodes
      /\ \A n \in DOMAIN nodes : nodes'[n] \in Nodes /\ nodes'[n].kind = nodes[n].kind
  BY <1>1, <1>2 DEF Nodes
<1>4. NodesTyped'
  <2>1. nodes' \in [DOMAIN nodes' -> Nodes]
    BY <1>1, <1>3
  <2> QED
    BY <1>1, <1>3, <2>1 DEF GraphInv, NodesTyped
<1>5. EdgesTyped'
  BY <1>1, <1>3 DEF GraphInv, EdgesTyped
<1>6. EndsOk'
  <2>1. PICK i, o \in DOMAIN nodes : \A n \in DOMAIN nodes :
          (nodes[n].kind = "Input" <=> n = i) /\ (nodes[n].kind = "Output" <=> n = o)
    BY DEF GraphInv, EndsOk
  <2>2. \A n \in DOMAIN nodes' :
          (nodes'[n].kind = "Input" <=> n = i) /\ (nodes'[n].kind = "Output" <=> n = o)
    BY <1>3, <2>1
  <2>3. i \in DOMAIN nodes' /\ o \in DOMAIN nodes'
    BY <1>3
  <2> QED
    BY <2>2, <2>3 DEF EndsOk
<1>7. Acyclic'
  BY <1>1, <1>3 DEF GraphInv, Acyclic
<1>8. CachedOk'
  BY <1>1, <1>3 DEF GraphInv, CachedOk, IsOrder, OrderRight
<1> QED
  BY <1>4, <1>5, <1>6, <1>7, <1>8 DEF GraphInv

\* A path through these nodes that names each once; all but its ends are new.
ChainOf(p, ids, in, out, first, count) ==
  /\ p \in Seq(ids) /\ Distinct(p) /\ ids \in SUBSET ToSet(p)
  /\ \A n \in ids \ {in, out} : n \in first..(first + count - 1)

\* Identifiers that are counted up are distinct.
LEMMA PathDistinct ==
  ASSUME NEW in, NEW out, in # out, NEW first \in Nat, NEW count \in Nat,
         in \in 0..(first - 1), out \in 0..(first - 1),
         NEW p \in Seq(Int), Len(p) = count + 2, p[1] = in, p[count + 2] = out,
         \A i \in 2..(count + 1) : p[i] = first + i - 2,
         NEW ids,
         \A x : x \in ids <=> x \in {in, out} \/ \E i \in 1..count : x = first + i - 1
  PROVE  ChainOf(p, ids, in, out, first, count)
<1>1. \A i \in 1..Len(p) : p[i] \in ids
  <2> SUFFICES ASSUME NEW i \in 1..Len(p) PROVE p[i] \in ids
    OBVIOUS
  <2>1. CASE i = 1
    BY <2>1
  <2>2. CASE i = count + 2
    BY <2>2
  <2>3. CASE i \in 2..(count + 1)
    <3>1. i - 1 \in 1..count /\ p[i] = first + (i - 1) - 1
      BY <2>3
    <3> QED
      BY <3>1
  <2> QED
    BY <2>1, <2>2, <2>3
<1>2. p \in Seq(ids)
  <2>1. Len(p) \in Nat /\ p \in [1..Len(p) -> Int]
    BY LenProperties
  <2>2. p \in [1..Len(p) -> ids]
    BY <1>1, <2>1
  <2> QED
    BY <2>1, <2>2, SeqDef
<1>3. Distinct(p)
  BY DEF Distinct
<1>4. ids \in SUBSET ToSet(p)
  <2>1. ASSUME NEW x \in ids PROVE \E i \in 1..Len(p) : x = p[i]
    <3>1. CASE x = in
      <4>1. 1 \in 1..Len(p) /\ x = p[1]
        BY <3>1
      <4> QED
        BY <4>1
    <3>2. CASE x = out
      <4>1. count + 2 \in 1..Len(p) /\ x = p[count + 2]
        BY <3>2
      <4> QED
        BY <4>1
    <3>3. CASE \E i \in 1..count : x = first + i - 1
      <4>1. PICK i \in 1..count : x = first + i - 1
        BY <3>3
      <4>2. x = p[i + 1] /\ i + 1 \in 1..Len(p)
        BY <4>1
      <4> QED
        BY <4>2
    <3> QED
      BY <3>1, <3>2, <3>3
  <2>2. \A x : (\E i \in 1..Len(p) : x = p[i]) => x \in ToSet(p)
    BY InToSet, Zenon
  <2> QED
    BY <2>1, <2>2
<1>5. \A n \in ids \ {in, out} : n \in first..(first + count - 1)
  OBVIOUS
<1> QED
  BY <1>2, <1>3, <1>4, <1>5 DEF ChainOf

\* What the places of the path hold.
ChainIs(p, new, in, out, first, count) ==
  /\ \A x : x \in ToSet(new) <=> \E i \in 1..count : x = first + i - 1
  /\ p \in Seq(Int) /\ Len(p) = count + 2 /\ p[1] = in /\ p[count + 2] = out
  /\ \A i \in 2..(count + 1) : p[i] = first + i - 2

\* The path that rebuild_serial_chain connects.
LEMMA ChainPath ==
  ASSUME NEW in \in Int, NEW out \in Int, NEW first \in Nat, NEW count \in Nat,
         NEW new, new = [i \in 1..count |-> first + i - 1]
  PROVE  ChainIs(<<in>> \o new \o <<out>>, new, in, out, first, count)
<1>1. /\ new \in Seq(Int) /\ Len(new) = count
      /\ \A i \in 1..count : new[i] = first + i - 1
  OBVIOUS
<1>2. ToSet(new) = {new[i] : i \in 1..count}
  BY DEF ToSet
<1>3. \A x : x \in ToSet(new) <=> \E i \in 1..count : x = first + i - 1
  <2>1. \A x : x \in ToSet(new) <=> \E i \in 1..count : x = new[i]
    BY <1>2, Zenon
  <2> QED
    BY <1>1, <2>1
<1>4. /\ (<<in>> \o new \o <<out>>) \in Seq(Int)
      /\ Len(<<in>> \o new \o <<out>>) = count + 2
      /\ (<<in>> \o new \o <<out>>)[1] = in
      /\ (<<in>> \o new \o <<out>>)[count + 2] = out
      /\ \A i \in 2..(count + 1) : (<<in>> \o new \o <<out>>)[i] = new[i - 1]
  BY <1>1
<1>5. \A i \in 2..(count + 1) : new[i - 1] = first + i - 2
  BY <1>1
<1> QED
  BY <1>3, <1>4, <1>5 DEF ChainIs

\* The edges of a path join its nodes.
LEMMA ConsecutiveTyped ==
  ASSUME NEW ids, NEW p \in Seq(ids)
  PROVE  Consecutive(p) \in SUBSET (ids \X ids)
<1>1. Len(p) \in Nat /\ \A i \in 1..Len(p) : p[i] \in ids
  BY ElementOfSeq
<1>2. \A i \in 1..(Len(p) - 1) : p[i] \in ids /\ p[i + 1] \in ids
  BY <1>1
<1>3. \A i \in 1..(Len(p) - 1) : <<p[i], p[i + 1]>> \in ids \X ids
  BY <1>2
<1> QED
  BY <1>3, Zenon DEF Consecutive

\* rebuild_serial_chain does not look for a cycle: a path through new nodes has none.
LEMMA RebuildStep ==
  ASSUME GraphInv, NEW count \in Nat, NEW slots, slots \in [1..count -> Nat],
         rebuild_serial_chain(slots)
  PROVE  GraphInv'
<1> DEFINE new == [i \in 1..count |-> next_node_id + i - 1]
           ends == {input_node, output_node}
           ids == ends \cup ToSet(new)
           p == <<input_node>> \o new \o <<output_node>>
<1>1. DOMAIN slots = 1..count /\ Len(slots) = count
  OBVIOUS
<1>2. /\ next_node_id + count <= MaxId + 1
      /\ nodes' = [n \in ids |-> IF n \in ends THEN nodes[n]
                                 ELSE Node("Plugin", slots[n - next_node_id + 1])]
      /\ edges' = Consecutive(p)
      /\ next_node_id' = next_node_id + count
      /\ cached_order' = NoOrder
  BY <1>1 DEF rebuild_serial_chain
<1>3. /\ input_node \in DOMAIN nodes /\ nodes[input_node].kind = "Input"
      /\ output_node \in DOMAIN nodes /\ nodes[output_node].kind = "Output"
      /\ input_node # output_node
  BY InvEnds DEF GraphInv, OneOutput
<1>4. /\ next_node_id \in Nat /\ next_node_id >= 2
      /\ DOMAIN nodes \in SUBSET (0..(next_node_id - 1))
      /\ \A n \in DOMAIN nodes : nodes[n] \in Nodes
  BY DEF GraphInv, NodesTyped
<1>5. input_node \in 0..(next_node_id - 1) /\ output_node \in 0..(next_node_id - 1)
  BY <1>3, <1>4
<1>6. /\ p \in Seq(ids) /\ Distinct(p) /\ ids \in SUBSET ToSet(p)
      /\ \A n \in ids \ ends : n \in next_node_id..(next_node_id + count - 1)
  <2>1. input_node \in Int /\ output_node \in Int /\ new = [i \in 1..count |-> next_node_id + i - 1]
    BY <1>5
  <2> HIDE DEF new
  <2>2. ChainIs(p, new, input_node, output_node, next_node_id, count)
    BY <1>4, <2>1, ChainPath, Zenon
  <2>3. \A x : x \in ids <=> \/ x \in {input_node, output_node}
                             \/ \E i \in 1..count : x = next_node_id + i - 1
    BY <2>2 DEF ChainIs
  <2>4. /\ p \in Seq(Int) /\ Len(p) = count + 2
        /\ p[1] = input_node /\ p[count + 2] = output_node
        /\ \A i \in 2..(count + 1) : p[i] = next_node_id + i - 2
    <3> HIDE DEF ids, p
    <3> QED
      BY <2>2 DEF ChainIs
  <2>5. ChainOf(p, ids, input_node, output_node, next_node_id, count)
    <3>1. /\ input_node # output_node /\ next_node_id \in Nat
          /\ input_node \in 0..(next_node_id - 1) /\ output_node \in 0..(next_node_id - 1)
      BY <1>3, <1>4, <1>5
    <3> HIDE DEF ids, p
    <3> QED
      BY <2>3, <2>4, <3>1, PathDistinct, Zenon
  <2> HIDE DEF ids, p
  <2> QED
    BY <2>5 DEF ChainOf
<1>7. DOMAIN nodes' = ids
  BY <1>2
<1>8. \A n \in ids \ ends : nodes'[n] \in Nodes /\ nodes'[n].kind = "Plugin"
  <2> SUFFICES ASSUME NEW n \in ids \ ends
               PROVE  nodes'[n] \in Nodes /\ nodes'[n].kind = "Plugin"
    OBVIOUS
  <2>1. n - next_node_id + 1 \in 1..count
    BY <1>4, <1>6
  <2>2. nodes'[n] = Node("Plugin", slots[n - next_node_id + 1])
    BY <1>2
  <2>3. slots[n - next_node_id + 1] \in Nat
    BY <2>1
  <2> QED
    BY <2>2, <2>3 DEF Node, Nodes
<1>9. \A n \in ends : n \in ids /\ nodes'[n] = nodes[n]
  BY <1>2
<1> HIDE DEF ids, p, new
<1>10. NodesTyped'
  <2>1. \A n \in ids : nodes'[n] \in Nodes
    BY <1>3, <1>4, <1>8, <1>9
  <2>2. nodes' \in [ids -> Nodes]
    BY <1>2, <2>1
  <2>3. ids \in SUBSET (0..(next_node_id + count - 1))
    BY <1>4, <1>5, <1>6
  <2>4. next_node_id + count \in 2..(MaxId + 1)
    BY <1>2, <1>4, AudioGraphAssumption
  <2>5. nodes' \in [DOMAIN nodes' -> Nodes]
    BY <1>7, <2>2, Zenon
  <2>6. DOMAIN nodes' \in SUBSET (0..(next_node_id' - 1)) /\ next_node_id' \in 2..(MaxId + 1)
    <3>1. next_node_id' = next_node_id + count
      BY <1>2
    <3>2. DOMAIN nodes' \in SUBSET (0..(next_node_id + count - 1))
      BY <1>7, <2>3
    <3>3. DOMAIN nodes' \in SUBSET (0..(next_node_id' - 1))
      <4>1. 0..(next_node_id' - 1) = 0..(next_node_id + count - 1)
        BY <1>4, <3>1
      <4> QED
        BY <3>2, <4>1, Zenon
    <3>4. next_node_id' \in 2..(MaxId + 1)
      BY <2>4, <3>1, Zenon
    <3> QED
      BY <3>3, <3>4
  <2> QED
    BY <2>5, <2>6 DEF NodesTyped
<1>11. EdgesTyped'
  <2>1. Consecutive(p) \in SUBSET (ids \X ids)
    BY <1>6, ConsecutiveTyped, Zenon
  <2> QED
    BY <1>2, <1>7, <2>1 DEF EdgesTyped
<1>12. EndsOk'
  <2>1. input_node \in DOMAIN nodes' /\ output_node \in DOMAIN nodes'
    BY <1>7, <1>9
  <2> DEFINE i == input_node
             o == output_node
  <2>2. \A n \in DOMAIN nodes' :
          (nodes'[n].kind = "Input" <=> n = i) /\ (nodes'[n].kind = "Output" <=> n = o)
    BY <1>3, <1>7, <1>8, <1>9
  <2> HIDE DEF i, o
  <2> QED
    BY <2>1, <2>2 DEF EndsOk, i, o
<1>13. Acyclic'
  <2>1. HasNoCycle(ids, Consecutive(p))
    <3> SUFFICES ASSUME NEW S \in (SUBSET ids) \ {{}}
                 PROVE  \E n \in S : \A m \in S : <<m, n>> \notin Consecutive(p)
      BY DEF HasNoCycle
    <3>1. S \in (SUBSET ToSet(p)) \ {{}}
      BY <1>6
    <3> QED
      BY <1>6, <3>1, PathNoCycle
  <2> QED
    BY <1>2, <1>7, <2>1 DEF Acyclic
<1> QED
  BY <1>2, <1>10, <1>11, <1>12, <1>13 DEF GraphInv, CachedOk

\* insert_in_chain: the first edge leads to a new node, the second one is tried.
LEMMA InsertStep ==
  ASSUME GraphInv, NEW position \in Nat \ {0}, NEW slot \in Nat, NEW order \in OrdersOrEmpty,
         insert_in_chain(position, slot, order)
  PROVE  GraphInv'
<1> DEFINE id == next_node_id
           before == Before(Inner(order), position)
           after == After(Inner(order), position)
           ids == (DOMAIN nodes) \cup {id}
           graph == (edges \ {<<before, after>>}) \cup {<<before, id>>}
<1>1. /\ next_node_id <= MaxId
      /\ Added(nodes', nodes, next_node_id, Node("Plugin", slot))
      /\ next_node_id' = next_node_id + 1
      /\ edges' = ConnectedOk(ids, graph, <<id, after>>)
      /\ cached_order' = NoOrder
  BY DEF insert_in_chain, Added
<1>2. order \in Seq(DOMAIN nodes)
  BY OrdersAre DEF IsOrder
<1>3. before \in DOMAIN nodes /\ after \in DOMAIN nodes
  <2>1. input_node \in DOMAIN nodes /\ output_node \in DOMAIN nodes
    BY InvEnds DEF GraphInv, OneOutput
  <2> QED
    BY <1>2, <2>1, NeighboursTyped
<1>4. Node("Plugin", slot) \in Nodes /\ Node("Plugin", slot).kind \notin {"Input", "Output"}
  BY DEF Node, Nodes
<1>5. NodesTyped' /\ EndsOk' /\ DOMAIN nodes' = ids
  BY <1>1, <1>4, NodeAdded DEF GraphInv
<1>6. IsFiniteSet(ids) /\ id \notin DOMAIN nodes
  BY InvFinite, FS_AddElement DEF GraphInv
<1>7. edges' = graph \/ (edges' = graph \cup {<<id, after>>} /\ ~has_cycle(ids, edges'))
  <2> HIDE DEF ids, graph, after
  <2> QED
    BY <1>1 DEF ConnectedOk
<1> HIDE DEF before, after
<1>8. EdgesTyped'
  <2>1. graph \in SUBSET (ids \X ids) /\ graph \cup {<<id, after>>} \in SUBSET (ids \X ids)
    BY <1>3 DEF GraphInv, EdgesTyped
  <2> HIDE DEF ids, graph
  <2> QED
    BY <1>5, <1>7, <2>1 DEF EdgesTyped
<1>9. Acyclic'
  <2>1. HasNoCycle(ids, graph)
    <3>1. \A m, n \in DOMAIN nodes : <<m, n>> \in graph => <<m, n>> \in edges
      BY <1>6
    <3>2. \A n \in ids : <<id, n>> \notin graph
      BY <1>3, <1>6 DEF GraphInv, EdgesTyped
    <3>3. HasNoCycle(DOMAIN nodes, edges)
      BY DEF GraphInv, Acyclic
    <3> HIDE DEF graph
    <3> QED
      BY <3>1, <3>2, <3>3, SinkNoCycle
  <2> HIDE DEF ids, graph
  <2>2. HasNoCycle(ids, edges')
    <3>1. CASE edges' = graph
      BY <2>1, <3>1
    <3>2. CASE ~has_cycle(ids, edges')
      BY <1>6, <3>2, CycleFound, Zenon
    <3> QED
      BY <1>7, <3>1, <3>2
  <2> QED
    BY <1>5, <2>2 DEF Acyclic
<1> QED
  BY <1>1, <1>5, <1>8, <1>9 DEF GraphInv, CachedOk

\* Every operation keeps the invariant.
LEMMA NextKeepsInv ==
  ASSUME GraphInv, [Next]_vars
  PROVE  GraphInv'
<1>1. CASE UNCHANGED vars
  <2>1. UNCHANGED <<nodes, edges, next_node_id, cached_order>>
    BY <1>1 DEF vars
  <2>2. NodesTyped'
    BY <2>1 DEF GraphInv, NodesTyped
  <2>3. EdgesTyped'
    BY <2>1 DEF GraphInv, EdgesTyped
  <2>4. EndsOk'
    BY <2>1 DEF GraphInv, EndsOk
  <2>5. Acyclic'
    BY <2>1 DEF GraphInv, Acyclic
  <2>6. CachedOk'
    BY <2>1 DEF GraphInv, CachedOk, IsOrder, OrderRight
  <2> QED
    BY <2>2, <2>3, <2>4, <2>5, <2>6 DEF GraphInv
<1>2. CASE topological_order
  BY <1>2, OrderStep
<1>3. ASSUME NEW kind \in Kinds, add_node(kind, IF kind = "Plugin" THEN 1 ELSE 0)
      PROVE  GraphInv'
  <2>1. (IF kind = "Plugin" THEN 1 ELSE 0) \in Nat
    OBVIOUS
  <2> QED
    BY <1>3, <2>1, AddStep
<1>4. ASSUME NEW n \in DOMAIN nodes, remove_node(n) PROVE GraphInv'
  BY <1>4, RemoveStep
<1>5. ASSUME NEW from \in DOMAIN nodes, NEW to \in DOMAIN nodes, connect(from, to)
      PROVE  GraphInv'
  BY <1>5, ConnectStep
<1>6. ASSUME NEW from \in DOMAIN nodes, NEW to \in DOMAIN nodes, disconnect(from, to)
      PROVE  GraphInv'
  BY <1>6, DisconnectStep
<1>7. ASSUME NEW n \in 0..2, rebuild_serial_chain([i \in 1..n |-> i]) PROVE GraphInv'
  <2>1. n \in Nat /\ [i \in 1..n |-> i] \in [1..n -> Nat]
    OBVIOUS
  <2> QED
    BY <1>7, <2>1, RebuildStep
<1>8. ASSUME NEW order \in OrdersOrEmpty, NEW position \in 1..3,
             insert_in_chain(position, 3, order)
      PROVE  GraphInv'
  <2>1. position \in Nat \ {0} /\ 3 \in Nat
    OBVIOUS
  <2> QED
    BY <1>8, <2>1, InsertStep
<1>9. CASE adjust_slot_indices_after_remove(2)
  BY <1>9, AdjustStep
<1> QED
  BY <1>1, <1>2, <1>3, <1>4, <1>5, <1>6, <1>7, <1>8, <1>9 DEF Next

\* The inductive invariant: types, one Input and one Output, no cycle, and a
\* cached order that is an order of the graph as it is.
THEOREM GraphInvariant == Spec => []GraphInv
<1>1. Init => GraphInv
  BY InitInv
<1>2. GraphInv /\ [Next]_vars => GraphInv'
  BY NextKeepsInv
<1> QED
  BY <1>1, <1>2, PTL DEF Spec

\* Nodes, edges, the next identifier and the cached order have their types; no
\* edge leads to or from a node that is gone.
THEOREM TypeCorrect == Spec => []TypeOK
<1>1. ASSUME GraphInv PROVE TypeOK
  <2>1. \E used \in SUBSET (0..(next_node_id - 1)) : nodes \in [used -> Nodes]
    BY <1>1 DEF GraphInv, NodesTyped
  <2>2. cached_order = NoOrder \/ cached_order \in Seq(DOMAIN nodes)
    BY <1>1 DEF GraphInv, CachedOk, IsOrder
  <2> QED
    BY <1>1, <2>1, <2>2 DEF TypeOK, GraphInv, NodesTyped, EdgesTyped
<1> QED
  BY <1>1, GraphInvariant, PTL

\* The graph never has a cycle, after whatever operations (connect, which asks
\* has_cycle; rebuild_serial_chain and insert_in_chain, which do not ask or ask
\* for one of two edges).
THEOREM NoCycleEver == Spec => []Acyclic
<1>1. GraphInv => Acyclic
  BY DEF GraphInv
<1> QED
  BY <1>1, GraphInvariant, PTL

\* With a cached order process_graph gives the device what the graph says,
\* whichever plugins pass their input on: no operation leaves an order behind
\* that is not one of the graph (cached_order, process_graph).
THEOREM DeviceIsRight == Spec => []DeviceGetsTheGraph
<1>1. ASSUME GraphInv PROVE DeviceGetsTheGraph
  <2>1. cached_order # NoOrder => IsOrder(cached_order)
    BY <1>1 DEF GraphInv, CachedOk
  <2>2. OneOutput
    BY <1>1, InvEnds DEF GraphInv
  <2> QED
    BY <2>1, <2>2, BlockIsSignal
<1> QED
  BY <1>1, GraphInvariant, PTL

\* topological_order never fails: it always has an order to give, and every one
\* it may give names each node once and after its predecessors.
THEOREM AlwaysOrdered == Spec => [](Orders # {} /\ \A o \in Orders : IsOrder(o))
<1>1. ASSUME GraphInv PROVE Orders # {} /\ \A o \in Orders : IsOrder(o)
  BY <1>1, OrdersAre
<1> QED
  BY <1>1, GraphInvariant, PTL
-----------------------------------------------------------------------------
(* Serial chains *)

\* The graph is the path through the nodes of p, from Input to Output.
ChainOrder(p) ==
  /\ p \in Seq(DOMAIN nodes) /\ Distinct(p) /\ Len(p) >= 2
  /\ \A n \in DOMAIN nodes : \E i \in 1..Len(p) : n = p[i]
  /\ edges = Consecutive(p)
  /\ \A i \in 1..Len(p) :
       nodes[p[i]].kind = IF i = 1 THEN "Input" ELSE IF i = Len(p) THEN "Output" ELSE "Plugin"

\* One node before, one after.
LEMMA SerialNeighbours ==
  ASSUME IsFiniteSet(DOMAIN nodes), is_serial_chain, NEW n \in DOMAIN nodes
  PROVE  /\ nodes[n].kind \in {"Input", "Output", "Plugin"}
         /\ nodes[n].kind # "Input" =>
              \E x \in DOMAIN nodes : \A m \in DOMAIN nodes : <<m, n>> \in edges <=> m = x
         /\ nodes[n].kind # "Output" =>
              \E x \in DOMAIN nodes : \A m \in DOMAIN nodes : <<n, m>> \in edges <=> m = x
<1>1. nodes[n].kind \in {"Input", "Output", "Plugin"}
  BY DEF is_serial_chain
<1>2. ASSUME NEW S \in SUBSET DOMAIN nodes, Cardinality(S) = 1 PROVE \E x : S = {x}
  <2>1. IsFiniteSet(S)
    BY FS_Subset
  <2> QED
    BY <1>2, <2>1, FS_Singleton
<1>3. ASSUME nodes[n].kind # "Input"
      PROVE  \E x \in DOMAIN nodes : \A m \in DOMAIN nodes : <<m, n>> \in edges <=> m = x
  <2>1. Cardinality(predecessors(n, DOMAIN nodes, edges)) = 1
    BY <1>3 DEF is_serial_chain
  <2>2. predecessors(n, DOMAIN nodes, edges) \in SUBSET DOMAIN nodes
    BY DEF predecessors
  <2>3. PICK x : predecessors(n, DOMAIN nodes, edges) = {x}
    BY <1>2, <2>1, <2>2
  <2>4. \A m : m \in predecessors(n, DOMAIN nodes, edges) <=> m = x
    BY <2>3
  <2>5. \A m \in DOMAIN nodes : <<m, n>> \in edges <=> m \in predecessors(n, DOMAIN nodes, edges)
    BY DEF predecessors
  <2>6. x \in DOMAIN nodes
    BY <2>2, <2>4
  <2>7. \A m \in DOMAIN nodes : <<m, n>> \in edges <=> m = x
    BY <2>4, <2>5
  <2> QED
    BY <2>6, <2>7
<1>4. ASSUME nodes[n].kind # "Output"
      PROVE  \E x \in DOMAIN nodes : \A m \in DOMAIN nodes : <<n, m>> \in edges <=> m = x
  <2>1. Cardinality(successors(n, DOMAIN nodes, edges)) = 1
    BY <1>4 DEF is_serial_chain
  <2>2. successors(n, DOMAIN nodes, edges) \in SUBSET DOMAIN nodes
    BY DEF successors
  <2>3. PICK x : successors(n, DOMAIN nodes, edges) = {x}
    BY <1>2, <2>1, <2>2
  <2>4. \A m : m \in successors(n, DOMAIN nodes, edges) <=> m = x
    BY <2>3
  <2>5. \A m \in DOMAIN nodes : <<n, m>> \in edges <=> m \in successors(n, DOMAIN nodes, edges)
    BY DEF successors
  <2>6. x \in DOMAIN nodes
    BY <2>2, <2>4
  <2>7. \A m \in DOMAIN nodes : <<n, m>> \in edges <=> m = x
    BY <2>4, <2>5
  <2> QED
    BY <2>6, <2>7
<1> QED
  BY <1>1, <1>3, <1>4

\* The path is a serial chain.
LEMMA ChainIsSerial ==
  ASSUME NEW p, ChainOrder(p)
  PROVE  is_serial_chain
<1> SUFFICES ASSUME NEW n \in DOMAIN nodes
             PROVE  /\ nodes[n].kind \in {"Input", "Output", "Plugin"}
                    /\ nodes[n].kind # "Input" => Cardinality(predecessors(n, DOMAIN nodes, edges)) = 1
                    /\ nodes[n].kind # "Output" => Cardinality(successors(n, DOMAIN nodes, edges)) = 1
  BY DEF is_serial_chain
<1>1. PICK i \in 1..Len(p) : n = p[i]
  BY DEF ChainOrder
<1>2. /\ Len(p) \in Nat /\ \A j \in 1..Len(p) : p[j] \in DOMAIN nodes
  <2>1. p \in Seq(DOMAIN nodes)
    BY DEF ChainOrder
  <2> QED
    BY <2>1, ElementOfSeq
<1>3. nodes[n].kind = IF i = 1 THEN "Input" ELSE IF i = Len(p) THEN "Output" ELSE "Plugin"
  BY <1>1 DEF ChainOrder
<1>4. \A j, l \in 1..Len(p) : p[j] = p[l] => j = l
  BY DEF ChainOrder, Distinct
<1>5. \A a, b : <<a, b>> \in edges <=> \E j \in 1..(Len(p) - 1) : a = p[j] /\ b = p[j + 1]
  BY DEF ChainOrder, Consecutive
<1>6. ASSUME nodes[n].kind # "Input" PROVE Cardinality(predecessors(n, DOMAIN nodes, edges)) = 1
  <2>1. i # 1
    BY <1>3, <1>6
  <2>2. i - 1 \in 1..(Len(p) - 1) /\ i - 1 \in 1..Len(p) /\ i - 1 + 1 = i
    BY <1>2, <2>1
  <2>3. \A m : <<m, n>> \in edges <=> m = p[i - 1]
    <3>1. <<p[i - 1], n>> \in edges
      BY <1>1, <1>5, <2>2
    <3>2. ASSUME NEW m, <<m, n>> \in edges PROVE m = p[i - 1]
      <4>1. PICK j \in 1..(Len(p) - 1) : m = p[j] /\ n = p[j + 1]
        BY <1>5, <3>2
      <4>2. j + 1 \in 1..Len(p)
        BY <1>2
      <4>3. j + 1 = i
        BY <1>1, <1>4, <4>1, <4>2
      <4>4. j = i - 1
        BY <4>3
      <4> QED
        BY <4>1, <4>4
    <3> QED
      BY <3>1, <3>2
  <2>4. predecessors(n, DOMAIN nodes, edges) = {p[i - 1]}
    BY <1>2, <2>2, <2>3 DEF predecessors
  <2> QED
    BY <2>4, FS_Singleton
<1>7. ASSUME nodes[n].kind # "Output" PROVE Cardinality(successors(n, DOMAIN nodes, edges)) = 1
  <2>1. i # Len(p) \/ i = 1
    BY <1>3, <1>7
  <2>2. i \in 1..(Len(p) - 1) /\ i + 1 \in 1..Len(p)
    BY <1>2, <2>1 DEF ChainOrder
  <2>3. \A m : <<n, m>> \in edges <=> m = p[i + 1]
    <3>1. <<n, p[i + 1]>> \in edges
      BY <1>1, <1>5, <2>2
    <3>2. ASSUME NEW m, <<n, m>> \in edges PROVE m = p[i + 1]
      <4>1. PICK j \in 1..(Len(p) - 1) : n = p[j] /\ m = p[j + 1]
        BY <1>5, <3>2
      <4>2. j \in 1..Len(p)
        BY <1>2
      <4>3. j = i
        BY <1>1, <1>4, <4>1, <4>2
      <4> QED
        BY <4>1, <4>3
    <3> QED
      BY <3>1, <3>2
  <2>4. successors(n, DOMAIN nodes, edges) = {p[i + 1]}
    BY <1>2, <2>2, <2>3 DEF successors
  <2> QED
    BY <2>4, FS_Singleton
<1> QED
  BY <1>3, <1>6, <1>7

\* Any order of a serial chain is the path.
LEMMA SerialOrder ==
  ASSUME IsFiniteSet(DOMAIN nodes), EdgesTyped, EndsOk, is_serial_chain, NEW o, IsOrder(o)
  PROVE  ChainOrder(o)
<1> DEFINE D == DOMAIN nodes
           L == Len(o)
<1>1. /\ o \in Seq(D) /\ L \in Nat
      /\ \A i \in 1..L : o[i] \in D
      /\ \A i, j \in 1..L : o[i] = o[j] => i = j
  <2>1. o \in Seq(DOMAIN nodes) /\ Distinct(o)
    BY DEF IsOrder
  <2> QED
    BY <2>1, ElementOfSeq DEF Distinct
<1>2. \A n \in D : \E i \in 1..L : n = o[i]
  <2>1. \A x : x \in ToSet(o) <=> \E i \in 1..Len(o) : x = o[i]
    BY <1>1, InToSet, Zenon
  <2> QED
    BY <2>1 DEF IsOrder
<1>3. \A a, b : <<a, b>> \in edges => a \in D /\ b \in D
  BY DEF EdgesTyped
<1>4. \A i, j \in 1..L : <<o[i], o[j]>> \in edges => i < j
  <2> SUFFICES ASSUME NEW i \in 1..L, NEW j \in 1..L, <<o[i], o[j]>> \in edges PROVE i < j
    OBVIOUS
  <2>1. PICK k \in 1..L : k < j /\ o[k] = o[i]
    BY <1>1 DEF IsOrder, OrderRight
  <2> QED
    BY <1>1, <2>1
<1>5. PICK in, out \in D : \A n \in D :
        (nodes[n].kind = "Input" <=> n = in) /\ (nodes[n].kind = "Output" <=> n = out)
  BY DEF EndsOk
<1>6. in # out
  BY <1>5
<1>7. /\ \A n \in D \ {in} : \E x \in D : \A m \in D : <<m, n>> \in edges <=> m = x
      /\ \A n \in D \ {out} : \E x \in D : \A m \in D : <<n, m>> \in edges <=> m = x
      /\ \A n \in D \ {in, out} : nodes[n].kind = "Plugin"
  BY <1>5, SerialNeighbours
<1>8. L >= 2
  <2>1. PICK i \in 1..L : in = o[i]
    BY <1>2
  <2>2. PICK j \in 1..L : out = o[j]
    BY <1>2
  <2>3. i # j
    BY <1>6, <2>1, <2>2
  <2> QED
    BY <1>1, <2>3
<1>9. o[1] = in
  <2>1. 1 \in 1..L /\ o[1] \in D
    BY <1>1, <1>8
  <2>2. ASSUME NEW x \in D, <<x, o[1]>> \in edges PROVE FALSE
    <3>1. PICK i \in 1..L : x = o[i]
      BY <1>2
    <3>2. i < 1
      BY <1>4, <2>1, <2>2, <3>1
    <3> QED
      BY <3>2
  <2>3. ASSUME o[1] # in PROVE \E x \in D : <<x, o[1]>> \in edges
    BY <1>7, <2>1, <2>3
  <2> QED
    BY <2>2, <2>3
<1>10. o[L] = out
  <2>1. L \in 1..L /\ o[L] \in D
    BY <1>1, <1>8
  <2>2. ASSUME NEW x \in D, <<o[L], x>> \in edges PROVE FALSE
    <3>1. PICK i \in 1..L : x = o[i]
      BY <1>2
    <3>2. L < i
      BY <1>4, <2>1, <2>2, <3>1
    <3> QED
      BY <1>1, <3>2
  <2>3. ASSUME o[L] # out PROVE \E x \in D : <<o[L], x>> \in edges
    BY <1>7, <2>1, <2>3
  <2> QED
    BY <2>2, <2>3
\* The successor of each node but the last is the next one.
<1> DEFINE Missed == {j \in 2..L : <<o[j - 1], o[j]>> \notin edges}
<1>11. ASSUME Missed # {} PROVE FALSE
  <2>1. PICK j \in Missed : \A y \in Missed : j <= y
    <3>1. Missed \in SUBSET Nat
      OBVIOUS
    <3> HIDE DEF Missed
    <3> QED
      BY <1>11, <3>1, Smallest
  <2>2. j \in 2..L /\ j \in 1..L /\ <<o[j - 1], o[j]>> \notin edges
    OBVIOUS
  <2>3. o[j] \in D /\ o[j] # in
    BY <1>1, <1>8, <1>9, <2>2
  <2>4. PICK x \in D : <<x, o[j]>> \in edges
    BY <1>7, <2>3
  <2>5. PICK i \in 1..L : x = o[i]
    BY <1>2
  <2>6. i < j
    BY <1>4, <2>2, <2>4, <2>5
  <2>7. i # j - 1
    BY <2>2, <2>4, <2>5
  <2>8. i + 1 \in 2..L /\ i + 1 < j /\ i + 1 \in 1..L /\ (i + 1) - 1 = i
    BY <1>1, <2>2, <2>6, <2>7
  <2>9. i + 1 \notin Missed
    <3> HIDE DEF Missed
    <3> QED
      BY <2>1, <2>2, <2>8
  <2>10. <<o[i], o[i + 1]>> \in edges
    BY <2>8, <2>9
  <2>11. o[i] # out
    BY <1>1, <1>8, <1>10, <2>8
  <2>12. o[i + 1] = o[j]
    BY <1>1, <1>7, <2>2, <2>4, <2>5, <2>8, <2>10, <2>11
  <2> QED
    BY <1>1, <2>2, <2>8, <2>12
<1>12. \A i \in 1..(L - 1) : <<o[i], o[i + 1]>> \in edges
  <2> SUFFICES ASSUME NEW i \in 1..(L - 1) PROVE <<o[i], o[i + 1]>> \in edges
    OBVIOUS
  <2>1. i + 1 \in 2..L /\ i + 1 - 1 = i
    BY <1>1
  <2> QED
    BY <1>11, <2>1
<1>13. edges = Consecutive(o)
  <2>1. ASSUME NEW a, NEW b, <<a, b>> \in edges PROVE <<a, b>> \in Consecutive(o)
    <3>1. PICK i \in 1..L : a = o[i]
      BY <1>2, <1>3, <2>1
    <3>2. PICK j \in 1..L : b = o[j]
      BY <1>2, <1>3, <2>1
    <3>3. i < j
      BY <1>4, <2>1, <3>1, <3>2
    <3>4. i \in 1..(L - 1) /\ i + 1 \in 1..L
      BY <1>1, <3>2, <3>3
    <3>5. <<o[i], o[i + 1]>> \in edges
      BY <1>12, <3>4
    <3>6. o[i] # out /\ o[i] \in D /\ o[i + 1] \in D /\ b \in D
      BY <1>1, <1>3, <1>8, <1>10, <2>1, <3>4
    <3>7. b = o[i + 1]
      BY <1>7, <2>1, <3>1, <3>5, <3>6
    <3> QED
      BY <3>1, <3>4, <3>7 DEF Consecutive
  <2>2. Consecutive(o) \subseteq edges
    BY <1>12 DEF Consecutive
  <2>3. edges \subseteq (DOMAIN nodes) \X (DOMAIN nodes)
    BY DEF EdgesTyped
  <2> QED
    BY <2>1, <2>2, <2>3
<1>14. ASSUME NEW i \in 1..L
       PROVE  nodes[o[i]].kind = IF i = 1 THEN "Input" ELSE IF i = L THEN "Output" ELSE "Plugin"
  <2>1. CASE i = 1
    BY <1>5, <1>9, <2>1
  <2>2. CASE i = L
    BY <1>5, <1>8, <1>10, <2>2
  <2>3. CASE i # 1 /\ i # L
    <3>1. 1 \in 1..L /\ L \in 1..L
      BY <1>1, <1>8
    <3>2. o[i] # in /\ o[i] # out /\ o[i] \in D
      BY <1>1, <1>9, <1>10, <2>3, <3>1
    <3>3. nodes[o[i]].kind = "Plugin"
      BY <1>7, <3>2
    <3> QED
      BY <2>3, <3>3
  <2> QED
    BY <2>1, <2>2, <2>3
<1> QED
  BY <1>1, <1>2, <1>8, <1>13, <1>14 DEF ChainOrder, Distinct

\* There is only one such path.
LEMMA OneChain ==
  ASSUME NEW p, NEW q, ChainOrder(p), ChainOrder(q)
  PROVE  p = q
<1>1. /\ p \in Seq(DOMAIN nodes) /\ Len(p) \in Nat /\ Len(p) >= 2
      /\ \A i, j \in 1..Len(p) : p[i] = p[j] => i = j
  <2>1. p \in Seq(DOMAIN nodes) /\ Len(p) >= 2 /\ Distinct(p)
    BY DEF ChainOrder
  <2>2. \A i, j \in 1..Len(p) : p[i] = p[j] => i = j
    BY <2>1 DEF Distinct
  <2> QED
    BY <2>1, <2>2
<1>2. /\ q \in Seq(DOMAIN nodes) /\ Len(q) \in Nat /\ Len(q) >= 2
      /\ \A i, j \in 1..Len(q) : q[i] = q[j] => i = j
  <2>1. q \in Seq(DOMAIN nodes) /\ Len(q) >= 2 /\ Distinct(q)
    BY DEF ChainOrder
  <2>2. \A i, j \in 1..Len(q) : q[i] = q[j] => i = j
    BY <2>1 DEF Distinct
  <2> QED
    BY <2>1, <2>2
<1>3. Consecutive(p) = Consecutive(q)
  BY DEF ChainOrder
<1>4. /\ \A n \in DOMAIN nodes : (\E i \in 1..Len(p) : n = p[i]) /\ (\E i \in 1..Len(q) : n = q[i])
      /\ \A i \in 1..Len(p) : p[i] \in DOMAIN nodes
      /\ \A i \in 1..Len(q) : q[i] \in DOMAIN nodes
  BY <1>1, <1>2, ElementOfSeq DEF ChainOrder
<1>5. /\ \A i \in 1..Len(p) : nodes[p[i]].kind = IF i = 1 THEN "Input"
                                                ELSE IF i = Len(p) THEN "Output" ELSE "Plugin"
      /\ \A i \in 1..Len(q) : nodes[q[i]].kind = IF i = 1 THEN "Input"
                                                ELSE IF i = Len(q) THEN "Output" ELSE "Plugin"
  BY DEF ChainOrder
<1>6. p[1] = q[1]
  <2>1. 1 \in 1..Len(p) /\ nodes[p[1]].kind = "Input"
    BY <1>1, <1>5
  <2>2. PICK i \in 1..Len(q) : p[1] = q[i]
    BY <1>4, <2>1
  <2>3. i = 1
    BY <1>5, <2>1, <2>2
  <2> QED
    BY <2>2, <2>3
<1> DEFINE Apart == {k \in 1..Len(p) : k > Len(q) \/ p[k] # q[k]}
<1>7. ASSUME Apart # {} PROVE FALSE
  <2>1. PICK k \in Apart : \A y \in Apart : k <= y
    <3>1. Apart \in SUBSET Nat
      OBVIOUS
    <3> HIDE DEF Apart
    <3> QED
      BY <1>7, <3>1, Smallest
  <2>2. k \in 1..Len(p) /\ (k > Len(q) \/ p[k] # q[k])
    OBVIOUS
  <2>3. k # 1
    BY <1>2, <1>6, <2>2
  <2>4. k - 1 \in 1..(Len(p) - 1) /\ k - 1 \in 1..Len(p) /\ k - 1 + 1 = k
    BY <1>1, <2>2, <2>3
  <2>5. k - 1 \notin Apart
    <3>1. ~(k <= k - 1)
      BY <2>2
    <3> HIDE DEF Apart
    <3> QED
      BY <2>1, <3>1
  <2>6. k - 1 <= Len(q) /\ p[k - 1] = q[k - 1]
    BY <1>2, <2>2, <2>4, <2>5
  <2>7. <<p[k - 1], p[k]>> \in Consecutive(q)
    BY <1>3, <2>4 DEF Consecutive
  <2>8. PICK j \in 1..(Len(q) - 1) : p[k - 1] = q[j] /\ p[k] = q[j + 1]
    BY <2>7 DEF Consecutive
  <2>9. j = k - 1
    <3>1. j \in 1..Len(q) /\ k - 1 \in 1..Len(q) /\ q[j] = q[k - 1]
      BY <1>2, <2>4, <2>6, <2>8
    <3> QED
      BY <1>2, <3>1
  <2> QED
    BY <1>2, <2>2, <2>8, <2>9
<1>8. Len(p) <= Len(q) /\ \A k \in 1..Len(p) : p[k] = q[k]
  <2>1. \A k \in 1..Len(p) : k <= Len(q) /\ p[k] = q[k]
    BY <1>1, <1>2, <1>7
  <2>2. Len(p) \in 1..Len(p)
    BY <1>1
  <2> QED
    BY <2>1, <2>2
<1>9. Len(p) = Len(q)
  <2>1. Len(p) \in 1..Len(p) /\ Len(p) \in 1..Len(q)
    BY <1>1, <1>2, <1>8
  <2>2. nodes[p[Len(p)]].kind = "Output"
    BY <1>1, <1>5, <2>1
  <2>3. nodes[q[Len(p)]].kind = "Output"
    BY <1>8, <2>1, <2>2
  <2> QED
    BY <1>1, <1>5, <2>1, <2>3
<1> QED
  BY <1>1, <1>2, <1>8, <1>9, SeqEqual

\* The nodes of a chain but its ends.
LEMMA InnerOfChain ==
  ASSUME NEW p, ChainOrder(p)
  PROVE  /\ Inner(p) \in Seq(DOMAIN nodes) /\ Len(Inner(p)) = Len(p) - 2
         /\ \A i \in 1..(Len(p) - 2) : Inner(p)[i] = p[i + 1]
<1>1. /\ p \in Seq(DOMAIN nodes) /\ Len(p) >= 2
      /\ \A i \in 1..Len(p) :
           nodes[p[i]].kind = IF i = 1 THEN "Input" ELSE IF i = Len(p) THEN "Output" ELSE "Plugin"
  BY DEF ChainOrder
<1>2. Len(p) \in Nat /\ \A i \in 1..Len(p) : p[i] \in DOMAIN nodes
  BY <1>1, ElementOfSeq
<1>3. PICK f : /\ f[0] = <<>>
               /\ \A k \in 1..Len(p) : f[k] = Kept(f[k - 1], p[k])
               /\ Inner(p) = f[Len(p)]
  BY <1>1, InnerStepwise
<1> DEFINE Right(s, k) == /\ s \in Seq(DOMAIN nodes) /\ Len(s) = k - 1
                          /\ \A i \in 1..(k - 1) : s[i] = p[i + 1]
           Wrong == {k \in 1..(Len(p) - 1) : ~Right(f[k], k)}
<1>4. f[1] = <<>>
  <2>1. 1 \in 1..Len(p) /\ nodes[p[1]].kind = "Input"
    BY <1>1, <1>2
  <2> QED
    BY <1>3, <2>1 DEF Kept
<1>5. ASSUME Wrong # {} PROVE FALSE
  <2>1. PICK k \in Wrong : \A y \in Wrong : k <= y
    <3>1. Wrong \in SUBSET Nat
      OBVIOUS
    <3> HIDE DEF Wrong
    <3> QED
      BY <1>5, <3>1, Smallest
  <2>2. k \in 1..(Len(p) - 1) /\ ~Right(f[k], k)
    OBVIOUS
  <2>3. Right(<<>>, 1)
    OBVIOUS
  <2>4. k # 1
    <3> HIDE DEF Right
    <3> QED
      BY <1>4, <2>2, <2>3
  <2>5. k - 1 \in 1..(Len(p) - 1) /\ k \in 1..Len(p) /\ ~(k <= k - 1)
    BY <1>2, <2>2, <2>4
  <2>6. Right(f[k - 1], k - 1)
    <3>1. k - 1 \notin Wrong
      <4> HIDE DEF Wrong
      <4> QED
        BY <2>1, <2>5
    <3> HIDE DEF Right
    <3> QED
      BY <2>5, <3>1
  <2>7. nodes[p[k]].kind = "Plugin"
    BY <1>1, <1>2, <2>2, <2>4, <2>5
  <2>8. f[k] = Append(f[k - 1], p[k])
    BY <1>3, <2>5, <2>7 DEF Kept
  <2>9. p[k] \in DOMAIN nodes
    BY <1>2, <2>5
  <2>10. PICK c \in Seq(DOMAIN nodes) : c = f[k - 1]
    BY <2>6
  <2>11. /\ Append(c, p[k]) \in Seq(DOMAIN nodes) /\ Len(Append(c, p[k])) = Len(c) + 1
         /\ Append(c, p[k])[Len(c) + 1] = p[k]
         /\ \A i \in 1..Len(c) : Append(c, p[k])[i] = c[i]
    BY <2>9, <2>10, AppendProperties
  <2>12. Len(c) = (k - 1) - 1 /\ \A i \in 1..((k - 1) - 1) : c[i] = p[i + 1]
    BY <2>6, <2>10
  <2>13. Right(Append(c, p[k]), k)
    BY <2>2, <2>5, <2>11, <2>12
  <2> HIDE DEF Right
  <2> QED
    BY <2>2, <2>8, <2>10, <2>13
<1>6. Right(f[Len(p) - 1], Len(p) - 1)
  <2>1. Len(p) - 1 \in 1..(Len(p) - 1)
    BY <1>1, <1>2
  <2> HIDE DEF Right
  <2> QED
    BY <1>5, <2>1
<1>7. Inner(p) = f[Len(p) - 1]
  <2>1. Len(p) \in 1..Len(p) /\ nodes[p[Len(p)]].kind = "Output"
    BY <1>1, <1>2
  <2> QED
    BY <1>3, <2>1 DEF Kept
<1>8. (Len(p) - 1) - 1 = Len(p) - 2
  BY <1>2
<1> QED
  BY <1>6, <1>7, <1>8

\* The neighbours of a place in a chain are next to each other.
LEMMA NeighboursOfChain ==
  ASSUME EndsOk, NEW p, ChainOrder(p), NEW position \in Nat \ {0},
         NEW place, place = IF position > Len(p) - 2 THEN Len(p) - 1 ELSE position
  PROVE  /\ place \in 1..(Len(p) - 1)
         /\ Before(Inner(p), position) = p[place]
         /\ After(Inner(p), position) = p[place + 1]
<1>1. PICK s : s = Inner(p)
  OBVIOUS
<1>2. /\ s \in Seq(DOMAIN nodes) /\ Len(s) = Len(p) - 2
      /\ \A i \in 1..(Len(p) - 2) : s[i] = p[i + 1]
  BY <1>1, InnerOfChain
<1>3. /\ p \in Seq(DOMAIN nodes) /\ Len(p) \in Nat /\ Len(p) >= 2
      /\ \A i \in 1..Len(p) :
           nodes[p[i]].kind = IF i = 1 THEN "Input" ELSE IF i = Len(p) THEN "Output" ELSE "Plugin"
  <2>1. p \in Seq(DOMAIN nodes)
    BY DEF ChainOrder
  <2> QED
    BY <2>1 DEF ChainOrder
<1>4. input_node = p[1] /\ output_node = p[Len(p)]
  <2>1. 1 \in 1..Len(p) /\ Len(p) \in 1..Len(p)
    BY <1>3
  <2>2. nodes[p[1]].kind = "Input" /\ nodes[p[Len(p)]].kind = "Output"
    BY <1>3, <2>1
  <2>3. p[1] \in DOMAIN nodes /\ p[Len(p)] \in DOMAIN nodes
    BY <1>3, <2>1, ElementOfSeq
  <2> QED
    BY <2>2, <2>3, InvEnds DEF OneOutput
<1>5. place \in 1..(Len(p) - 1)
  BY <1>3
<1>6. Before(s, position) = p[place]
  <2>1. CASE position = 1 \/ s = <<>>
    <3>1. place = 1
      BY <1>2, <1>3, <2>1
    <3> QED
      BY <1>4, <2>1, <3>1 DEF Before
  <2>2. CASE ~(position = 1 \/ s = <<>>) /\ position <= Len(s) + 1
    <3>1. place = position /\ position - 1 \in 1..(Len(p) - 2) /\ position - 1 + 1 = position
      BY <1>2, <1>3, <2>2
    <3> QED
      BY <1>2, <2>2, <3>1 DEF Before
  <2>3. CASE ~(position = 1 \/ s = <<>>) /\ ~(position <= Len(s) + 1)
    <3>1. place = Len(p) - 1 /\ Len(s) \in 1..(Len(p) - 2) /\ Len(s) + 1 = Len(p) - 1
      BY <1>2, <1>3, <2>3
    <3> QED
      BY <1>2, <2>3, <3>1 DEF Before, Last
  <2> QED
    BY <2>1, <2>2, <2>3
<1>7. After(s, position) = p[place + 1]
  <2>1. CASE position > Len(s)
    <3>1. place + 1 = Len(p)
      BY <1>2, <1>3, <2>1
    <3> QED
      BY <1>4, <2>1, <3>1 DEF After
  <2>2. CASE ~(position > Len(s))
    <3>1. place = position /\ position \in 1..(Len(p) - 2)
      BY <1>2, <1>3, <2>2
    <3> QED
      BY <1>2, <2>2, <3>1 DEF After
  <2> QED
    BY <2>1, <2>2
<1> QED
  BY <1>1, <1>5, <1>6, <1>7

\* What serial_chain_slots gives: the slots along the path.
ChainsSolved ==
  \A p : ChainOrder(p) =>
    /\ is_serial_chain
    /\ serial_chain_slots = [i \in 1..(Len(p) - 2) |-> nodes[p[i + 1]].slot]

\* A path has one order only, so serial_chain_slots is the slots along it.
LEMMA ChainSlots == GraphInv => ChainsSolved
<1> SUFFICES ASSUME GraphInv, NEW p, ChainOrder(p)
             PROVE  /\ is_serial_chain
                    /\ serial_chain_slots = [i \in 1..(Len(p) - 2) |-> nodes[p[i + 1]].slot]
  BY DEF ChainsSolved
<1>1. is_serial_chain
  BY ChainIsSerial
<1> DEFINE o == CHOOSE order \in Orders : TRUE
<1>2. IsOrder(o)
  <2>1. o \in Orders
    BY OrdersAre
  <2> QED
    BY <2>1, OrdersAre
<1> HIDE DEF o
<1>3. o = p
  <2>1. IsFiniteSet(DOMAIN nodes) /\ EdgesTyped /\ EndsOk
    BY InvFinite DEF GraphInv
  <2>2. ChainOrder(o)
    BY <1>1, <1>2, <2>1, SerialOrder
  <2> QED
    BY <2>2, OneChain
<1>4. serial_chain_slots = SlotsIn(p)
  BY <1>3 DEF serial_chain_slots, o
<1>5. /\ Inner(p) \in Seq(DOMAIN nodes) /\ Len(Inner(p)) = Len(p) - 2
      /\ \A i \in 1..(Len(p) - 2) : Inner(p)[i] = p[i + 1]
  BY InnerOfChain
<1>6. DOMAIN Inner(p) = 1..(Len(p) - 2)
  BY <1>5, LenProperties
<1>7. SlotsIn(p) = [i \in 1..(Len(p) - 2) |-> nodes[p[i + 1]].slot]
  BY <1>5, <1>6 DEF SlotsIn
<1> QED
  BY <1>1, <1>4, <1>7

\* A node put into a path.
Widened(o, place, id) ==
  [i \in 1..(Len(o) + 1) |->
     IF i <= place THEN o[i] ELSE IF i = place + 1 THEN id ELSE o[i - 1]]

WidenedIs(p, o, D, place, id) ==
  /\ p \in Seq(D \cup {id}) /\ Len(p) = Len(o) + 1 /\ Distinct(p)
  /\ \A i \in 1..place : p[i] = o[i]
  /\ p[place + 1] = id
  /\ \A i \in (place + 2)..(Len(o) + 1) : p[i] = o[i - 1]

\* It is a path through one node more.
LEMMA WidenedPath ==
  ASSUME NEW D, NEW o \in Seq(D), Distinct(o), Len(o) >= 2, NEW id, id \notin D,
         NEW place \in 1..(Len(o) - 1), NEW p, p = Widened(o, place, id)
  PROVE  WidenedIs(p, o, D, place, id)
<1>1. Len(o) \in Nat /\ \A i \in 1..Len(o) : o[i] \in D
  BY ElementOfSeq
<1>2. /\ \A i \in 1..place : p[i] = o[i]
      /\ p[place + 1] = id
      /\ \A i \in (place + 2)..(Len(o) + 1) : p[i] = o[i - 1]
      /\ DOMAIN p = 1..(Len(o) + 1)
  BY <1>1 DEF Widened
<1>3. \A i \in 1..(Len(o) + 1) : \/ i \in 1..place
                                 \/ i = place + 1
                                 \/ i \in (place + 2)..(Len(o) + 1)
  BY <1>1
<1>4. \A i \in 1..place : i \in 1..Len(o) /\ p[i] \in D
  BY <1>1, <1>2
<1>5. \A i \in (place + 2)..(Len(o) + 1) : i - 1 \in 1..Len(o) /\ p[i] \in D
  <2> SUFFICES ASSUME NEW i \in (place + 2)..(Len(o) + 1)
               PROVE  i - 1 \in 1..Len(o) /\ p[i] \in D
    OBVIOUS
  <2>1. i - 1 \in 1..Len(o)
    BY <1>1
  <2>2. p[i] = o[i - 1]
    BY <1>2
  <2> QED
    BY <1>1, <2>1, <2>2
<1>6. p \in Seq(D \cup {id}) /\ Len(p) = Len(o) + 1
  <2>1. \A i \in 1..(Len(o) + 1) : p[i] \in D \cup {id}
    BY <1>2, <1>3, <1>4, <1>5
  <2>2. p = [i \in 1..(Len(o) + 1) |-> p[i]]
    BY <1>2 DEF Widened
  <2>3. p \in [1..(Len(o) + 1) -> D \cup {id}]
    BY <2>1, <2>2
  <2>4. Len(o) + 1 \in Nat
    BY <1>1
  <2>5. p \in Seq(D \cup {id})
    BY <2>3, <2>4, SeqDef
  <2> QED
    BY <1>2, <2>4, <2>5, LenProperties
<1>7. Distinct(p)
  <2> SUFFICES ASSUME NEW i \in 1..(Len(o) + 1), NEW j \in 1..(Len(o) + 1), p[i] = p[j]
               PROVE  i = j
    BY <1>6 DEF Distinct
  <2>1. \A a, b \in 1..Len(o) : o[a] = o[b] => a = b
    BY DEF Distinct
  <2>2. CASE i = place + 1
    BY <1>2, <1>3, <1>4, <1>5, <2>2
  <2>3. CASE j = place + 1
    BY <1>2, <1>3, <1>4, <1>5, <2>3
  <2>4. CASE i \in 1..place /\ j \in 1..place
    BY <1>2, <1>4, <2>1, <2>4
  <2>5. CASE i \in (place + 2)..(Len(o) + 1) /\ j \in (place + 2)..(Len(o) + 1)
    <3>1. i - 1 = j - 1
      BY <1>2, <1>5, <2>1, <2>5
    <3> QED
      BY <2>5, <3>1
  <2>6. CASE i \in 1..place /\ j \in (place + 2)..(Len(o) + 1)
    <3>1. i = j - 1
      BY <1>2, <1>4, <1>5, <2>1, <2>6
    <3> QED
      BY <2>6, <3>1
  <2>7. CASE j \in 1..place /\ i \in (place + 2)..(Len(o) + 1)
    <3>1. j = i - 1
      BY <1>2, <1>4, <1>5, <2>1, <2>7
    <3> QED
      BY <2>7, <3>1
  <2> QED
    BY <1>3, <2>2, <2>3, <2>4, <2>5, <2>6, <2>7
<1> QED
  BY <1>2, <1>6, <1>7 DEF WidenedIs

\* Its edges.
WidenedBy(p, o, place, id) ==
  \A a, b : <<a, b>> \in Consecutive(p) <=>
    \/ <<a, b>> \in Consecutive(o) /\ ~(a = o[place] /\ b = o[place + 1])
    \/ a = o[place] /\ b = id
    \/ a = id /\ b = o[place + 1]

\* The direct edge is replaced by two.
LEMMA WidenedEdges ==
  ASSUME NEW D, NEW o \in Seq(D), Distinct(o), Len(o) >= 2, NEW id, id \notin D,
         NEW place \in 1..(Len(o) - 1), NEW p, WidenedIs(p, o, D, place, id)
  PROVE  WidenedBy(p, o, place, id)
<1>1. /\ p \in Seq(D \cup {id}) /\ Len(p) = Len(o) + 1
      /\ \A i \in 1..place : p[i] = o[i]
      /\ p[place + 1] = id
      /\ \A i \in (place + 2)..(Len(o) + 1) : p[i] = o[i - 1]
  BY DEF WidenedIs
<1>2. Len(o) \in Nat
  OBVIOUS
<1>3. p[place] = o[place] /\ p[place + 2] = o[place + 1]
  <2>1. place \in 1..place /\ place + 2 \in (place + 2)..(Len(o) + 1) /\ place + 2 - 1 = place + 1
    BY <1>2
  <2> QED
    BY <1>1, <2>1
<1>4. \A i, j \in 1..Len(o) : o[i] = o[j] => i = j
  BY DEF Distinct
<1>5. \A a, b : <<a, b>> \in Consecutive(p) <=> \E i \in 1..Len(o) : a = p[i] /\ b = p[i + 1]
  BY <1>1, <1>2 DEF Consecutive
<1>6. \A a, b : <<a, b>> \in Consecutive(o) <=> \E i \in 1..(Len(o) - 1) : a = o[i] /\ b = o[i + 1]
  BY DEF Consecutive
<1>7. ASSUME NEW a, NEW b, <<a, b>> \in Consecutive(p)
      PROVE  \/ <<a, b>> \in Consecutive(o) /\ ~(a = o[place] /\ b = o[place + 1])
             \/ a = o[place] /\ b = id
             \/ a = id /\ b = o[place + 1]
  <2>1. PICK i \in 1..Len(o) : a = p[i] /\ b = p[i + 1]
    BY <1>5, <1>7
  <2>2. CASE i < place
    <3>1. i \in 1..place /\ i + 1 \in 1..place /\ i \in 1..(Len(o) - 1) /\ i \in 1..Len(o)
          /\ place \in 1..Len(o)
      BY <1>2, <2>2
    <3>2. a = o[i] /\ b = o[i + 1]
      BY <1>1, <2>1, <3>1
    <3>3. a # o[place]
      BY <1>4, <2>2, <3>1, <3>2
    <3> QED
      BY <1>6, <3>1, <3>2, <3>3
  <2>3. CASE i = place
    BY <1>1, <1>3, <2>1, <2>3
  <2>4. CASE i = place + 1
    <3>1. i + 1 = place + 2
      BY <2>4
    <3> QED
      BY <1>1, <1>3, <2>1, <2>4, <3>1
  <2>5. CASE i > place + 1
    <3>1. /\ i \in (place + 2)..(Len(o) + 1) /\ i + 1 \in (place + 2)..(Len(o) + 1)
          /\ i + 1 - 1 = i /\ i - 1 \in 1..(Len(o) - 1) /\ i - 1 + 1 = i
          /\ i - 1 \in 1..Len(o) /\ place \in 1..Len(o)
      BY <1>2, <2>5
    <3>2. a = o[i - 1] /\ b = o[i]
      <4>1. p[i] = o[i - 1] /\ p[i + 1] = o[i + 1 - 1]
        BY <1>1, <3>1
      <4> QED
        BY <2>1, <3>1, <4>1
    <3>3. a # o[place]
      <4>1. i - 1 # place
        BY <2>5
      <4> QED
        BY <1>4, <3>1, <3>2, <4>1
    <3> QED
      BY <1>6, <3>1, <3>2, <3>3
  <2> QED
    BY <2>2, <2>3, <2>4, <2>5
<1>8. ASSUME NEW a, NEW b, <<a, b>> \in Consecutive(o), ~(a = o[place] /\ b = o[place + 1])
      PROVE  <<a, b>> \in Consecutive(p)
  <2>1. PICK i \in 1..(Len(o) - 1) : a = o[i] /\ b = o[i + 1]
    BY <1>6, <1>8
  <2>2. i # place
    BY <1>8, <2>1
  <2>3. CASE i < place
    <3>1. i \in 1..place /\ i + 1 \in 1..place /\ i \in 1..Len(o)
      BY <1>2, <2>3
    <3>2. a = p[i] /\ b = p[i + 1]
      BY <1>1, <2>1, <3>1
    <3> QED
      BY <1>5, <3>1, <3>2
  <2>4. CASE i > place
    <3>1. /\ i + 1 \in (place + 2)..(Len(o) + 1) /\ i + 1 + 1 \in (place + 2)..(Len(o) + 1)
          /\ i + 1 - 1 = i /\ i + 1 + 1 - 1 = i + 1 /\ i + 1 \in 1..Len(o)
      BY <1>2, <2>4
    <3>2. a = p[i + 1] /\ b = p[(i + 1) + 1]
      BY <1>1, <2>1, <3>1
    <3> QED
      BY <1>5, <3>1, <3>2
  <2> QED
    BY <2>2, <2>3, <2>4
<1>9. <<o[place], id>> \in Consecutive(p)
  <2>1. place \in 1..Len(o)
    BY <1>2
  <2> QED
    BY <1>1, <1>3, <1>5, <2>1
<1>10. <<id, o[place + 1]>> \in Consecutive(p)
  <2>1. place + 1 \in 1..Len(o) /\ place + 1 + 1 = place + 2
    BY <1>2
  <2> QED
    BY <1>1, <1>3, <1>5, <2>1
<1> QED
  BY <1>7, <1>8, <1>9, <1>10 DEF WidenedBy

\* An element put into a sequence.
InsertedIs(t, s, S, i, e) ==
  /\ t \in Seq(S) /\ Len(t) = Len(s) + 1
  /\ \A j \in 1..(i - 1) : t[j] = s[j]
  /\ t[i] = e
  /\ \A j \in (i + 1)..(Len(s) + 1) : t[j] = s[j - 1]

\* What InsertAt gives.
LEMMA Inserted ==
  ASSUME NEW S, NEW s \in Seq(S), NEW i \in 1..(Len(s) + 1), NEW e \in S
  PROVE  InsertedIs(InsertAt(s, i, e), s, S, i, e)
<1>1. Len(s) \in Nat
  OBVIOUS
<1> DEFINE a == SubSeq(s, 1, i - 1)
           b == SubSeq(s, i, Len(s))
<1>2. /\ a \in Seq(S) /\ Len(a) = i - 1 /\ \A j \in 1..(i - 1) : a[j] = s[j]
  BY <1>1
<1>3. /\ b \in Seq(S) /\ Len(b) = Len(s) - i + 1
      /\ \A j \in 1..(Len(s) - i + 1) : b[j] = s[i + j - 1]
  BY <1>1
<1>4. InsertAt(s, i, e) = a \o <<e>> \o b
  BY DEF InsertAt
<1> HIDE DEF a, b
<1> DEFINE c == a \o <<e>>
<1>5. /\ c \in Seq(S) /\ Len(c) = i
      /\ \A j \in 1..(i - 1) : c[j] = a[j]
      /\ c[i] = e
  BY <1>1, <1>2
<1> HIDE DEF c
<1>6. /\ c \o b \in Seq(S) /\ Len(c \o b) = Len(s) + 1
      /\ \A j \in 1..i : (c \o b)[j] = c[j]
      /\ \A j \in (i + 1)..(Len(s) + 1) : (c \o b)[j] = b[j - i]
  BY <1>1, <1>3, <1>5
<1>7. InsertAt(s, i, e) = c \o b
  BY <1>4 DEF c
<1>8. \A j \in (i + 1)..(Len(s) + 1) : j - i \in 1..(Len(s) - i + 1) /\ i + (j - i) - 1 = j - 1
  BY <1>1
<1>9. \A j \in (i + 1)..(Len(s) + 1) : (c \o b)[j] = s[j - 1]
  BY <1>3, <1>6, <1>8
<1>10. (\A j \in 1..(i - 1) : j \in 1..i) /\ i \in 1..i
  BY <1>1
<1> QED
  BY <1>2, <1>5, <1>6, <1>7, <1>9, <1>10 DEF InsertedIs

\* The path after insert_in_chain.
LEMMA ChainWidened ==
  ASSUME GraphInv, NEW position \in Nat \ {0}, NEW slot \in Nat, NEW o, ChainOrder(o),
         insert_in_chain(position, slot, o), DOMAIN nodes' = (DOMAIN nodes) \cup {next_node_id},
         NEW place \in 1..(Len(o) - 1), Before(Inner(o), position) = o[place],
         After(Inner(o), position) = o[place + 1],
         NEW p, WidenedIs(p, o, DOMAIN nodes, place, next_node_id)
  PROVE  /\ ChainOrder(p)'
         /\ \A n \in DOMAIN nodes : nodes'[n] = nodes[n]
         /\ nodes'[next_node_id] = Node("Plugin", slot)
<1> DEFINE D == DOMAIN nodes
           id == next_node_id
           ids == D \cup {id}
           before == Before(Inner(o), position)
           after == After(Inner(o), position)
           graph == (edges \ {<<before, after>>}) \cup {<<before, id>>}
<1>1. /\ Added(nodes', nodes, id, Node("Plugin", slot))
      /\ edges' = ConnectedOk(ids, graph, <<id, after>>)
  BY DEF insert_in_chain, Added
<1>2. /\ o \in Seq(D) /\ Len(o) \in Nat /\ Distinct(o) /\ Len(o) >= 2
      /\ \A n \in D : \E i \in 1..Len(o) : n = o[i]
      /\ edges = Consecutive(o)
      /\ \A i \in 1..Len(o) : o[i] \in D
  <2>1. /\ o \in Seq(D) /\ Distinct(o) /\ Len(o) >= 2
        /\ \A n \in D : \E i \in 1..Len(o) : n = o[i]
        /\ edges = Consecutive(o)
    BY DEF ChainOrder
  <2>2. Len(o) \in Nat
    BY <2>1, LenProperties, Zenon
  <2>3. \A i \in 1..Len(o) : o[i] \in D
    BY <2>1, ElementOfSeq, Zenon
  <2> QED
    BY <2>1, <2>2, <2>3, Zenon
<1>3. \A i \in 1..Len(o) :
        nodes[o[i]].kind = IF i = 1 THEN "Input" ELSE IF i = Len(o) THEN "Output" ELSE "Plugin"
  BY DEF ChainOrder
<1>4. IsFiniteSet(ids) /\ id \notin D
  BY InvFinite, FS_AddElement DEF GraphInv
<1>5. place \in 1..(Len(o) - 1) /\ before = o[place] /\ after = o[place + 1]
  OBVIOUS
<1>6. WidenedIs(p, o, D, place, id)
  OBVIOUS
<1>7. /\ p \in Seq(ids) /\ Len(p) = Len(o) + 1 /\ Distinct(p)
      /\ \A i \in 1..place : p[i] = o[i]
      /\ p[place + 1] = id
      /\ \A i \in (place + 2)..(Len(o) + 1) : p[i] = o[i - 1]
  BY <1>6 DEF WidenedIs
<1>18. Len(o) \in Nat /\ Len(o) >= 2 /\ place \in 1..(Len(o) - 1) /\ Len(p) = Len(o) + 1
  BY <1>2, <1>7, Zenon
<1>8. \A a, b : <<a, b>> \in Consecutive(p) <=>
        \/ <<a, b>> \in edges /\ ~(a = before /\ b = after)
        \/ a = before /\ b = id
        \/ a = id /\ b = after
  <2>1. WidenedBy(p, o, place, id)
    <3>1. /\ o \in Seq(D) /\ Distinct(o) /\ Len(o) >= 2 /\ id \notin D
          /\ place \in 1..(Len(o) - 1) /\ WidenedIs(p, o, D, place, id)
      BY <1>2, <1>4, <1>6, Zenon
    <3> HIDE DEF D, id
    <3> QED
      BY <3>1, WidenedEdges, Zenon
  <2> HIDE DEF before, after
  <2> QED
    BY <1>2, <1>5, <2>1 DEF WidenedBy
<1> HIDE DEF before, after
<1>9. \A i \in 1..(Len(o) + 1) : p[i] \in ids
  BY <1>7, ElementOfSeq
<1>10. graph \cup {<<id, after>>} = Consecutive(p)
  <2>1. Consecutive(p) \in SUBSET (ids \X ids)
    BY <1>7, ConsecutiveTyped, Zenon
  <2>2. before \in D /\ after \in D
    <3>1. place \in 1..Len(o) /\ place + 1 \in 1..Len(o)
      BY <1>2, <1>5
    <3> QED
      BY <1>2, <1>5, <3>1
  <2>3. graph \cup {<<id, after>>} \in SUBSET (ids \X ids)
    BY <2>2 DEF GraphInv, EdgesTyped
  <2>4. \A a, b : <<a, b>> \in graph \cup {<<id, after>>} <=>
          \/ <<a, b>> \in edges /\ ~(a = before /\ b = after)
          \/ a = before /\ b = id
          \/ a = id /\ b = after
    OBVIOUS
  <2> HIDE DEF graph, ids
  <2> QED
    BY <1>8, <2>1, <2>3, <2>4
<1>11. \A n \in ids : \E i \in 1..Len(p) : n = p[i]
  <2> SUFFICES ASSUME NEW n \in ids PROVE \E i \in 1..Len(p) : n = p[i]
    OBVIOUS
  <2>1. CASE n = id
    <3>1. place + 1 \in 1..Len(p)
      BY <1>2, <1>5, <1>7
    <3> QED
      BY <1>7, <2>1, <3>1
  <2>2. CASE n \in D
    <3>1. PICK i \in 1..Len(o) : n = o[i]
      BY <1>2, <2>2
    <3>2. CASE i <= place
      <4>1. i \in 1..place /\ i \in 1..Len(p)
        BY <1>2, <1>5, <1>7, <3>2
      <4> QED
        BY <1>7, <3>1, <4>1
    <3>3. CASE i > place
      <4>1. i + 1 \in (place + 2)..(Len(o) + 1) /\ i + 1 \in 1..Len(p) /\ i + 1 - 1 = i
        BY <1>18,  <3>3
      <4>2. p[i + 1] = o[i]
        BY <1>7, <4>1
      <4> QED
        BY <3>1, <4>1, <4>2
    <3> QED
      BY <1>5, <3>2, <3>3
  <2> QED
    BY <2>1, <2>2
<1>12. HasNoCycle(ids, Consecutive(p))
  <2> SUFFICES ASSUME NEW S \in (SUBSET ids) \ {{}}
               PROVE  \E n \in S : \A m \in S : <<m, n>> \notin Consecutive(p)
    BY DEF HasNoCycle
  <2>1. \A x : (\E i \in 1..Len(p) : x = p[i]) => x \in ToSet(p)
    BY <1>7, InToSet, Zenon
  <2>2. S \in (SUBSET ToSet(p)) \ {{}}
    BY <1>11, <2>1
  <2> QED
    BY <1>7, <2>2, PathNoCycle
<1>13. edges' = Consecutive(p)
  <2> HIDE DEF ids, graph
  <2>1. ~has_cycle(ids, Consecutive(p))
    BY <1>4, <1>12, CycleFound, Zenon
  <2>2. ConnectedOk(ids, graph, <<id, after>>) =
          IF has_cycle(ids, graph \cup {<<id, after>>}) THEN graph ELSE graph \cup {<<id, after>>}
    BY DEF ConnectedOk
  <2> QED
    BY <1>1, <1>10, <2>1, <2>2, Zenon
<1>14. /\ \A n \in D : nodes'[n] = nodes[n]
       /\ nodes'[id] = Node("Plugin", slot)
  BY <1>1, <1>4 DEF Added
<1>15. \A i \in 1..Len(p) :
         nodes'[p[i]].kind = IF i = 1 THEN "Input" ELSE IF i = Len(p) THEN "Output" ELSE "Plugin"
  <2> SUFFICES ASSUME NEW i \in 1..Len(p)
               PROVE  nodes'[p[i]].kind = IF i = 1 THEN "Input"
                                          ELSE IF i = Len(p) THEN "Output" ELSE "Plugin"
    OBVIOUS
  <2>1. CASE i <= place
    <3>1. i \in 1..place /\ i \in 1..Len(o) /\ i # Len(o) /\ i # Len(p)
      BY <1>18, <2>1
    <3>2. p[i] = o[i] /\ o[i] \in D
      BY <1>2, <1>7, <3>1
    <3>3. nodes'[p[i]] = nodes[o[i]]
      BY <1>14, <3>2
    <3> QED
      BY <1>3, <3>1, <3>3
  <2>2. CASE i = place + 1
    <3>1. i # 1 /\ i # Len(p)
      BY <1>18, <2>2
    <3>2. nodes'[p[i]].kind = "Plugin"
      BY <1>7, <1>14, <2>2 DEF Node
    <3> QED
      BY <3>1, <3>2
  <2>3. CASE i > place + 1
    <3>1. /\ i \in (place + 2)..(Len(o) + 1) /\ i - 1 \in 1..Len(o) /\ i - 1 # 1 /\ i # 1
          /\ (i - 1 = Len(o) <=> i = Len(p))
      <4>1. PICK m : m = Len(o)
        OBVIOUS
      <4>2. m \in Nat /\ place \in 1..(m - 1) /\ i \in 1..(m + 1)
        BY <1>18, <4>1
      <4>3. /\ i \in (place + 2)..(m + 1) /\ i - 1 \in 1..m /\ i - 1 # 1 /\ i # 1
            /\ (i - 1 = m <=> i = m + 1)
        BY <2>3, <4>2
      <4> QED
        BY <1>18, <4>1, <4>3
    <3>2. p[i] = o[i - 1] /\ o[i - 1] \in D
      BY <1>2, <1>7, <3>1
    <3>3. nodes'[p[i]] = nodes[o[i - 1]]
      BY <1>14, <3>2
    <3> QED
      BY <1>3, <3>1, <3>3
  <2> QED
    BY <1>5, <2>1, <2>2, <2>3
<1>16. Len(p) >= 2
  BY <1>2, <1>7
<1>17. ChainOrder(p)'
  <2> HIDE DEF ids, D
  <2>1. DOMAIN nodes' = ids
    BY DEF ids, D
  <2> QED
    BY <1>7, <1>11, <1>13, <1>15, <1>16, <2>1 DEF ChainOrder, Consecutive, Distinct
<1> QED
  BY <1>14, <1>17

\* Inserting into a serial chain.
LEMMA SerialInsert ==
  ASSUME GraphInv, is_serial_chain, NEW position \in Nat \ {0}, NEW slot \in Nat,
         NEW order \in OrdersOrEmpty, insert_in_chain(position, slot, order)
  PROVE  /\ is_serial_chain'
         /\ serial_chain_slots' =
              InsertAt(serial_chain_slots,
                       IF position > Len(serial_chain_slots)
                       THEN Len(serial_chain_slots) + 1 ELSE position, slot)
<1>1. ChainOrder(order)
  <2>1. IsOrder(order)
    BY OrdersAre
  <2>2. IsFiniteSet(DOMAIN nodes) /\ EdgesTyped /\ EndsOk
    BY InvFinite DEF GraphInv
  <2> QED
    BY <2>1, <2>2, SerialOrder
<1>2. GraphInv'
  BY InsertStep
<1>3. DOMAIN nodes' = (DOMAIN nodes) \cup {next_node_id}
  BY DEF insert_in_chain
<1>4. PICK o, id : o = order /\ id = next_node_id
  OBVIOUS
<1>5. PICK place : place = IF position > Len(o) - 2 THEN Len(o) - 1 ELSE position
  OBVIOUS
<1>6. PICK p : p = Widened(o, place, id)
  OBVIOUS
<1>7. /\ place \in 1..(Len(o) - 1) /\ WidenedIs(p, o, DOMAIN nodes, place, id)
      /\ ChainOrder(p)'
      /\ \A n \in DOMAIN nodes : nodes'[n] = nodes[n]
      /\ nodes'[id] = Node("Plugin", slot)
  <2>1. ChainOrder(o) /\ EndsOk /\ id \notin DOMAIN nodes
    BY <1>1, <1>4, InvFinite DEF GraphInv
  <2>2. /\ place \in 1..(Len(o) - 1)
        /\ Before(Inner(o), position) = o[place] /\ After(Inner(o), position) = o[place + 1]
    BY <1>5, <2>1, NeighboursOfChain
  <2>3. o \in Seq(DOMAIN nodes) /\ Distinct(o) /\ Len(o) >= 2
    BY <2>1 DEF ChainOrder
  <2>4. WidenedIs(p, o, DOMAIN nodes, place, id)
    BY <1>6, <2>1, <2>2, <2>3, WidenedPath, Zenon
  <2>5. /\ ChainOrder(p)'
        /\ \A n \in DOMAIN nodes : nodes'[n] = nodes[n]
        /\ nodes'[id] = Node("Plugin", slot)
    <3>1. insert_in_chain(position, slot, o)
      BY <1>4
    <3>2. WidenedIs(p, o, DOMAIN nodes, place, next_node_id)
      BY <1>4, <2>4
    <3>3. /\ ChainOrder(p)'
          /\ \A n \in DOMAIN nodes : nodes'[n] = nodes[n]
          /\ nodes'[next_node_id] = Node("Plugin", slot)
      BY <1>3, <2>1, <2>2, <3>1, <3>2, ChainWidened
    <3> QED
      BY <1>4, <3>3
  <2> QED
    BY <2>2, <2>4, <2>5
<1>8. ChainsSolved
  BY ChainSlots
<1>9. ChainsSolved'
  BY <1>2, ChainSlots, PTL
<1>10. PICK s : s = serial_chain_slots
  OBVIOUS
<1>11. s = [i \in 1..(Len(o) - 2) |-> nodes[o[i + 1]].slot]
  <2>1. ChainOrder(o)
    BY <1>1, <1>4
  <2>2. serial_chain_slots = [i \in 1..(Len(o) - 2) |-> nodes[o[i + 1]].slot]
    BY <1>8, <2>1, Zenon DEF ChainsSolved
  <2> QED
    BY <1>10, <2>2
<1>12. /\ is_serial_chain'
       /\ serial_chain_slots' = [i \in 1..(Len(p) - 2) |-> nodes'[p[i + 1]].slot]
  BY <1>7, <1>9 DEF ChainsSolved
<1>13. /\ Len(o) \in Nat /\ Len(o) >= 2
       /\ \A i \in 1..Len(o) : o[i] \in DOMAIN nodes /\ nodes[o[i]].slot \in Nat
  <2>1. o \in Seq(DOMAIN nodes) /\ Len(o) >= 2
    BY <1>1, <1>4 DEF ChainOrder
  <2>2. \A n \in DOMAIN nodes : nodes[n].slot \in Nat
    BY DEF GraphInv, NodesTyped, Nodes
  <2> QED
    BY <2>1, <2>2, ElementOfSeq
<1>14. s \in Seq(Nat) /\ Len(s) = Len(o) - 2
  <2>1. \A i \in 1..(Len(o) - 2) : nodes[o[i + 1]].slot \in Nat
    BY <1>13
  <2> QED
    BY <1>11, <1>13, <2>1
<1>15. place = IF position > Len(s) THEN Len(s) + 1 ELSE position
  BY <1>5, <1>13, <1>14
<1>16. PICK t : t = InsertAt(s, place, slot)
  OBVIOUS
<1>17. /\ t \in Seq(Nat) /\ Len(t) = Len(s) + 1
       /\ \A j \in 1..(place - 1) : t[j] = s[j]
       /\ t[place] = slot
       /\ \A j \in (place + 1)..(Len(s) + 1) : t[j] = s[j - 1]
  <2>1. place \in 1..(Len(s) + 1)
    BY <1>7, <1>13, <1>14
  <2>2. s \in Seq(Nat) /\ place \in 1..(Len(s) + 1) /\ slot \in Nat
    BY <1>14, <2>1
  <2>3. InsertedIs(t, s, Nat, place, slot)
    BY <1>16, <2>2, Inserted, Zenon
  <2> QED
    BY <2>3 DEF InsertedIs
<1>18. /\ Len(p) = Len(o) + 1
       /\ \A i \in 1..place : p[i] = o[i]
       /\ p[place + 1] = id
       /\ \A i \in (place + 2)..(Len(o) + 1) : p[i] = o[i - 1]
  BY <1>7 DEF WidenedIs
<1>19. ASSUME NEW i \in 1..(Len(p) - 2) PROVE nodes'[p[i + 1]].slot = t[i]
  <2>1. CASE i < place
    <3>1. /\ i + 1 \in 1..place /\ i \in 1..(place - 1) /\ i \in 1..(Len(o) - 2)
          /\ i + 1 \in 1..Len(o)
      BY <1>7, <1>13, <1>18, <2>1
    <3>2. p[i + 1] = o[i + 1] /\ o[i + 1] \in DOMAIN nodes
      BY <1>13, <1>18, <3>1
    <3>4. nodes'[p[i + 1]] = nodes[o[i + 1]]
      BY <1>7, <3>2
    <3>3. s[i] = nodes[o[i + 1]].slot
      BY <1>11, <3>1
    <3> QED
      BY <1>17, <3>1, <3>3, <3>4
  <2>2. CASE i = place
    BY <1>7, <1>17, <1>18, <2>2 DEF Node
  <2>3. CASE i > place
    <3>1. /\ i + 1 \in (place + 2)..(Len(o) + 1) /\ i \in (place + 1)..(Len(s) + 1)
          /\ i - 1 \in 1..(Len(o) - 2) /\ i + 1 - 1 = i /\ i - 1 + 1 = i /\ i \in 1..Len(o)
      <4>1. PICK m : m = Len(o)
        OBVIOUS
      <4>2. m \in Nat /\ place \in 1..(m - 1) /\ i \in 1..(m - 1)
        BY <1>7, <1>13, <1>18, <4>1
      <4>3. /\ i + 1 \in (place + 2)..(m + 1) /\ i \in (place + 1)..(m - 1)
            /\ i - 1 \in 1..(m - 2) /\ i + 1 - 1 = i /\ i - 1 + 1 = i /\ i \in 1..m
        BY <2>3, <4>2
      <4>4. Len(s) + 1 = m - 1
        BY <1>14, <4>1, <4>2
      <4> QED
        BY <4>1, <4>3, <4>4
    <3>2. p[i + 1] = o[i]
      BY <1>18, <3>1
    <3>3. nodes'[p[i + 1]] = nodes[o[i]]
      <4>1. o[i] \in DOMAIN nodes
        BY <1>13, <3>1
      <4> QED
        BY <1>7, <3>2, <4>1
    <3>4. s[i - 1] = nodes[o[i]].slot
      BY <1>11, <3>1
    <3> QED
      BY <1>17, <3>1, <3>3, <3>4
  <2> QED
    BY <1>7, <2>1, <2>2, <2>3
<1>20. serial_chain_slots' = t
  <2>1. t = [i \in 1..(Len(p) - 2) |-> t[i]]
    <3>1. Len(p) - 2 = Len(t)
      BY <1>13, <1>14, <1>17, <1>18
    <3> QED
      BY <1>17, <3>1
  <2> QED
    BY <1>12, <1>19, <2>1
<1> QED
  BY <1>10, <1>12, <1>15, <1>16, <1>20

\* Inserting into a serial chain gives a serial chain, with the slot at that
\* place: the second edge is never refused, and where the place is beyond the end
\* the slot comes last (insert_in_chain, is_serial_chain, serial_chain_slots).
THEOREM ChainIsKept == Spec => InsertKeepsChain
<1> DEFINE Kept3 ==
      \A position \in 1..3 :
        is_serial_chain /\ (\E order \in OrdersOrEmpty : insert_in_chain(position, 3, order)) =>
          /\ is_serial_chain'
          /\ serial_chain_slots' =
               InsertAt(serial_chain_slots,
                        IF position > Len(serial_chain_slots)
                        THEN Len(serial_chain_slots) + 1 ELSE position, 3)
<1>1. ASSUME GraphInv PROVE Kept3
  <2> SUFFICES ASSUME NEW position \in 1..3, is_serial_chain,
                      NEW order \in OrdersOrEmpty, insert_in_chain(position, 3, order)
               PROVE  /\ is_serial_chain'
                      /\ serial_chain_slots' =
                           InsertAt(serial_chain_slots,
                                    IF position > Len(serial_chain_slots)
                                    THEN Len(serial_chain_slots) + 1 ELSE position, 3)
    OBVIOUS
  <2>1. position \in Nat \ {0} /\ 3 \in Nat
    OBVIOUS
  <2> QED
    BY <1>1, <2>1, SerialInsert
<1>2. GraphInv /\ [Next]_vars => [Kept3]_vars
  BY <1>1
<1> QED
  BY <1>2, GraphInvariant, PTL DEF Spec, InsertKeepsChain
=============================================================================
