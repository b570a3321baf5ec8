----------------------------- MODULE StoreLists -----------------------------
(***************************************************************************)
(* What the linked lists of src/src/slist.c are, for any number of nodes:  *)
(* the chain of a list head is the one sequence of distinct nodes that     *)
(* _nxt leads through, and the two ways in which _updateNode and           *)
(* _cleanUpNodes change _nxt put one node into that sequence or take one   *)
(* out. ChainOf is a recursive function; what it gives is found by         *)
(* induction over the length of the list, from the existence of a smallest *)
(* counterexample (WFMin).                                                 *)
(***************************************************************************)
EXTENDS Store, TLAPS, WellFoundedInduction, FiniteSetTheorems, SequenceTheorems

\* A non-empty set of naturals has a smallest member.
LEMMA Smallest ==
    ASSUME NEW S \in SUBSET Nat, S # {}
    PROVE  \E x \in S : \A y \in S : x <= y
<1>1. PICK x \in S : \A y \in S : <<y, x>> \notin OpToRel(<, Nat)
  BY WFMin, NatLessThanWellFounded, Zenon
<1>2. \A y \in S : ~(y < x)
  BY <1>1, Zenon DEF OpToRel
<1> QED  BY <1>2

\* Induction, with the set of the numbers that have the property.
LEMMA Induction ==
    ASSUME NEW S \in SUBSET Nat, 0 \in S, \A n \in S : n + 1 \in S
    PROVE  S = Nat
<1>1. SUFFICES ASSUME Nat \ S # {} PROVE FALSE
  OBVIOUS
<1>2. PICK x \in Nat \ S : \A y \in Nat \ S : x <= y
  BY <1>1, Smallest
<1>3. x - 1 \in S
  BY <1>2
<1> QED  BY <1>2, <1>3

\* One step of the definition of ChainOf: the rest of a list, k nodes at most.
Step(f, g, k) == [m \in Nodes \cup {NULL} |->
                    IF k = 0 \/ m = NULL THEN <<>> ELSE <<m>> \o g[k - 1][f[m]]]

\* The recursion of ChainOf defines a function.
LEMMA WalkExists ==
    ASSUME NEW f \in [Nodes -> Nodes \cup {NULL}], NEW K \in Nat
    PROVE  \E g : g = [k \in 0..K |-> Step(f, g, k)]
<1> DEFINE S == {j \in Nat : \E g : g = [k \in 0..j |-> Step(f, g, k)]}
<1>1. 0 \in S
  <2> DEFINE g == [k \in 0..0 |-> Step(f, <<>>, k)]
  <2>1. ASSUME NEW k \in 0..0 PROVE Step(f, g, k) = Step(f, <<>>, k)
    BY DEF Step
  <2>2. g = [k \in 0..0 |-> Step(f, g, k)]
    BY <2>1
  <2> QED BY <2>2
<1>2. ASSUME NEW n \in S PROVE n + 1 \in S
  <2>1. PICK g : g = [k \in 0..n |-> Step(f, g, k)]
    OBVIOUS
  <2> DEFINE h == [k \in 0..(n + 1) |-> Step(f, g, k)]
  <2>2. ASSUME NEW k \in 0..n PROVE h[k] = g[k]
    BY <2>1
  <2>3. ASSUME NEW k \in 0..(n + 1) PROVE Step(f, h, k) = Step(f, g, k)
    <3> HIDE DEF h
    <3> QED BY <2>2 DEF Step
  <2>4. h = [k \in 0..(n + 1) |-> Step(f, h, k)]
    BY <2>3
  <2> HIDE DEF h
  <2> QED BY <2>4
<1> HIDE DEF S
<1>3. S = Nat
  BY <1>1, <1>2, Induction DEF S
<1> QED BY <1>3 DEF S

\* ChainOf satisfies its recursive equation.
LEMMA ChainIsWalk ==
    ASSUME NEW f \in [Nodes -> Nodes \cup {NULL}]
    PROVE  \E w : /\ \A k \in 0..MaxNodes : w[k] = Step(f, w, k)
                  /\ \A n : ChainOf(f, n) = w[MaxNodes][n]
<1> DEFINE w == CHOOSE g : g = [k \in 0..MaxNodes |-> Step(f, g, k)]
<1>1. \E g : g = [k \in 0..MaxNodes |-> Step(f, g, k)]
  BY WalkExists, BoundsAssumption
<1>2. w = [k \in 0..MaxNodes |-> Step(f, w, k)]
  BY <1>1
<1>3. \A n : ChainOf(f, n) = w[MaxNodes][n]
  BY DEF ChainOf, Step
<1> HIDE DEF w
<1>4. \A k \in 0..MaxNodes : w[k] = Step(f, w, k)
  BY <1>2
<1> QED  BY <1>3, <1>4

\* The node at a place of a list; past its end there is NULL.
NodeAt(s, i) == IF i \in 1..Len(s) THEN s[i] ELSE NULL

\* From head n, the links f lead through the distinct nodes of s to NULL.
IsList(f, n, s) ==
    /\ s \in Seq(Nodes)
    /\ n = NodeAt(s, 1)
    /\ \A i \in 1..Len(s) : f[s[i]] = NodeAt(s, i + 1)
    /\ \A i, j \in 1..Len(s) : s[i] = s[j] => i = j

\* A chain of links of at most MaxNodes nodes is what ChainOf computes.
LEMMA WalkGivesList ==
    ASSUME NEW f \in [Nodes -> Nodes \cup {NULL}],
           NEW n, NEW s, IsList(f, n, s), Len(s) <= MaxNodes
    PROVE  ChainOf(f, n) = s
<1>1. PICK w : /\ \A k \in 0..MaxNodes : w[k] = Step(f, w, k)
               /\ \A m : ChainOf(f, m) = w[MaxNodes][m]
  BY ChainIsWalk
<1>2. ASSUME NEW k \in 0..MaxNodes, NEW m \in Nodes \cup {NULL}
      PROVE  w[k][m] = IF k = 0 \/ m = NULL THEN <<>> ELSE <<m>> \o w[k - 1][f[m]]
  BY <1>1 DEF Step
<1> DEFINE N == Len(s)
           Rest(j) == SubSeq(s, N - j + 1, N)
           P(j) == \A k \in j..MaxNodes : w[k][NodeAt(s, N - j + 1)] = Rest(j)
           S == {j \in Nat : j <= N => P(j)}
<1>3. N \in Nat /\ N <= MaxNodes /\ MaxNodes \in Nat /\ s \in Seq(Nodes)
  BY BoundsAssumption DEF IsList
<1> HIDE DEF N
<1>4. P(0)
  <2>1. Rest(0) = <<>> /\ N - 0 + 1 = N + 1
    BY <1>3
  <2>2. NodeAt(s, N + 1) = NULL
    BY <1>3 DEF NodeAt, N
  <2>3. ASSUME NEW k \in 0..MaxNodes PROVE w[k][NULL] = <<>>
    BY <1>2
  <2> QED BY <2>1, <2>2, <2>3
<1>5. ASSUME NEW j \in Nat, j + 1 <= N, P(j) PROVE P(j + 1)
  <2> SUFFICES ASSUME NEW k \in (j + 1)..MaxNodes
               PROVE  w[k][NodeAt(s, N - (j + 1) + 1)] = Rest(j + 1)
    OBVIOUS
  <2> DEFINE i == N - j
  <2>1. i \in 1..N /\ N - (j + 1) + 1 = i /\ N - j + 1 = i + 1
    BY <1>3, <1>5
  <2>6. k \in 0..MaxNodes /\ k # 0 /\ k - 1 \in j..MaxNodes
    BY <1>3
  <2> HIDE DEF i
  <2>2. NodeAt(s, i) = s[i] /\ s[i] \in Nodes /\ s[i] # NULL /\ f[s[i]] = NodeAt(s, i + 1)
    BY <1>3, <2>1 DEF NodeAt, IsList, Nodes, NULL, N
  <2>3. w[k - 1][NodeAt(s, i + 1)] = Rest(j)
    BY <1>5, <2>1, <2>6
  <2>4. Rest(j + 1) = <<s[i]>> \o Rest(j)
    <3>1. SubSeq(s, i, N) = <<s[i]>> \o SubSeq(s, i + 1, N)
      BY <1>3, <2>1, SubSeqRecursiveFirst DEF N
    <3> QED BY <2>1, <3>1
  <2>5. w[k][s[i]] = <<s[i]>> \o w[k - 1][f[s[i]]]
    BY <1>2, <2>2, <2>6
  <2> QED BY <2>1, <2>2, <2>3, <2>4, <2>5
<1> HIDE DEF P
<1>6. S = Nat
  <2>1. 0 \in S
    BY <1>4
  <2>2. ASSUME NEW j \in S PROVE j + 1 \in S
    BY <1>3, <1>5
  <2> HIDE DEF S
  <2> QED BY <2>1, <2>2, Induction DEF S
<1>7. w[MaxNodes][NodeAt(s, 1)] = Rest(N)
  <2>1. N - N + 1 = 1 /\ MaxNodes \in N..MaxNodes
    BY <1>3
  <2>2. N \in S
    BY <1>3, <1>6
  <2>3. P(N)
    BY <1>3, <2>2
  <2> QED  BY <2>1, <2>3 DEF P
<1>8. Rest(N) = s
  BY <1>3, SubSeqFull DEF N
<1> QED  BY <1>1, <1>7, <1>8 DEF IsList

\* The sequence s with n put at place i, and without its place i.
With(s, i, n) ==
    [k \in 1..(Len(s) + 1) |-> IF k < i THEN s[k] ELSE IF k = i THEN n ELSE s[k - 1]]

Without(s, i) == [k \in 1..(Len(s) - 1) |-> IF k < i THEN s[k] ELSE s[k + 1]]

\* A list has distinct nodes, so it has at most MaxNodes of them.
LEMMA ListLength ==
    ASSUME NEW f, NEW n, NEW s, IsList(f, n, s)
    PROVE  /\ InList(s) \subseteq Nodes
           /\ IsFiniteSet(InList(s))
           /\ Cardinality(InList(s)) = Len(s)
           /\ Len(s) <= MaxNodes
<1>1. s \in [1..Len(s) -> Nodes] /\ Len(s) \in Nat
  BY DEF IsList
<1>2. InList(s) \subseteq Nodes
  BY <1>1 DEF InList
<1>3. s \in Bijection(1..Len(s), InList(s))
  <2>1. s \in [1..Len(s) -> InList(s)]
    BY <1>1 DEF InList
  <2>2. \A x, y \in 1..Len(s) : s[x] = s[y] => x = y
    BY DEF IsList
  <2>3. \A t \in InList(s) : \E x \in 1..Len(s) : s[x] = t
    BY DEF InList
  <2> QED BY <2>1, <2>2, <2>3 DEF Bijection, Injection, Surjection, IsInjective
<1>4. IsFiniteSet(1..Len(s)) /\ Cardinality(1..Len(s)) = Len(s)
  <2>1. \A k \in Nat : IsFiniteSet(1..k) /\ Cardinality(1..k) = k
    <3> TAKE k \in Nat
    <3>1. IsFiniteSet(1..k) /\ Cardinality(1..k) = IF 1 > k THEN 0 ELSE k - 1 + 1
      BY FS_Interval
    <3> QED BY <3>1
  <2> QED BY <1>1, <2>1
<1>5. IsFiniteSet(InList(s)) /\ Cardinality(InList(s)) = Len(s)
  BY <1>3, <1>4, FS_Bijection DEF ExistsBijection
<1>6. IsFiniteSet(Nodes) /\ Cardinality(Nodes) = MaxNodes
  BY FS_Interval, BoundsAssumption DEF Nodes
<1> QED  BY <1>2, <1>5, <1>6, FS_Subset

\* ChainOf gives the list of a head, if there is one.
LEMMA ListIsChain ==
    ASSUME NEW f \in [Nodes -> Nodes \cup {NULL}], NEW n, NEW s, IsList(f, n, s)
    PROVE  ChainOf(f, n) = s
BY ListLength, WalkGivesList

\* A list is the same as long as the links of its nodes are.
LEMMA SameList ==
    ASSUME NEW f, NEW g, NEW n, NEW s, IsList(f, n, s), \A m \in InList(s) : g[m] = f[m]
    PROVE  IsList(g, n, s)
BY DEF IsList, InList

\* _updateNode: linking a new node between two neighbours puts it into the
\* list.
LEMMA WithList ==
    ASSUME NEW f, NEW g, NEW h, NEW s, IsList(f, h, s),
           NEW i \in 1..(Len(s) + 1), NEW n \in Nodes \ InList(s),
           NEW first, first = IF i = 1 THEN n ELSE h,
           g[n] = NodeAt(s, i),
           i > 1 => g[s[i - 1]] = n,
           \A k \in 1..Len(s) : k # i - 1 => g[s[k]] = f[s[k]]
    PROVE  /\ IsList(g, first, With(s, i, n))
           /\ InList(With(s, i, n)) = InList(s) \cup {n}
<1> DEFINE t == With(s, i, n)
<1>1. s \in [1..Len(s) -> Nodes] /\ Len(s) \in Nat
  BY DEF IsList
<1>2. t \in Seq(Nodes) /\ Len(t) = Len(s) + 1
  BY <1>1 DEF With
<1>3. \A k \in 1..(Len(s) + 1) : t[k] = IF k < i THEN s[k] ELSE IF k = i THEN n ELSE s[k - 1]
  BY DEF With
<1> HIDE DEF t
<1>4. first = NodeAt(t, 1)
  BY <1>1, <1>2, <1>3 DEF NodeAt, IsList
<1>5. ASSUME NEW k \in 1..Len(t) PROVE g[t[k]] = NodeAt(t, k + 1)
  <2>1. CASE k < i - 1
    BY <1>1, <1>2, <1>3, <2>1 DEF NodeAt, IsList
  <2>2. CASE k = i - 1
    BY <1>1, <1>2, <1>3, <2>2 DEF NodeAt, IsList
  <2>3. CASE k = i
    BY <1>1, <1>2, <1>3, <2>3 DEF NodeAt, IsList
  <2>4. CASE k > i
    BY <1>1, <1>2, <1>3, <2>4 DEF NodeAt, IsList
  <2> QED BY <2>1, <2>2, <2>3, <2>4
<1>6. \A j, k \in 1..Len(t) : t[j] = t[k] => j = k
  BY <1>1, <1>2, <1>3 DEF InList, IsList
<1>7. InList(t) = InList(s) \cup {n}
  <2>1. \A k \in 1..Len(t) : t[k] \in InList(s) \cup {n}
    BY <1>1, <1>2, <1>3 DEF InList
  <2>2. n = t[i] /\ i \in 1..Len(t)
    BY <1>1, <1>2, <1>3
  <2>3. ASSUME NEW k \in 1..Len(s) PROVE \E j \in 1..Len(t) : t[j] = s[k]
    <3>1. CASE k < i
      BY <1>1, <1>2, <1>3, <3>1
    <3>2. CASE k >= i
      <4>1. k + 1 \in 1..Len(t) /\ t[k + 1] = s[k]
        BY <1>1, <1>2, <1>3, <3>2
      <4> QED BY <4>1
    <3> QED BY <1>1, <3>1, <3>2
  <2>4. InList(t) \subseteq InList(s) \cup {n}
    BY <2>1 DEF InList
  <2>5. ASSUME NEW m \in InList(s) PROVE m \in InList(t)
    <3>1. PICK k \in 1..Len(s) : m = s[k]
      BY DEF InList
    <3> QED BY <2>3, <3>1 DEF InList
  <2>6. n \in InList(t)
    BY <2>2 DEF InList
  <2> QED BY <2>4, <2>5, <2>6
<1> QED  BY <1>2, <1>4, <1>5, <1>6, <1>7 DEF IsList, t

\* _cleanUpNodes: linking the neighbours of a node takes it out of the list.
LEMMA WithoutList ==
    ASSUME NEW f, NEW g, NEW h, NEW s, IsList(f, h, s), NEW i \in 1..Len(s),
           NEW first, first = IF i = 1 THEN f[h] ELSE h,
           i > 1 => g[s[i - 1]] = f[s[i]],
           \A k \in 1..Len(s) : k \notin {i - 1, i} => g[s[k]] = f[s[k]]
    PROVE  /\ IsList(g, first, Without(s, i))
           /\ InList(Without(s, i)) = InList(s) \ {s[i]}
<1> DEFINE t == Without(s, i)
<1>1. s \in [1..Len(s) -> Nodes] /\ Len(s) \in Nat
  BY DEF IsList
<1>2. t \in Seq(Nodes) /\ Len(t) = Len(s) - 1
  BY <1>1 DEF Without
<1>3. \A k \in 1..(Len(s) - 1) : t[k] = IF k < i THEN s[k] ELSE s[k + 1]
  BY DEF Without
<1> HIDE DEF t
<1>4. first = NodeAt(t, 1)
  BY <1>1, <1>2, <1>3 DEF NodeAt, IsList
<1>5. \A k \in 1..Len(t) : g[t[k]] = NodeAt(t, k + 1)
  BY <1>1, <1>2, <1>3 DEF NodeAt, IsList
<1>6. ASSUME NEW j \in 1..Len(t), NEW k \in 1..Len(t), t[j] = t[k] PROVE j = k
  <2> DEFINE at(x) == IF x < i THEN x ELSE x + 1
  <2>1. t[j] = s[at(j)] /\ t[k] = s[at(k)] /\ at(j) \in 1..Len(s) /\ at(k) \in 1..Len(s)
    BY <1>1, <1>2, <1>3
  <2>2. ASSUME NEW x \in 1..Len(s), NEW y \in 1..Len(s), s[x] = s[y] PROVE x = y
    BY <2>2 DEF IsList
  <2> HIDE DEF at
  <2>3. at(j) = at(k)
    BY <1>6, <2>1, <2>2
  <2> QED BY <2>3 DEF at
<1>7. InList(t) = InList(s) \ {s[i]}
  <2>1. ASSUME NEW k \in 1..Len(t) PROVE t[k] \in InList(s) /\ t[k] # s[i]
    BY <1>1, <1>2, <1>3 DEF InList, IsList
  <2>2. ASSUME NEW k \in 1..Len(s), k # i PROVE \E j \in 1..Len(t) : t[j] = s[k]
    <3>1. CASE k < i
      BY <1>1, <1>2, <1>3, <3>1
    <3>2. CASE k > i
      <4>1. k - 1 \in 1..Len(t) /\ t[k - 1] = s[k]
        BY <1>1, <1>2, <1>3, <3>2
      <4> QED BY <4>1
    <3> QED BY <2>2, <3>1, <3>2
  <2>3. InList(t) \subseteq InList(s) \ {s[i]}
    BY <2>1 DEF InList
  <2>4. ASSUME NEW m \in InList(s) \ {s[i]} PROVE m \in InList(t)
    <3>1. PICK k \in 1..Len(s) : m = s[k]
      BY DEF InList
    <3> QED BY <2>2, <3>1 DEF InList
  <2> QED BY <2>3, <2>4
<1> QED  BY <1>2, <1>4, <1>5, <1>6, <1>7 DEF IsList, t
=============================================================================
