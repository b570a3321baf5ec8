----------------------------- MODULE StoreProofs -----------------------------
(***************************************************************************)
(* The store keeps its lists, for any number of nodes, addresses and       *)
(* lists, and (but for what a fetch reads after the mutex was released)    *)
(* any number of workers: the sorted lists and the counters, the cleaner's *)
(* place, what it has passed and what it may remove. With one worker the   *)
(* store implements StoreMap.                                              *)
(*                                                                         *)
(* The inductive invariant IInv has three parts. ListsInv: every list head *)
(* and the free list lead through distinct nodes to NULL, and each list is *)
(* in descending order of the addresses of its hash value. CleanerInv:     *)
(* between two critical sections prv is a node of the list being cleaned,  *)
(* and neither it nor any node before it, in this list or in those that    *)
(* are done, is old. Types: the type of each variable.                     *)
(***************************************************************************)
EXTENDS StoreLists

\* The nodes of list b hold records, of its hash value, in descending order of
\* their addresses.
Sorted(d, s, b) ==
    /\ \A i \in 1..Len(s) : d[s[i]] \in Record /\ Hash(d[s[i]].ip) = b
    /\ \A i, j \in 1..Len(s) : i < j => d[s[i]].ip > d[s[j]].ip

\* The lists between two critical sections.
ListsInv ==
    /\ \A b \in Buckets : IsList(nxt, heads[b], List(b)) /\ Sorted(data, List(b), b)
    /\ IsList(nxt, freeList, Chain(freeList))
    /\ malloced = Linked \cup FreeNodes
    /\ Linked \cap FreeNodes = {}
    /\ count = Cardinality(Linked)
    /\ freeCount = Cardinality(FreeNodes)

\* The walk of _updateNode and _fetchNode passes the larger addresses and no
\* others.
LEMMA StopAt ==
    ASSUME NEW s, NEW b, s \in Seq(Nodes), Sorted(data, s, b), NEW ip \in Nat
    PROVE  /\ Stop(s, ip) \in 1..(Len(s) + 1)
           /\ \A j \in 1..Len(s) : j < Stop(s, ip) <=> data[s[j]].ip > ip
<1> DEFINE stops == {i \in 1..Len(s) : data[s[i]].ip <= ip}
<1>1. Len(s) \in Nat
  OBVIOUS
<1>4. ASSUME NEW i \in 1..Len(s) PROVE data[s[i]].ip \in Nat
  <2>1. data[s[i]] \in Record
    BY DEF Sorted
  <2> QED  BY <2>1, SetsAssumption DEF Record
<1>2. CASE stops = {}
  BY <1>1, <1>2, <1>4 DEF Stop
<1>3. CASE stops # {}
  <2>1. \E i \in stops : \A j \in stops : i <= j
    <3>1. stops \in SUBSET Nat
      BY <1>1
    <3> HIDE DEF stops
    <3> QED  BY <1>3, <3>1, Smallest
  <2>2. Stop(s, ip) \in stops /\ \A j \in stops : Stop(s, ip) <= j
    BY <1>3, <2>1 DEF Stop
  <2> QED  BY <1>1, <1>4, <2>2 DEF Sorted
<1> QED  BY <1>2, <1>3

\* The counters of a list manager that keeps its lists are within its nodes.
LEMMA Counted ==
    ASSUME ListsInv
    PROVE  /\ Linked \subseteq Nodes /\ FreeNodes \subseteq Nodes
           /\ IsFiniteSet(Linked) /\ IsFiniteSet(FreeNodes)
           /\ count \in 0..MaxNodes /\ freeCount \in 0..MaxNodes
<1>1. Linked \subseteq Nodes /\ FreeNodes \subseteq Nodes
  BY ListLength DEF ListsInv, Linked, FreeNodes
<1>2. IsFiniteSet(Nodes) /\ Cardinality(Nodes) = MaxNodes
  BY FS_Interval, BoundsAssumption DEF Nodes
<1> QED  BY <1>1, <1>2, FS_Subset, FS_CardinalityType, BoundsAssumption DEF ListsInv

\* No node is in the lists of two hash values.
LEMMA Apart ==
    ASSUME ListsInv, NEW b \in Buckets, NEW c \in Buckets, b # c
    PROVE  InList(List(b)) \cap InList(List(c)) = {}
BY DEF ListsInv, Sorted, InList

\* What the next lists are: the sequences that the next links lead through.
LEMMA ListsAre ==
    ASSUME nxt' \in [Nodes -> Nodes \cup {NULL}], NEW L, NEW F,
           \A b \in Buckets : IsList(nxt', heads'[b], L[b]),
           IsList(nxt', freeList', F)
    PROVE  /\ \A b \in Buckets : List(b)' = L[b]
           /\ Chain(freeList)' = F
BY ListIsChain DEF List, Chain

\* Each address has a list.
LEMMA HashIn == ASSUME NEW ip \in Ips PROVE Hash(ip) \in Buckets /\ ip \in Nat
BY SetsAssumption, BoundsAssumption DEF Hash, Buckets

\* The types of the variables of the list manager.
ListTypes ==
    /\ heads \in [Buckets -> Nodes \cup {NULL}]
    /\ nxt \in [Nodes -> Nodes \cup {NULL}]
    /\ data \in [Nodes -> Record \cup {Zeroes}]
    /\ freeList \in Nodes \cup {NULL}
    /\ malloced \subseteq Nodes
    /\ now \in 0..MaxNow

\* Insert puts a node into the list of the address, at the place where the
\* walk stops, whether the node was free or new and the place the first, the
\* last or in between, and keeps the lists.
LEMMA InsertShape ==
    ASSUME ListTypes, ListsInv, NEW w \in Workers,
           NEW ip \in Ips, NEW seq \in SeqIds, NEW ts \in Times, Insert(w, ip, seq, ts)
    PROVE  \E n \in Nodes \ Linked :
              /\ data' = [data EXCEPT ![n] = NewRecord(ip, seq, ts)]
              /\ \A c \in Buckets : List(c)' = IF c = Hash(ip)
                                            THEN With(List(c), Stop(List(c), ip), n)
                                            ELSE List(c)
              /\ Linked' = Linked \cup {n}
              /\ ListsInv'
<1> DEFINE b == Hash(ip)
           s == List(b)
           i == Stop(s, ip)
           cur == IF i <= Len(s) THEN s[i] ELSE NULL
           F == Chain(freeList)
<1>1. /\ b \in Buckets /\ ip \in Nat
      /\ IsList(nxt, heads[b], s) /\ Sorted(data, s, b)
      /\ IsList(nxt, freeList, F)
  BY HashIn DEF ListsInv
<1>2. /\ s \in Seq(Nodes) /\ Len(s) \in Nat /\ i \in 1..(Len(s) + 1)
      /\ \A j \in 1..Len(s) : j < i <=> data[s[j]].ip > ip
  <2>1. s \in Seq(Nodes) /\ Len(s) \in Nat
    BY <1>1 DEF IsList
  <2> QED  BY <1>1, <2>1, StopAt
<1>3. PICK n \in Nodes :
        /\ GetFreeNode(n)
        /\ data' = [data EXCEPT ![n] = NewRecord(ip, seq, ts)]
        /\ IF i = 1 THEN /\ heads' = [heads EXCEPT ![b] = n]
                         /\ nxt' = [nxt EXCEPT ![n] = cur]
           ELSE /\ nxt' = [nxt EXCEPT ![n] = cur, ![s[i - 1]] = n]
                /\ UNCHANGED heads
  BY DEF Insert
<1>4. ~Found(s, i, ip)
  BY DEF Insert
<1> HIDE DEF b, s, i, F
<1>5. s \in [1..Len(s) -> Linked] /\ \A c \in Buckets : InList(List(c)) \subseteq Linked
  BY <1>1, <1>2 DEF Linked, InList, s
<1>6. n \notin Linked
  <2>1. CASE freeList # NULL
    <3>1. n \in FreeNodes
      BY <1>1, <1>3, <2>1 DEF GetFreeNode, IsList, NodeAt, FreeNodes, InList, F
    <3> QED  BY <3>1 DEF ListsInv
  <2>2. CASE freeList = NULL
    BY <1>3, <2>2 DEF GetFreeNode, ListsInv
  <2> QED  BY <2>1, <2>2
<1>7. /\ nxt' \in [Nodes -> Nodes \cup {NULL}]
      /\ nxt'[n] = NodeAt(s, i)
      /\ i > 1 => nxt'[s[i - 1]] = n
      /\ \A m \in Nodes : m # n /\ (i > 1 => m # s[i - 1]) => nxt'[m] = nxt[m]
  BY <1>2, <1>3, <1>5, <1>6 DEF ListTypes, NodeAt
<1>8. /\ heads' \in [Buckets -> Nodes \cup {NULL}]
      /\ heads'[b] = IF i = 1 THEN n ELSE heads[b]
      /\ \A c \in Buckets \ {b} : heads'[c] = heads[c]
  BY <1>1, <1>3 DEF ListTypes
<1>9. IsList(nxt', heads'[b], With(s, i, n)) /\ InList(With(s, i, n)) = InList(s) \cup {n}
  <2>1. n \notin InList(s)
    BY <1>1, <1>5, <1>6 DEF s
  <2>2. \A k \in 1..Len(s) : k # i - 1 => nxt'[s[k]] = nxt[s[k]]
    <3> SUFFICES ASSUME NEW k \in 1..Len(s), k # i - 1 PROVE nxt'[s[k]] = nxt[s[k]]
      OBVIOUS
    <3>1. s[k] \in Nodes /\ s[k] # n
      BY <1>2, <1>5, <1>6
    <3>2. i > 1 => s[k] # s[i - 1]
      BY <1>1, <1>2 DEF IsList
    <3> QED  BY <1>7, <3>1, <3>2
  <2>3. n \in Nodes \ InList(s)
    BY <2>1
  <2>4. IsList(nxt, heads[b], s) /\ i \in 1..(Len(s) + 1)
    BY <1>1, <1>2
  <2>5. nxt'[n] = NodeAt(s, i) /\ (i > 1 => nxt'[s[i - 1]] = n)
    BY <1>7
  <2>6. heads'[b] = IF i = 1 THEN n ELSE heads[b]
    BY <1>8
  <2> QED  BY <2>2, <2>3, <2>4, <2>5, <2>6, WithList
<1>10. ASSUME NEW c \in Buckets \ {b}
       PROVE  IsList(nxt', heads'[c], List(c))
  <2>3. InList(List(c)) \subseteq Nodes
    BY ListLength DEF ListsInv
  <2>4. i > 1 => s[i - 1] \in InList(List(b))
    BY <1>2 DEF InList, s
  <2>1. \A m \in InList(List(c)) : m \in Nodes /\ m # n /\ (i > 1 => m # s[i - 1])
    BY <1>1, <1>5, <1>6, <2>3, <2>4, Apart
  <2> QED  BY <1>7, <1>8, <2>1, SameList DEF ListsInv
<1> DEFINE G == IF freeList # NULL THEN Without(F, 1) ELSE F
<1>11. IsList(nxt', freeList', G) /\ InList(G) = FreeNodes \ {n}
  <2>1. InList(F) = FreeNodes /\ FreeNodes \cap Linked = {}
    BY DEF FreeNodes, F, ListsInv
  <2>2. CASE freeList # NULL
    <3>1. n = F[1] /\ n = freeList /\ freeList' = nxt[n] /\ 1 \in 1..Len(F)
      BY <1>1, <1>3, <2>2 DEF GetFreeNode, IsList, NodeAt
    <3>2. \A k \in 1..Len(F) : k \notin {0, 1} => nxt'[F[k]] = nxt[F[k]]
      <4>1. \A k \in 1..Len(F) : F[k] \in Nodes /\ F[k] \in FreeNodes
        BY <1>1, <2>1 DEF InList, IsList
      <4>2. \A k \in 1..Len(F) : k # 1 => F[k] # n
        BY <1>1, <3>1 DEF IsList
      <4>3. i > 1 => s[i - 1] \in Linked
        BY <1>2, <1>5
      <4> QED  BY <1>7, <2>1, <4>1, <4>2, <4>3
    <3>3. IsList(nxt', freeList', Without(F, 1)) /\ InList(Without(F, 1)) = InList(F) \ {F[1]}
      <4>1. PICK j \in 1..Len(F) : j = 1
        BY <3>1
      <4>2. /\ j > 1 => nxt'[F[j - 1]] = nxt[F[j]]
            /\ \A k \in 1..Len(F) : k \notin {j - 1, j} => nxt'[F[k]] = nxt[F[k]]
            /\ freeList' = IF j = 1 THEN nxt[freeList] ELSE freeList
        BY <3>1, <3>2, <4>1
      <4>3. IsList(nxt', freeList', Without(F, j)) /\ InList(Without(F, j)) = InList(F) \ {F[j]}
        BY <1>1, <4>2, WithoutList
      <4> QED  BY <4>1, <4>3
    <3> QED  BY <2>1, <2>2, <3>1, <3>3
  <2>3. CASE freeList = NULL
    <3>2. Len(F) = 0
      <4>1. F \in [1..Len(F) -> Nodes] /\ Len(F) \in Nat
        BY <1>1 DEF IsList
      <4>2. Len(F) >= 1 => F[1] = NULL
        BY <1>1, <2>3, <4>1 DEF IsList, NodeAt
      <4> QED  BY <4>1, <4>2 DEF Nodes, NULL
    <3>1. InList(F) = {}
      BY <3>2 DEF InList
    <3> QED  BY <1>1, <1>3, <2>1, <2>3, <3>1, SameList DEF GetFreeNode
  <2> QED  BY <2>2, <2>3
<1> DEFINE L == [c \in Buckets |-> IF c = b THEN With(s, i, n) ELSE List(c)]
<1>12. /\ \A c \in Buckets : List(c)' = L[c]
       /\ Chain(freeList)' = G
  <2>1. \A c \in Buckets : IsList(nxt', heads'[c], L[c])
    BY <1>9, <1>10
  <2> HIDE DEF L, G
  <2> QED  BY <1>7, <1>11, <2>1, ListsAre
<1>13. Linked' = Linked \cup {n} /\ FreeNodes' = FreeNodes \ {n}
  <2>1. \A c \in Buckets : InList(List(c)') = IF c = b THEN InList(List(c)) \cup {n} ELSE InList(List(c))
    BY <1>9, <1>12 DEF s
  <2>2. Linked' = UNION {InList(List(c)') : c \in Buckets}
    BY DEF Linked, InList
  <2>3. Linked' = Linked \cup {n}
    BY <1>1, <2>1, <2>2 DEF Linked
  <2>4. FreeNodes' = InList(Chain(freeList)')
    BY DEF FreeNodes, InList
  <2> QED  BY <1>11, <1>12, <2>3, <2>4
<1>14. ListsInv'
  <2>1. malloced' = Linked' \cup FreeNodes' /\ Linked' \cap FreeNodes' = {}
    <3>1. freeList # NULL => n \in FreeNodes
      BY <1>1, <1>3 DEF GetFreeNode, IsList, NodeAt, FreeNodes, InList, F
    <3> QED  BY <1>3, <1>13, <3>1 DEF GetFreeNode, ListsInv
  <2>2. count' = Cardinality(Linked') /\ freeCount' = Cardinality(FreeNodes')
    <3>1. freeList # NULL => n \in FreeNodes
      BY <1>1, <1>3 DEF GetFreeNode, IsList, NodeAt, FreeNodes, InList, F
    <3>2. freeList = NULL => n \notin FreeNodes
      BY <1>3 DEF GetFreeNode, ListsInv
    <3> QED  BY <1>3, <1>6, <1>13, <3>1, <3>2, Counted, FS_AddElement, FS_RemoveElement DEF GetFreeNode, ListsInv
  <2>3. ASSUME NEW c \in Buckets PROVE Sorted(data', List(c)', c)
    <3>1. CASE c # b
      BY <1>3, <1>5, <1>6, <1>12, <3>1 DEF ListsInv, Sorted, InList
    <3>2. CASE c = b
      <4>1. NewRecord(ip, seq, ts) \in Record
        BY SetsAssumption, BoundsAssumption DEF ListTypes, NewRecord, Record
      <4> DEFINE t == With(s, i, n)
      <4>2. \A k \in 1..Len(t) : t[k] = IF k < i THEN s[k] ELSE IF k = i THEN n ELSE s[k - 1]
        BY <1>2 DEF With
      <4>3. Len(t) = Len(s) + 1
        BY <1>2 DEF With
      <4>4. data'[n] = NewRecord(ip, seq, ts) /\ \A k \in 1..Len(s) : data'[s[k]] = data[s[k]]
        BY <1>2, <1>3, <1>5, <1>6 DEF ListTypes
      <4>5. ASSUME NEW k \in 1..Len(s)
            PROVE  /\ data[s[k]] \in Record /\ data[s[k]].ip \in Nat
                   /\ k >= i => data[s[k]].ip < ip
        <5>1. data[s[k]] \in Record
          BY <1>1 DEF Sorted
        <5>2. data[s[k]].ip \in Nat
          BY <5>1, SetsAssumption DEF Record
        <5>3. CASE k > i
          <6>2. i \in 1..Len(s) /\ ~(data[s[i]].ip > ip) /\ data[s[i]] \in Record
            BY <1>1, <1>2, <5>3 DEF Sorted
          <6>1. data[s[i]].ip > data[s[k]].ip /\ ~(data[s[i]].ip > ip) /\ data[s[i]].ip \in Nat
            BY <1>1, <6>2, <5>3, SetsAssumption DEF Sorted, Record
          <6> QED  BY <1>1, <5>1, <5>2, <6>1
        <5>4. CASE k = i
          BY <1>1, <1>2, <1>4, <5>1, <5>2, <5>4 DEF Found
        <5> QED  BY <1>2, <5>1, <5>2, <5>3, <5>4
      <4> HIDE DEF t
      <4>6. ASSUME NEW k \in 1..Len(t)
            PROVE  data'[t[k]] \in Record /\ Hash(data'[t[k]].ip) = b
        <5>1. CASE k < i
          BY <1>1, <1>2, <4>2, <4>3, <4>4, <5>1 DEF Sorted
        <5>2. CASE k = i
          BY <1>2, <4>1, <4>2, <4>3, <4>4, <5>2 DEF NewRecord, b
        <5>3. CASE k > i
          <6>1. t[k] = s[k - 1] /\ k - 1 \in 1..Len(s)
            BY <1>2, <4>2, <4>3, <5>3
          <6> QED  BY <1>1, <4>4, <6>1 DEF Sorted
        <5> QED  BY <1>2, <4>3, <5>1, <5>2, <5>3
      <4>7. ASSUME NEW j \in 1..Len(t), NEW k \in 1..Len(t), j < k
            PROVE  data'[t[j]].ip > data'[t[k]].ip
        <5>1. data'[n].ip = ip
          BY <4>4 DEF NewRecord
        <5>2. CASE j < i /\ k < i
          BY <1>1, <1>2, <4>2, <4>3, <4>4, <4>7, <5>2 DEF Sorted
        <5>3. CASE j < i /\ k = i
          BY <1>1, <1>2, <4>2, <4>3, <4>4, <4>7, <5>1, <5>3
        <5>4. CASE j < i /\ k > i
          <6>1. t[j] = s[j] /\ t[k] = s[k - 1] /\ j < k - 1 /\ j \in 1..Len(s) /\ k - 1 \in 1..Len(s)
            BY <1>2, <4>2, <4>3, <5>4
          <6> QED  BY <1>1, <4>4, <6>1 DEF Sorted
        <5>5. CASE j = i
          <6>1. t[k] = s[k - 1] /\ k - 1 >= i /\ k - 1 \in 1..Len(s) /\ t[j] = n
            BY <1>2, <4>2, <4>3, <4>7, <5>5
          <6> QED  BY <1>1, <4>4, <4>5, <5>1, <6>1
        <5>6. CASE j > i
          <6>1. t[j] = s[j - 1] /\ t[k] = s[k - 1] /\ j - 1 < k - 1 /\ j - 1 \in 1..Len(s) /\ k - 1 \in 1..Len(s)
            BY <1>2, <4>2, <4>3, <4>7, <5>6
          <6> QED  BY <1>1, <4>4, <6>1 DEF Sorted
        <5> QED  BY <1>2, <4>3, <4>7, <5>2, <5>3, <5>4, <5>5, <5>6
      <4> QED  BY <1>12, <3>2, <4>6, <4>7 DEF Sorted, t
    <3> QED  BY <3>1, <3>2
  <2>4. ASSUME NEW c \in Buckets PROVE IsList(nxt', heads'[c], List(c)')
    BY <1>9, <1>10, <1>12
  <2>5. IsList(nxt', freeList', Chain(freeList)')
    BY <1>11, <1>12
  <2> QED  BY <2>1, <2>2, <2>3, <2>4, <2>5 DEF ListsInv, IsList, Sorted
<1> QED  BY <1>3, <1>6, <1>12, <1>13, <1>14 DEF b, s, i

\* Removing the node at a place of a list, as the cleaner does with the head
\* and with the node after prv, keeps the lists.
LEMMA RemoveShape ==
    ASSUME ListTypes, ListsInv, NEW b \in Buckets, NEW i \in 1..Len(List(b)),
           NEW cur, cur = List(b)[i],
           i = 1 => /\ heads' = [heads EXCEPT ![b] = nxt[cur]]
                    /\ nxt' = [nxt EXCEPT ![cur] = freeList],
           i > 1 => /\ heads' = heads
                    /\ nxt' = [nxt EXCEPT ![List(b)[i - 1]] = nxt[cur], ![cur] = freeList],
           FreeNode(cur), data' = data, malloced' = malloced
    PROVE  /\ \A c \in Buckets : List(c)' = IF c = b THEN Without(List(c), i) ELSE List(c)
           /\ Linked' = Linked \ {cur}
           /\ ListsInv'
<1> DEFINE s == List(b)
           F == Chain(freeList)
<1>1. /\ IsList(nxt, heads[b], s) /\ Sorted(data, s, b)
      /\ IsList(nxt, freeList, F)
      /\ s \in [1..Len(s) -> Nodes] /\ s \in Seq(Nodes) /\ Len(s) \in Nat /\ i \in 1..Len(s) /\ cur = s[i]
  BY DEF ListsInv, IsList
<1>2. cur \in InList(s) /\ cur \in Linked /\ cur \in Nodes /\ cur \notin FreeNodes
  BY <1>1 DEF Linked, InList, ListsInv
<1>3. \A k \in 1..Len(s) : s[k] \in Linked /\ (k # i => s[k] # cur) /\ (i > 1 /\ k # i - 1 => s[k] # s[i - 1])
  BY <1>1 DEF IsList, InList, Linked
<1>4. /\ nxt' \in [Nodes -> Nodes \cup {NULL}]
      /\ nxt'[cur] = freeList
      /\ i > 1 => nxt'[s[i - 1]] = nxt[cur]
      /\ \A m \in Nodes : m # cur /\ (i > 1 => m # s[i - 1]) => nxt'[m] = nxt[m]
  <2>1. nxt[cur] \in Nodes \cup {NULL} /\ freeList \in Nodes \cup {NULL}
    BY <1>2 DEF ListTypes
  <2>2. CASE i = 1
    BY <1>1, <1>2, <2>1, <2>2 DEF ListTypes
  <2>3. CASE i > 1
    <3>1. s[i - 1] \in Nodes /\ s[i - 1] # cur
      BY <1>1, <1>3, <2>3
    <3> QED  BY <1>1, <1>2, <2>1, <2>3, <3>1 DEF ListTypes
  <2> QED  BY <1>1, <2>2, <2>3
<1>5. /\ heads'[b] = IF i = 1 THEN nxt[heads[b]] ELSE heads[b]
      /\ \A c \in Buckets \ {b} : heads'[c] = heads[c]
  <2>1. i = 1 => heads[b] = cur
    BY <1>1 DEF IsList, NodeAt
  <2> QED  BY <1>1, <2>1 DEF ListTypes
<1> HIDE DEF s, F
<1>6. IsList(nxt', heads'[b], Without(s, i)) /\ InList(Without(s, i)) = InList(s) \ {cur}
  <2>1. \A k \in 1..Len(s) : k \notin {i - 1, i} => nxt'[s[k]] = nxt[s[k]]
    BY <1>1, <1>3, <1>4
  <2>2. i > 1 => nxt'[s[i - 1]] = nxt[s[i]]
    BY <1>1, <1>4
  <2>3. heads'[b] = IF i = 1 THEN nxt[heads[b]] ELSE heads[b]
    BY <1>5
  <2>4. IsList(nxt, heads[b], s) /\ i \in 1..Len(s)
    BY <1>1
  <2>5. IsList(nxt', heads'[b], Without(s, i)) /\ InList(Without(s, i)) = InList(s) \ {s[i]}
    BY <2>1, <2>2, <2>3, <2>4, WithoutList
  <2> QED  BY <1>1, <2>5
<1>7. ASSUME NEW c \in Buckets \ {b}
      PROVE  IsList(nxt', heads'[c], List(c)) /\ cur \notin InList(List(c))
  <2>1. InList(List(c)) \subseteq Nodes /\ InList(List(c)) \cap InList(s) = {}
    BY ListLength, Apart DEF ListsInv, s
  <2>2. i > 1 => s[i - 1] \in InList(s)
    BY <1>1 DEF InList
  <2>3. \A m \in InList(List(c)) : nxt'[m] = nxt[m]
    BY <1>2, <1>4, <2>1, <2>2
  <2> QED  BY <1>2, <1>5, <2>1, <2>3, SameList DEF ListsInv
<1>8. freeList' = cur /\ count' = count - 1 /\ freeCount' = freeCount + 1
  BY DEF FreeNode
<1>9. IsList(nxt', freeList', With(F, 1, cur)) /\ InList(With(F, 1, cur)) = FreeNodes \cup {cur}
  <2>1. InList(F) = FreeNodes /\ FreeNodes \cap Linked = {} /\ FreeNodes \subseteq Nodes
    BY Counted DEF FreeNodes, F, ListsInv
  <2>2. ASSUME NEW k \in 1..Len(F) PROVE nxt'[F[k]] = nxt[F[k]]
    <3>1. F[k] \in FreeNodes
      BY <2>1 DEF InList
    <3>2. i > 1 => s[i - 1] \in Linked
      BY <1>1, <1>3
    <3> QED  BY <1>2, <1>4, <2>1, <3>1, <3>2
  <2>3. freeList = NodeAt(F, 1) /\ Len(F) \in Nat
    BY <1>1 DEF IsList
  <2>4. PICK j \in 1..(Len(F) + 1) : j = 1
    BY <2>3
  <2>5. /\ nxt'[cur] = NodeAt(F, j)
        /\ j > 1 => nxt'[F[j - 1]] = cur
        /\ \A k \in 1..Len(F) : k # j - 1 => nxt'[F[k]] = nxt[F[k]]
        /\ freeList' = IF j = 1 THEN cur ELSE freeList
        /\ cur \in Nodes \ InList(F)
    BY <1>2, <1>4, <1>8, <2>1, <2>2, <2>3, <2>4
  <2>6. IsList(nxt', freeList', With(F, j, cur)) /\ InList(With(F, j, cur)) = InList(F) \cup {cur}
    BY <1>1, <2>5, WithList
  <2> QED  BY <2>1, <2>4, <2>6
<1> DEFINE L == [c \in Buckets |-> IF c = b THEN Without(s, i) ELSE List(c)]
           G == With(F, 1, cur)
<1>10. /\ \A c \in Buckets : List(c)' = L[c]
       /\ Chain(freeList)' = G
  <2>1. \A c \in Buckets : IsList(nxt', heads'[c], L[c])
    BY <1>6, <1>7
  <2> HIDE DEF L, G
  <2>2. IsList(nxt', freeList', G)
    BY <1>9 DEF G
  <2> QED  BY <1>4, <2>1, <2>2, ListsAre
<1>11. Linked' = Linked \ {cur} /\ FreeNodes' = FreeNodes \cup {cur}
  <2>1. \A c \in Buckets : InList(List(c)') = InList(List(c)) \ {cur}
    BY <1>6, <1>7, <1>10 DEF s
  <2>2. Linked' = UNION {InList(List(c)') : c \in Buckets}
    BY DEF Linked, InList
  <2>3. Linked' = Linked \ {cur}
    BY <2>1, <2>2 DEF Linked
  <2>4. FreeNodes' = InList(Chain(freeList)')
    BY DEF FreeNodes, InList
  <2> QED  BY <1>9, <1>10, <2>3, <2>4
<1>12. ListsInv'
  <2>1. malloced' = Linked' \cup FreeNodes' /\ Linked' \cap FreeNodes' = {}
    BY <1>2, <1>11 DEF ListsInv
  <2>2. count' = Cardinality(Linked') /\ freeCount' = Cardinality(FreeNodes')
    BY <1>2, <1>8, <1>11, Counted, FS_AddElement, FS_RemoveElement DEF ListsInv
  <2>3. ASSUME NEW c \in Buckets PROVE Sorted(data', List(c)', c)
    <3>1. CASE c # b
      BY <1>10, <3>1 DEF ListsInv, Sorted
    <3>2. CASE c = b
      <4> DEFINE t == Without(s, i)
      <4>1. \A k \in 1..Len(t) : t[k] = IF k < i THEN s[k] ELSE s[k + 1]
        BY <1>1 DEF Without
      <4>2. Len(t) = Len(s) - 1
        BY <1>1 DEF Without
      <4> HIDE DEF t
      <4> DEFINE at(k) == IF k < i THEN k ELSE k + 1
      <4>3. \A k \in 1..Len(t) : t[k] = s[at(k)] /\ at(k) \in 1..Len(s)
        BY <1>1, <4>1, <4>2
      <4>4. \A j, k \in 1..Len(t) : j < k => at(j) < at(k)
        BY <1>1, <4>2
      <4> HIDE DEF at
      <4>5. Sorted(data, t, b)
        BY <1>1, <4>3, <4>4 DEF Sorted
      <4> QED  BY <1>10, <3>2, <4>5 DEF t
    <3> QED  BY <3>1, <3>2
  <2>4. ASSUME NEW c \in Buckets PROVE IsList(nxt', heads'[c], List(c)')
    BY <1>6, <1>7, <1>10
  <2>5. IsList(nxt', freeList', Chain(freeList)')
    BY <1>9, <1>10
  <2> QED  BY <2>1, <2>2, <2>3, <2>4, <2>5 DEF ListsInv, IsList, Sorted
<1> QED  BY <1>10, <1>11, <1>12 DEF s

\* Writing into records keeps the lists, if the addresses stay.
LEMMA SameShape ==
    ASSUME ListsInv, UNCHANGED <<heads, nxt, freeList, count, freeCount, malloced>>,
           \A n \in Linked : data'[n] \in Record /\ data'[n].ip = data[n].ip
    PROVE  /\ \A c \in Buckets : List(c)' = List(c)
           /\ Linked' = Linked
           /\ ListsInv'
<1>1. /\ \A c \in Buckets : List(c)' = List(c)
      /\ Linked' = Linked /\ FreeNodes' = FreeNodes /\ Chain(freeList)' = Chain(freeList)
  BY DEF List, Chain, Linked, FreeNodes, InList
<1>2. ASSUME NEW c \in Buckets PROVE Sorted(data', List(c), c)
  <2>1. \A i \in 1..Len(List(c)) : List(c)[i] \in Linked
    BY DEF Linked, InList
  <2> QED  BY <2>1 DEF ListsInv, Sorted
<1>3. ASSUME NEW c \in Buckets PROVE IsList(nxt', heads'[c], List(c)')
  BY <1>1 DEF ListsInv
<1>4. IsList(nxt', freeList', Chain(freeList)')
  BY <1>1 DEF ListsInv
<1> QED  BY <1>1, <1>2, <1>3, <1>4 DEF ListsInv, IsList, Sorted

\* A NULL head is the empty list.
LEMMA NoNodes ==
    ChainOf([n \in Nodes |-> NULL], NULL) = <<>> /\ IsList([n \in Nodes |-> NULL], NULL, <<>>)
<1>1. [n \in Nodes |-> NULL] \in [Nodes -> Nodes \cup {NULL}] /\ IsList([n \in Nodes |-> NULL], NULL, <<>>)
  BY DEF IsList, NodeAt
<1> QED  BY <1>1, ListIsChain

-----------------------------------------------------------------------------

Wants == [ip : Ips \cup {0}, seq : SeqIds \cup {0}, clear : BOOLEAN]

\* The types of all variables.
Types ==
    /\ ListTypes
    /\ wpc \in [Workers -> {"idle", "read"}]
    /\ node \in [Workers -> Nodes \cup {NULL}]
    /\ want \in [Workers -> Wants]
    /\ \A w \in Workers : wpc[w] = "read" => node[w] \in malloced
    /\ result \in [Workers -> Times \cup {0, Fail}]
    /\ cpc \in {"idle", "head", "rest"}
    /\ bucket \in Buckets
    /\ prv \in Nodes \cup {NULL}
    /\ last \in Int /\ cnt \in Nat

\* The cleaner between two critical sections.
CleanerInv ==
    cpc # "idle" =>
        /\ last <= now
        /\ \A b \in 0..(bucket - 1) : \A n \in InList(List(b)) : ~Old(n)
        /\ cpc = "rest" => \E k \in 1..Len(List(bucket)) :
                               /\ List(bucket)[k] = prv
                               /\ \A j \in 1..k : ~Old(List(bucket)[j])

\* The inductive invariant.
IInv == Types /\ ListsInv /\ CleanerInv

\* CleanHead removes the first node of the list.
LEMMA CleanHeadShape ==
    ASSUME IInv, CleanHead
    PROVE  LET cur == heads[bucket]
           IN  /\ Len(List(bucket)) >= 1 /\ cur = List(bucket)[1] /\ cur \in Linked
               /\ \A c \in Buckets : List(c)' = IF c = bucket THEN Without(List(c), 1) ELSE List(c)
               /\ Linked' = Linked \ {cur}
               /\ ListsInv'
<1> DEFINE s == List(bucket)
           cur == heads[bucket]
<1>1. IsList(nxt, cur, s) /\ bucket \in Buckets /\ cur # NULL
  BY DEF IInv, Types, ListsInv, CleanHead
<1>2. 1 \in 1..Len(s) /\ s[1] = cur /\ Len(s) >= 1
  BY <1>1 DEF IsList, NodeAt
<1>3. cur \in Linked
  BY <1>1, <1>2 DEF Linked, InList
<1>4. PICK i \in 1..Len(s) : i = 1
  BY <1>2
<1>5. /\ cur = List(bucket)[i]
      /\ i = 1 => /\ heads' = [heads EXCEPT ![bucket] = nxt[cur]]
                  /\ nxt' = [nxt EXCEPT ![cur] = freeList]
      /\ i > 1 => /\ heads' = heads
                  /\ nxt' = [nxt EXCEPT ![List(bucket)[i - 1]] = nxt[cur], ![cur] = freeList]
      /\ FreeNode(cur) /\ data' = data /\ malloced' = malloced
  BY <1>2, <1>4 DEF CleanHead
<1> HIDE DEF cur
<1>6. /\ \A c \in Buckets : List(c)' = IF c = bucket THEN Without(List(c), i) ELSE List(c)
      /\ Linked' = Linked \ {cur}
      /\ ListsInv'
  BY <1>1, <1>5, RemoveShape DEF IInv, Types
<1> QED  BY <1>2, <1>3, <1>4, <1>6 DEF cur

\* CleanNext removes the node after prv, which the cleaner has kept.
LEMMA CleanNextShape ==
    ASSUME IInv, CleanNext
    PROVE  LET cur == nxt[prv]
               s == List(bucket)
           IN  \E k \in 1..(Len(s) - 1) :
               /\ s[k] = prv /\ s[k + 1] = cur /\ cur \in Linked
               /\ \A j \in 1..k : ~Old(s[j])
               /\ \A c \in Buckets : List(c)' = IF c = bucket THEN Without(List(c), k + 1) ELSE List(c)
               /\ Linked' = Linked \ {cur}
               /\ ListsInv'
<1> DEFINE s == List(bucket)
           cur == nxt[prv]
<1>1. IsList(nxt, heads[bucket], s) /\ bucket \in Buckets /\ cur # NULL
  BY DEF IInv, Types, ListsInv, CleanNext
<1>2. PICK k \in 1..Len(s) : s[k] = prv /\ \A j \in 1..k : ~Old(s[j])
  BY DEF IInv, CleanerInv, CleanNext
<1>3. Len(s) \in Nat /\ k + 1 \in 1..Len(s) /\ s[k + 1] = cur
  BY <1>1, <1>2 DEF IsList, NodeAt
<1>4. cur \in Linked
  BY <1>1, <1>3 DEF Linked, InList
<1> DEFINE i == k + 1
<1>5. i \in 1..Len(s) /\ i > 1 /\ i - 1 = k
  BY <1>3
<1> HIDE DEF i
<1>6. /\ cur = List(bucket)[i]
      /\ i = 1 => /\ heads' = [heads EXCEPT ![bucket] = nxt[cur]]
                  /\ nxt' = [nxt EXCEPT ![cur] = freeList]
      /\ i > 1 => /\ heads' = heads
                  /\ nxt' = [nxt EXCEPT ![List(bucket)[i - 1]] = nxt[cur], ![cur] = freeList]
      /\ FreeNode(cur) /\ data' = data /\ malloced' = malloced
  <2>1. ~(i = 1) /\ List(bucket)[i - 1] = prv /\ cur = List(bucket)[i]
    BY <1>2, <1>3, <1>5 DEF i
  <2>2. /\ heads' = heads /\ nxt' = [nxt EXCEPT ![prv] = nxt[cur], ![cur] = freeList]
        /\ FreeNode(cur) /\ data' = data /\ malloced' = malloced
    BY DEF CleanNext
  <2> QED  BY <2>1, <2>2
<1> HIDE DEF cur
<1>7. /\ \A c \in Buckets : List(c)' = IF c = bucket THEN Without(List(c), i) ELSE List(c)
      /\ Linked' = Linked \ {cur}
      /\ ListsInv'
  BY <1>1, <1>5, <1>6, RemoveShape DEF IInv, Types
<1>8. k \in 1..(Len(s) - 1)
  BY <1>3
<1> QED  BY <1>2, <1>3, <1>4, <1>7, <1>8 DEF cur, i

\* The initial state has the invariant.
LEMMA InitInv == Init => IInv
<1> SUFFICES ASSUME Init PROVE IInv
  OBVIOUS
<1>1. Types
  <2>1. Zeroes \in Record \cup {Zeroes} /\ 0 \in Buckets /\ NoWant \in Wants /\ 0 \in 0..MaxNow
    BY BoundsAssumption DEF Buckets, NoWant, Wants
  <2> QED  BY <2>1 DEF Init, Types, ListTypes
<1>2. /\ \A c \in Buckets : List(c) = <<>>
      /\ Chain(freeList) = <<>>
  BY NoNodes DEF List, Chain, Init
<1>3. Linked = {} /\ FreeNodes = {}
  BY <1>2 DEF Linked, FreeNodes, InList
<1>4. ListsInv
  BY <1>2, <1>3, FS_EmptySet, NoNodes DEF ListsInv, Sorted, Init
<1>5. CleanerInv
  BY DEF Init, CleanerInv
<1> QED  BY <1>1, <1>4, <1>5 DEF IInv

\* The nodes of the lists hold records.
LEMMA LinkedNodes ==
    ASSUME ListsInv
    PROVE  /\ \A m \in Linked : m \in Nodes /\ data[m] \in Record
           /\ \A b \in Buckets : /\ List(b) \in Seq(Nodes) /\ Len(List(b)) \in Nat
                                 /\ \A i \in 1..Len(List(b)) : List(b)[i] \in Linked
<1>1. Linked \subseteq Nodes
  BY Counted
<1>2. ASSUME NEW m \in Linked PROVE data[m] \in Record
  <2>1. PICK b \in Buckets : m \in InList(List(b))
    BY DEF Linked
  <2>2. PICK i \in 1..Len(List(b)) : m = List(b)[i]
    BY <2>1 DEF InList
  <2> QED  BY <2>2 DEF ListsInv, Sorted
<1>3. ASSUME NEW b \in Buckets
      PROVE  /\ List(b) \in Seq(Nodes) /\ Len(List(b)) \in Nat
             /\ \A i \in 1..Len(List(b)) : List(b)[i] \in Linked
  BY DEF ListsInv, IsList, Linked, InList
<1> QED  BY <1>1, <1>2, <1>3

\* The cleaner keeps its place when the lists stay and records are only
\* renewed.
LEMMA SameCleaner ==
    ASSUME IInv, UNCHANGED <<cleaner, now>>,
           \A c \in Buckets : List(c)' = List(c),
           \A n \in Linked : data'[n].last = data[n].last \/ data'[n].last = now
    PROVE  CleanerInv'
<1> SUFFICES ASSUME cpc # "idle" PROVE CleanerInv'
  BY DEF CleanerInv, cleaner
<1>1. last \in Int /\ now \in Nat /\ last <= now /\ bucket \in Buckets
  BY DEF IInv, CleanerInv, Types, ListTypes
<1>2. ASSUME NEW n \in Linked, ~Old(n) PROVE ~(data'[n].last < last')
  BY <1>1, <1>2 DEF Old, cleaner
<1>3. \A b \in Buckets : InList(List(b)) \subseteq Linked
  BY DEF Linked
<1>4. ASSUME NEW b \in 0..(bucket - 1) PROVE \A n \in InList(List(b)') : ~(data'[n].last < last')
  <2>1. b \in Buckets /\ List(b)' = List(b)
    BY <1>1, BoundsAssumption DEF Buckets
  <2> QED  BY <1>2, <1>3, <2>1 DEF IInv, CleanerInv
<1>5. ASSUME cpc = "rest"
      PROVE  \E k \in 1..Len(List(bucket)) : /\ List(bucket)[k] = prv
                                             /\ \A j \in 1..k : ~(data'[List(bucket)[j]].last < last')
  <2>1. PICK k \in 1..Len(List(bucket)) : List(bucket)[k] = prv /\ \A j \in 1..k : ~Old(List(bucket)[j])
    BY <1>5 DEF IInv, CleanerInv
  <2>2. /\ Len(List(bucket)) \in Nat
        /\ \A j \in 1..Len(List(bucket)) : List(bucket)[j] \in Linked
    BY <1>1, LinkedNodes DEF IInv
  <2> QED  BY <1>2, <2>1, <2>2
<1>6. List(bucket)' = List(bucket)
  BY <1>1 DEF List, cleaner
<1> QED  BY <1>1, <1>4, <1>5, <1>6 DEF CleanerInv, cleaner, Old, InList

\* Each action keeps the invariant.
LEMMA UpdateRecordInv ==
    ASSUME IInv, NEW w \in Workers, NEW ip \in Ips, NEW seq \in SeqIds, NEW ts \in Times,
           UpdateRecord(w, ip, seq, ts)
    PROVE  IInv'
<1> DEFINE s == List(Hash(ip))
           i == Stop(s, ip)
           n == s[i]
<1>1. data' = [data EXCEPT ![n] = NewRecord(ip, seq, ts)] /\ Found(s, i, ip)
      /\ UNCHANGED <<heads, nxt, freeList, count, freeCount, malloced, worker, cleaner, now>>
  BY DEF UpdateRecord
<1>2. IsList(nxt, heads[Hash(ip)], s) /\ Sorted(data, s, Hash(ip)) /\ Hash(ip) \in Buckets /\ ip \in Nat
  BY HashIn DEF IInv, ListsInv
<1>3. i \in 1..Len(s) /\ data[n].ip = ip
  BY <1>1, <1>2, StopAt DEF IsList, Found
<1>4. n \in Nodes
  BY <1>2, <1>3 DEF IsList
<1> HIDE DEF n
<1>5. NewRecord(ip, seq, ts) \in Record /\ NewRecord(ip, seq, ts).ip = ip /\ NewRecord(ip, seq, ts).last = now
  BY BoundsAssumption, SetsAssumption DEF NewRecord, Record, IInv, Types, ListTypes
<1>6. /\ data' \in [Nodes -> Record \cup {Zeroes}]
      /\ data'[n] = NewRecord(ip, seq, ts) /\ \A m \in Nodes \ {n} : data'[m] = data[m]
  BY <1>1, <1>4, <1>5 DEF IInv, Types, ListTypes
<1>7. \A m \in Linked : m \in Nodes /\ data[m] \in Record
  BY LinkedNodes DEF IInv
<1>8. \A m \in Linked : data'[m] \in Record /\ data'[m].ip = data[m].ip
  BY <1>3, <1>5, <1>6, <1>7
<1>9. ListsInv' /\ \A c \in Buckets : List(c)' = List(c)
  BY <1>1, <1>8, SameShape DEF IInv
<1>10. CleanerInv'
  <2>1. \A m \in Linked : data'[m].last = data[m].last \/ data'[m].last = now
    BY <1>5, <1>6, <1>7
  <2> QED  BY <1>1, <1>9, <2>1, SameCleaner
<1>11. Types'
  BY <1>1, <1>6 DEF IInv, Types, ListTypes, worker, cleaner
<1> QED  BY <1>9, <1>10, <1>11 DEF IInv

LEMMA FetchNodeInv ==
    ASSUME IInv, NEW w \in Workers, NEW ip \in Ips, NEW seq \in SeqIds, NEW clear \in BOOLEAN,
           FetchNode(w, ip, seq, clear)
    PROVE  IInv'
<1> DEFINE s == List(Hash(ip))
           i == Stop(s, ip)
<1>1. /\ UNCHANGED <<lists, cleaner, now>>
      /\ result' = [result EXCEPT ![w] = Fail]
  BY DEF FetchNode
<1>2. IsList(nxt, heads[Hash(ip)], s) /\ Sorted(data, s, Hash(ip)) /\ Hash(ip) \in Buckets /\ ip \in Nat
  BY HashIn DEF IInv, ListsInv
<1>3. Found(s, i, ip) => s[i] \in malloced
  <2>1. Found(s, i, ip) => i \in 1..Len(s)
    BY <1>2, StopAt DEF IsList, Found
  <2> QED  BY <1>2, <2>1 DEF Found, IInv, ListsInv, Linked, InList
<1>4. malloced \subseteq Nodes
  BY DEF IInv, Types, ListTypes
<1>5. Types'
  <2>1. [ip |-> ip, seq |-> seq, clear |-> clear] \in Wants
    BY DEF Wants
  <2> QED  BY <1>1, <1>3, <1>4, <2>1 DEF IInv, Types, ListTypes, FetchNode, lists, cleaner
<1>6. \A m \in Linked : data[m] \in Record
  BY LinkedNodes DEF IInv
<1>7. ListsInv' /\ \A c \in Buckets : List(c)' = List(c)
  BY <1>1, <1>6, SameShape DEF IInv, lists
<1>8. CleanerInv'
  BY <1>1, <1>7, SameCleaner DEF lists
<1> QED  BY <1>5, <1>7, <1>8 DEF IInv

LEMMA FetchReadInv ==
    ASSUME IInv, NEW w \in Workers, FetchRead(w)
    PROVE  IInv'
<1> DEFINE n == node[w]
<1>1. /\ n \in malloced /\ n \in Nodes /\ data[n] \in Record \cup {Zeroes}
      /\ UNCHANGED <<heads, nxt, freeList, count, freeCount, malloced, cleaner, now>>
  BY DEF FetchRead, IInv, Types, ListTypes
<1>2. data' = data \/ data' = [data EXCEPT ![n].ts = 0]
  BY DEF FetchRead
<1> HIDE DEF n
<1>3. data[n].ts \in Times \cup {0}
  BY <1>1 DEF Record, Zeroes
<1>4. \A r \in Record : [r EXCEPT !.ts = 0] \in Record
  BY DEF Record
<1>5. [Zeroes EXCEPT !.ts = 0] = Zeroes
  BY DEF Zeroes
<1>6. /\ data' \in [Nodes -> Record \cup {Zeroes}]
      /\ \A m \in Nodes : /\ data'[m].ip = data[m].ip /\ data'[m].last = data[m].last
                          /\ data[m] \in Record => data'[m] \in Record
  <2>1. CASE data' = data
    BY <2>1 DEF IInv, Types, ListTypes
  <2>2. CASE data' = [data EXCEPT ![n].ts = 0]
    <3>1. data' = [data EXCEPT ![n] = [data[n] EXCEPT !.ts = 0]]
      BY <2>2
    <3>2. data[n] \in Record => [data[n] EXCEPT !.ts = 0] \in Record
      BY <1>4
    <3>3. [data[n] EXCEPT !.ts = 0] \in Record \cup {Zeroes}
      BY <1>1, <1>5, <3>2
    <3>4. [data[n] EXCEPT !.ts = 0].ip = data[n].ip /\ [data[n] EXCEPT !.ts = 0].last = data[n].last
      BY <1>1 DEF Record, Zeroes
    <3> QED  BY <1>1, <3>1, <3>2, <3>3, <3>4 DEF IInv, Types, ListTypes
  <2> QED  BY <1>2, <2>1, <2>2
<1>7. \A m \in Linked : m \in Nodes /\ data[m] \in Record
  BY LinkedNodes DEF IInv
<1>8. ListsInv' /\ \A c \in Buckets : List(c)' = List(c)
  <2>1. \A m \in Linked : data'[m] \in Record /\ data'[m].ip = data[m].ip
    BY <1>6, <1>7
  <2> QED  BY <1>1, <2>1, SameShape DEF IInv
<1>9. CleanerInv'
  <2>1. \A m \in Linked : data'[m].last = data[m].last \/ data'[m].last = now
    BY <1>6, <1>7
  <2> QED  BY <1>1, <1>8, <2>1, SameCleaner
<1>10. Types'
  <2>1. result' \in [Workers -> Times \cup {0, Fail}]
    BY <1>3 DEF FetchRead, IInv, Types, n
  <2>2. NoWant \in Wants
    BY DEF NoWant, Wants
  <2> QED  BY <1>1, <1>6, <2>1, <2>2 DEF FetchRead, IInv, Types, ListTypes, cleaner
<1> QED  BY <1>8, <1>9, <1>10 DEF IInv

LEMMA InsertInv ==
    ASSUME IInv, NEW w \in Workers, NEW ip \in Ips, NEW seq \in SeqIds, NEW ts \in Times,
           Insert(w, ip, seq, ts)
    PROVE  IInv'
<1> DEFINE b == Hash(ip)
           s == List(b)
           i == Stop(s, ip)
<1>1. PICK n \in Nodes \ Linked :
              /\ data' = [data EXCEPT ![n] = NewRecord(ip, seq, ts)]
              /\ \A c \in Buckets : List(c)' = IF c = b THEN With(List(c), Stop(List(c), ip), n) ELSE List(c)
              /\ Linked' = Linked \cup {n}
              /\ ListsInv'
  BY InsertShape DEF IInv, Types
<1>2. b \in Buckets /\ ip \in Nat /\ s \in Seq(Nodes) /\ Len(s) \in Nat /\ i \in 1..(Len(s) + 1)
  BY HashIn, StopAt, LinkedNodes DEF IInv, ListsInv
<1>3. UNCHANGED <<worker, cleaner, now>>
  BY DEF Insert
<1> HIDE DEF b, s, i
<1>4. NewRecord(ip, seq, ts) \in Record /\ NewRecord(ip, seq, ts).last = now
  BY BoundsAssumption, SetsAssumption DEF NewRecord, Record, IInv, Types, ListTypes
<1>5. /\ data' \in [Nodes -> Record \cup {Zeroes}]
      /\ data'[n] = NewRecord(ip, seq, ts) /\ \A m \in Nodes \ {n} : data'[m] = data[m]
  BY <1>1, <1>4 DEF IInv, Types, ListTypes
<1>6. Types'
  <2>1. nxt' \in [Nodes -> Nodes \cup {NULL}] /\ heads' \in [Buckets -> Nodes \cup {NULL}]
        /\ freeList' \in Nodes \cup {NULL} /\ malloced' \subseteq Nodes /\ malloced \subseteq malloced'
    <3>1. s \in [1..Len(s) -> Nodes]
      BY <1>2
    <3>2. PICK m \in Nodes :
             /\ GetFreeNode(m)
             /\ LET cur == IF i <= Len(s) THEN s[i] ELSE NULL
                IN  IF i = 1 THEN /\ heads' = [heads EXCEPT ![b] = m]
                                  /\ nxt' = [nxt EXCEPT ![m] = cur]
                    ELSE /\ nxt' = [nxt EXCEPT ![m] = cur, ![s[i - 1]] = m]
                         /\ UNCHANGED heads
      BY DEF Insert, b, s, i
    <3>3. (IF i <= Len(s) THEN s[i] ELSE NULL) \in Nodes \cup {NULL}
      BY <1>2, <3>1
    <3>4. nxt' \in [Nodes -> Nodes \cup {NULL}] /\ heads' \in [Buckets -> Nodes \cup {NULL}]
      BY <1>2, <3>2, <3>3 DEF IInv, Types, ListTypes
    <3>5. freeList' \in Nodes \cup {NULL} /\ malloced' \subseteq Nodes /\ malloced \subseteq malloced'
      BY <3>2 DEF GetFreeNode, IInv, Types, ListTypes
    <3> QED  BY <3>4, <3>5
  <2> QED  BY <1>3, <1>5, <2>1 DEF IInv, Types, ListTypes, worker, cleaner
<1>7. CleanerInv'
  <2> SUFFICES ASSUME cpc # "idle" PROVE CleanerInv'
    BY <1>3 DEF CleanerInv, cleaner
  <2>1. /\ last \in Int /\ now \in Nat /\ last <= now /\ bucket \in Buckets
        /\ cpc' = cpc /\ bucket' = bucket /\ prv' = prv /\ last' = last /\ now' = now
    BY <1>3 DEF IInv, CleanerInv, Types, ListTypes, cleaner
  <2>2. ~(data'[n].last < last')
    BY <1>4, <1>5, <2>1
  <2>3. \A m \in Linked : m \in Nodes \ {n} /\ (~Old(m) => ~(data'[m].last < last'))
    BY <1>1, <1>5, <2>1, LinkedNodes DEF Old, IInv
  <2>4. ASSUME NEW c \in 0..(bucket - 1) PROVE \A m \in InList(List(c)') : ~(data'[m].last < last')
    <3>1. c \in Buckets
      BY <2>1, BoundsAssumption DEF Buckets
    <3>2. \A j \in 1..Len(List(c)) : List(c)[j] \in Linked /\ ~Old(List(c)[j])
      BY <3>1, LinkedNodes DEF IInv, CleanerInv, InList
    <3>3. CASE c # b
      BY <1>1, <2>3, <3>1, <3>2, <3>3 DEF InList
    <3>4. CASE c = b
      <4>1. \A j \in 1..(Len(s) + 1) : With(s, i, n)[j] = IF j < i THEN s[j] ELSE IF j = i THEN n ELSE s[j - 1]
        BY <1>2 DEF With
      <4>2. Len(With(s, i, n)) = Len(s) + 1
        BY <1>2 DEF With
      <4>3. ASSUME NEW j \in 1..(Len(s) + 1) PROVE ~(data'[With(s, i, n)[j]].last < last')
        <5>1. CASE j < i
          BY <1>2, <2>3, <3>2, <3>4, <4>1, <5>1 DEF s
        <5>2. CASE j = i
          BY <2>2, <4>1, <5>2
        <5>3. CASE j > i
          <6>1. j - 1 \in 1..Len(s) /\ With(s, i, n)[j] = s[j - 1]
            BY <1>2, <4>1, <5>3
          <6> QED  BY <2>3, <3>2, <3>4, <6>1 DEF s
        <5> QED  BY <1>2, <5>1, <5>2, <5>3
      <4>4. List(c)' = With(s, i, n)
        BY <1>1, <3>1, <3>4 DEF s, i
      <4> QED  BY <4>2, <4>3, <4>4 DEF InList
    <3> QED  BY <3>3, <3>4
  <2>5. ASSUME cpc = "rest"
        PROVE  \E k \in 1..Len(List(bucket)') : /\ List(bucket)'[k] = prv'
                                                /\ \A j \in 1..k : ~(data'[List(bucket)'[j]].last < last')
    <3>1. PICK k \in 1..Len(List(bucket)) : List(bucket)[k] = prv /\ \A j \in 1..k : ~Old(List(bucket)[j])
      BY <2>5 DEF IInv, CleanerInv
    <3>2. \A j \in 1..Len(List(bucket)) : List(bucket)[j] \in Linked
      BY <2>1, LinkedNodes DEF IInv
    <3>3. CASE bucket # b
      <4>1. List(bucket)' = List(bucket)
        BY <1>1, <2>1, <3>3 DEF List
      <4> QED  BY <2>1, <2>3, <3>1, <3>2, <4>1, LinkedNodes DEF IInv
    <3>4. CASE bucket = b
      <4>1. \A j \in 1..(Len(s) + 1) : With(s, i, n)[j] = IF j < i THEN s[j] ELSE IF j = i THEN n ELSE s[j - 1]
        BY <1>2 DEF With
      <4>2. Len(With(s, i, n)) = Len(s) + 1
        BY <1>2 DEF With
      <4>3. List(bucket)' = With(s, i, n)
        <5>1. List(b)' = With(s, i, n)
          BY <1>1, <1>2 DEF s, i
        <5> QED  BY <2>1, <3>4, <5>1 DEF List
      <4>4. \A j \in 1..k : s[j] \in Linked /\ ~(data'[s[j]].last < last')
        BY <1>2, <2>3, <3>1, <3>2, <3>4 DEF s
      <4>5. CASE i <= k
        <5>1. k + 1 \in 1..(Len(s) + 1) /\ With(s, i, n)[k + 1] = prv'
          BY <1>2, <2>1, <3>1, <3>4, <4>1, <4>5 DEF s
        <5>2. ASSUME NEW j \in 1..(k + 1) PROVE ~(data'[With(s, i, n)[j]].last < last')
          <6>1. CASE j < i
            BY <1>2, <3>1, <3>4, <4>1, <4>4, <4>5, <6>1 DEF s
          <6>2. CASE j = i
            BY <1>2, <2>2, <4>1, <6>2
          <6>3. CASE j > i
            <7>1. j - 1 \in 1..k /\ With(s, i, n)[j] = s[j - 1]
              BY <1>2, <3>1, <3>4, <4>1, <6>3 DEF s
            <7> QED  BY <4>4, <7>1
          <6> QED  BY <1>2, <6>1, <6>2, <6>3
        <5> QED  BY <4>2, <4>3, <5>1, <5>2
      <4>6. CASE i > k
        <5>1. k \in 1..(Len(s) + 1) /\ \A j \in 1..k : With(s, i, n)[j] = s[j]
          BY <1>2, <3>1, <3>4, <4>1, <4>6 DEF s
        <5> QED  BY <2>1, <3>1, <3>4, <4>2, <4>3, <4>4, <5>1 DEF s
      <4> QED  BY <1>2, <3>1, <4>5, <4>6
    <3> QED  BY <3>3, <3>4
  <2> QED  BY <2>1, <2>4, <2>5 DEF CleanerInv, Old, InList
<1> QED  BY <1>1, <1>6, <1>7 DEF IInv

LEMMA CleanHeadInv ==
    ASSUME IInv, CleanHead
    PROVE  IInv'
<1> DEFINE cur == heads[bucket]
<1>1. /\ cur \in Linked /\ cur \in Nodes
      /\ \A c \in Buckets : List(c)' = IF c = bucket THEN Without(List(c), 1) ELSE List(c)
      /\ ListsInv'
  BY CleanHeadShape, LinkedNodes DEF IInv
<1>2. Types'
  BY <1>1 DEF CleanHead, FreeNode, IInv, Types, ListTypes, worker
<1>3. CleanerInv'
  <2>1. /\ cpc' = "head" /\ last' = last /\ now' = now /\ bucket' = bucket /\ data' = data
        /\ bucket \in Buckets /\ cpc = "head"
    BY DEF CleanHead, IInv, Types
  <2>2. ASSUME NEW c \in 0..(bucket - 1) PROVE List(c)' = List(c)
    BY <1>1, <2>1, BoundsAssumption DEF Buckets
  <2> QED  BY <2>1, <2>2 DEF IInv, CleanerInv, Old, InList
<1> QED  BY <1>1, <1>2, <1>3 DEF IInv

LEMMA CleanNextInv ==
    ASSUME IInv, CleanNext
    PROVE  IInv'
<1> DEFINE cur == nxt[prv]
           s == List(bucket)
<1>1. PICK k \in 1..(Len(s) - 1) :
               /\ s[k] = prv /\ s[k + 1] = cur /\ cur \in Linked
               /\ \A j \in 1..k : ~Old(s[j])
               /\ \A c \in Buckets : List(c)' = IF c = bucket THEN Without(List(c), k + 1) ELSE List(c)
               /\ Linked' = Linked \ {cur}
               /\ ListsInv'
  BY CleanNextShape
<1>2. /\ cpc' = "rest" /\ last' = last /\ now' = now /\ bucket' = bucket /\ data' = data /\ prv' = prv
      /\ bucket \in Buckets /\ cpc = "rest" /\ Len(s) \in Nat
  BY LinkedNodes DEF CleanNext, IInv, Types
<1>3. Types'
  <2>1. cur \in Nodes /\ prv \in Nodes
    BY <1>1, <1>2, LinkedNodes DEF IInv
  <2> QED  BY <2>1 DEF CleanNext, FreeNode, IInv, Types, ListTypes, worker
<1>4. CleanerInv'
  <2>1. ASSUME NEW c \in 0..(bucket - 1) PROVE List(c)' = List(c)
    BY <1>1, <1>2, BoundsAssumption DEF Buckets
  <2>2. List(bucket)' = Without(s, k + 1)
    <3>1. \A c \in Buckets : c = bucket => List(c)' = Without(List(c), k + 1)
      BY <1>1
    <3> QED  BY <1>2, <3>1 DEF List
  <2>3. Len(Without(s, k + 1)) = Len(s) - 1 /\ \A j \in 1..k : Without(s, k + 1)[j] = s[j]
    BY <1>1, <1>2 DEF Without
  <2>4. \E i \in 1..Len(List(bucket)') : /\ List(bucket)'[i] = prv'
                                         /\ \A j \in 1..i : ~(data'[List(bucket)'[j]].last < last')
    BY <1>1, <1>2, <2>2, <2>3 DEF Old
  <2> QED  BY <1>2, <2>1, <2>4 DEF IInv, CleanerInv, Old, InList
<1> QED  BY <1>1, <1>3, <1>4 DEF IInv

LEMMA NextListInv ==
    ASSUME IInv, UNCHANGED <<lists, worker, now>>, NextList, cpc # "idle",
           \A n \in InList(List(bucket)) : ~Old(n)
    PROVE  IInv'
<1>1. Types'
  <2>1. bucket \in Int /\ bucket \in Buckets /\ HashSize \in Nat \ {0}
    BY BoundsAssumption DEF IInv, Types, Buckets
  <2>2. bucket' \in Buckets /\ cpc' \in {"idle", "head", "rest"} /\ prv' \in Nodes \cup {NULL}
        /\ last' \in Int /\ cnt' \in Nat
    BY <2>1 DEF IInv, Types, NextList, Buckets
  <2> QED  BY <2>2 DEF IInv, Types, ListTypes, lists, worker
<1>2. /\ ListsInv' /\ data' = data
      /\ \A c \in Buckets : List(c)' = List(c)
  <2>1. \A n \in Linked : data'[n] \in Record /\ data'[n].ip = data[n].ip
    BY LinkedNodes DEF IInv, lists
  <2> QED  BY <2>1, SameShape DEF IInv, lists
<1>3. CleanerInv'
  <2>1. CASE cpc' = "idle"
    BY <2>1 DEF CleanerInv
  <2>2. CASE bucket + 1 < HashSize
    <3>1. /\ cpc' = "head" /\ bucket' = bucket + 1 /\ last' = last /\ now' = now
          /\ bucket \in Nat /\ bucket \in Buckets
      BY <2>2, BoundsAssumption DEF NextList, IInv, Types, Buckets
    <3>2. ASSUME NEW c \in 0..bucket PROVE \A n \in InList(List(c)) : ~Old(n)
      BY <3>1 DEF IInv, CleanerInv
    <3>3. ASSUME NEW c \in 0..bucket PROVE List(c)' = List(c)
      BY <1>2, <3>1, BoundsAssumption DEF Buckets
    <3>4. 0..(bucket' - 1) = 0..bucket /\ last <= now
      BY <3>1 DEF IInv, CleanerInv
    <3> QED  BY <1>2, <3>1, <3>2, <3>3, <3>4 DEF CleanerInv, Old, InList
  <2> QED  BY <2>1, <2>2 DEF NextList
<1> QED  BY <1>1, <1>2, <1>3 DEF IInv

LEMMA KeepInv ==
    ASSUME IInv, UNCHANGED <<lists, worker, now>>, cpc # "idle", cpc' = "rest",
           UNCHANGED <<bucket, last, cnt>>,
           NEW k \in 1..Len(List(bucket)), List(bucket)[k] = prv',
           \A j \in 1..k : ~Old(List(bucket)[j])
    PROVE  IInv'
<1>1. bucket \in Buckets
  BY DEF IInv, Types
<1>2. Types'
  <2>1. prv' \in Nodes
    BY <1>1, LinkedNodes DEF IInv
  <2> QED  BY <2>1 DEF IInv, Types, ListTypes, lists, worker
<1>3. /\ ListsInv' /\ data' = data
      /\ \A c \in Buckets : List(c)' = List(c)
  <2>1. \A n \in Linked : data'[n] \in Record /\ data'[n].ip = data[n].ip
    BY LinkedNodes DEF IInv, lists
  <2> QED  BY <2>1, SameShape DEF IInv, lists
<1>4. CleanerInv'
  <2>1. ASSUME NEW c \in 0..(bucket - 1) PROVE List(c)' = List(c)
    BY <1>1, <1>3, BoundsAssumption DEF Buckets
  <2>2. List(bucket)' = List(bucket)
    BY DEF List, Chain, lists
  <2> QED  BY <1>3, <2>1, <2>2 DEF IInv, CleanerInv, Old, InList
<1> QED  BY <1>2, <1>3, <1>4 DEF IInv

LEMMA KeepHeadInv ==
    ASSUME IInv, KeepHead
    PROVE  IInv'
<1> DEFINE cur == heads[bucket]
           s == List(bucket)
<1>1. bucket \in Buckets /\ IsList(nxt, cur, s) /\ Len(s) \in Nat /\ s \in [1..Len(s) -> Nodes]
  <2>1. bucket \in Buckets
    BY DEF IInv, Types
  <2>2. IsList(nxt, cur, s)
    BY <2>1 DEF IInv, ListsInv
  <2> QED  BY <2>1, <2>2 DEF IsList
<1>2. CASE cur = NULL
  <2>1. Len(s) = 0
    BY <1>1, <1>2 DEF IsList, NodeAt, Nodes, NULL
  <2>2. \A n \in InList(s) : ~Old(n)
    BY <2>1 DEF InList
  <2> QED  BY <1>2, <2>2, NextListInv DEF KeepHead
<1>3. CASE cur # NULL
  <2>1. 1 \in 1..Len(s) /\ s[1] = cur
    BY <1>1, <1>3 DEF IsList, NodeAt
  <2>2. ~Old(cur) /\ prv' = cur /\ cpc = "head" /\ cpc' = "rest" /\ UNCHANGED <<bucket, last, cnt>> /\ UNCHANGED <<lists, worker, now>>
    BY <1>3 DEF KeepHead
  <2>3. \A j \in 1..1 : ~Old(s[j])
    BY <2>1, <2>2
  <2> QED  BY <2>1, <2>2, <2>3, KeepInv
<1> QED  BY <1>2, <1>3

LEMMA KeepNextInv ==
    ASSUME IInv, KeepNext
    PROVE  IInv'
<1> DEFINE cur == nxt[prv]
           s == List(bucket)
<1>1. bucket \in Buckets /\ IsList(nxt, heads[bucket], s) /\ Len(s) \in Nat /\ s \in [1..Len(s) -> Nodes]
  BY DEF IInv, Types, ListsInv, IsList
<1>2. PICK k \in 1..Len(s) : s[k] = prv /\ \A j \in 1..k : ~Old(s[j])
  BY DEF IInv, CleanerInv, KeepNext
<1>3. cur = NodeAt(s, k + 1)
  BY <1>1, <1>2 DEF IsList
<1>4. CASE cur = NULL
  <2>1. k = Len(s)
    <3>1. k + 1 \notin 1..Len(s)
      <4> SUFFICES ASSUME k + 1 \in 1..Len(s) PROVE FALSE
        OBVIOUS
      <4>1. s[k + 1] \in Nodes /\ s[k + 1] = NULL
        BY <1>1, <1>3, <1>4 DEF NodeAt
      <4> QED  BY <4>1, BoundsAssumption DEF Nodes, NULL
    <3>2. Len(s) \in Nat /\ k \in 1..Len(s)
      BY <1>1
    <3> HIDE DEF s
    <3> QED  BY <3>1, <3>2
  <2>2. \A n \in InList(s) : ~Old(n)
    BY <1>2, <2>1 DEF InList
  <2> QED  BY <1>4, <2>2, NextListInv DEF KeepNext
<1>5. CASE cur # NULL
  <2>1. k + 1 \in 1..Len(s) /\ s[k + 1] = cur
    BY <1>1, <1>3, <1>5 DEF NodeAt
  <2>2. ~Old(cur) /\ prv' = cur /\ cpc = "rest" /\ cpc' = "rest" /\ UNCHANGED <<bucket, last, cnt>> /\ UNCHANGED <<lists, worker, now>>
    BY <1>5 DEF KeepNext
  <2>3. \A j \in 1..(k + 1) : ~Old(s[j])
    BY <1>1, <1>2, <2>1, <2>2
  <2> QED  BY <2>1, <2>2, <2>3, KeepInv
<1> QED  BY <1>4, <1>5

LEMMA CleanUpInv ==
    ASSUME IInv, NEW gap \in 0..MaxGap, CleanUp(gap)
    PROVE  IInv'
<1>1. gap \in Nat /\ now \in Nat /\ 0 \in Buckets
  BY BoundsAssumption DEF IInv, Types, ListTypes, Buckets
<1>2. Types'
  BY <1>1 DEF CleanUp, IInv, Types, ListTypes, lists, worker
<1>3. ListsInv'
  <2>1. \A n \in Linked : data'[n] \in Record /\ data'[n].ip = data[n].ip
    BY LinkedNodes DEF IInv, lists, CleanUp
  <2> QED  BY <2>1, SameShape DEF IInv, lists, CleanUp
<1>4. CleanerInv'
  BY <1>1 DEF CleanUp, CleanerInv
<1> QED  BY <1>2, <1>3, <1>4 DEF IInv

LEMMA FreeStoreInv ==
    ASSUME IInv, FreeStore
    PROVE  IInv'
<1>1. malloced' = {}
  BY DEF FreeStore, IInv, ListsInv
<1>2. Types'
  BY <1>1 DEF FreeStore, IInv, Types, ListTypes, worker, cleaner
<1>3. /\ \A c \in Buckets : List(c)' = <<>>
      /\ Chain(freeList)' = <<>>
  BY NoNodes DEF List, Chain, FreeStore
<1>4. Linked' = {} /\ FreeNodes' = {}
  BY <1>3 DEF Linked, FreeNodes, InList
<1>5. ListsInv'
  BY <1>1, <1>3, <1>4, FS_EmptySet, NoNodes DEF ListsInv, Sorted, FreeStore
<1>6. CleanerInv'
  BY DEF FreeStore, CleanerInv, cleaner
<1> QED  BY <1>2, <1>5, <1>6 DEF IInv

LEMMA TickInv ==
    ASSUME IInv, Tick
    PROVE  IInv'
<1>1. now \in Nat /\ now' = now + 1 /\ now' \in 0..MaxNow /\ UNCHANGED <<lists, worker, cleaner>>
  BY BoundsAssumption DEF Tick, IInv, Types, ListTypes
<1>2. Types'
  BY <1>1 DEF IInv, Types, ListTypes, lists, worker, cleaner
<1>3. ListsInv'
  <2>1. \A n \in Linked : data'[n] \in Record /\ data'[n].ip = data[n].ip
    BY <1>1, LinkedNodes DEF IInv, lists
  <2> QED  BY <1>1, <2>1, SameShape DEF IInv, lists
<1>4. CleanerInv'
  <2>1. cpc # "idle" => last' <= now'
    BY <1>1 DEF IInv, CleanerInv, Types, cleaner
  <2> QED  BY <1>1, <2>1 DEF IInv, CleanerInv, List, Chain, Old, InList, lists, cleaner
<1> QED  BY <1>2, <1>3, <1>4 DEF IInv

LEMMA NextInv == IInv /\ [Next]_vars => IInv'
<1> SUFFICES ASSUME IInv, [Next]_vars PROVE IInv'
  OBVIOUS
<1>1. CASE UNCHANGED vars
  <2>1. UNCHANGED <<lists, worker, cleaner, now>>
    BY <1>1 DEF vars
  <2>2. Types'
    BY <2>1 DEF IInv, Types, ListTypes, lists, worker, cleaner
  <2>3. ListsInv'
    <3>1. \A n \in Linked : data'[n] \in Record /\ data'[n].ip = data[n].ip
      BY <2>1, LinkedNodes DEF IInv, lists
    <3> QED  BY <2>1, <3>1, SameShape DEF IInv, lists
  <2>4. CleanerInv'
    BY <2>1 DEF IInv, CleanerInv, List, Chain, Old, InList, lists, cleaner
  <2> QED  BY <2>2, <2>3, <2>4 DEF IInv
<1>2. ASSUME NEW w \in Workers, Work(w) PROVE IInv'
  <2>1. ASSUME NEW ip \in Ips, InsertFails(w, ip) PROVE IInv'
    BY <1>1, <2>1 DEF InsertFails
  <2> QED  BY <1>2, <2>1, UpdateRecordInv, InsertInv, FetchNodeInv, FetchReadInv DEF Work
<1>3. CASE Clean
  BY <1>3, CleanHeadInv, KeepHeadInv, CleanNextInv, KeepNextInv DEF Clean
<1> QED  BY <1>1, <1>2, <1>3, CleanUpInv, FreeStoreInv, TickInv DEF Next

\* What the invariant implies.
LEMMA InvTypes == IInv => TypeOK
BY Counted DEF IInv, Types, ListTypes, TypeOK

LEMMA InvLists == IInv => ListsWellFormed
<1> SUFFICES ASSUME IInv PROVE ListsWellFormed
  OBVIOUS
<1>1. ASSUME NEW b \in Buckets
      PROVE  LET s == List(b)
             IN  /\ \A i \in 1..Len(s) : Hash(data[s[i]].ip) = b
                 /\ \A i \in 1..(Len(s) - 1) : data[s[i]].ip > data[s[i + 1]].ip
                 /\ s = <<>> \/ nxt[s[Len(s)]] = NULL
  <2> DEFINE s == List(b)
  <2>1. IsList(nxt, heads[b], s) /\ Sorted(data, s, b) /\ s \in Seq(Nodes) /\ Len(s) \in Nat
    BY DEF IInv, ListsInv, IsList
  <2> HIDE DEF s
  <2>2. \A i \in 1..(Len(s) - 1) : data[s[i]].ip > data[s[i + 1]].ip
    BY <2>1 DEF Sorted
  <2>3. s = <<>> \/ nxt[s[Len(s)]] = NULL
    <3>1. CASE Len(s) = 0
      BY <2>1, <3>1
    <3>2. CASE Len(s) >= 1
      BY <2>1, <3>2 DEF IsList, NodeAt
    <3> QED  BY <2>1, <3>1, <3>2
  <2> QED  BY <2>1, <2>2, <2>3 DEF Sorted, s
<1> QED  BY <1>1 DEF IInv, ListsInv, ListsWellFormed

LEMMA InvCleaner == IInv => CleanerOnList /\ Swept
<1> SUFFICES ASSUME IInv PROVE CleanerOnList /\ Swept
  OBVIOUS
<1> DEFINE s == List(bucket)
           passed == IF cpc = "rest" THEN {s[i] : i \in {j \in 1..Len(s) :
                                            \E k \in j..Len(s) : s[k] = prv}}
                     ELSE {}
<1>1. CASE cpc = "rest"
  <2>1. IsList(nxt, heads[bucket], s) /\ Len(s) \in Nat
    BY DEF IInv, Types, ListsInv, IsList
  <2>2. PICK k \in 1..Len(s) : s[k] = prv /\ \A j \in 1..k : ~Old(s[j])
    BY <1>1 DEF IInv, CleanerInv
  <2>3. ASSUME NEW n \in passed PROVE ~Old(n)
    <3>1. PICK j \in 1..Len(s) : n = s[j] /\ \E i \in j..Len(s) : s[i] = prv
      BY <1>1, <2>3
    <3>2. PICK i \in j..Len(s) : s[i] = prv
      BY <3>1
    <3>3. i = k
      BY <2>1, <2>2, <3>2 DEF IsList
    <3> QED  BY <2>2, <3>1, <3>2, <3>3
  <2>4. CleanerOnList
    BY <2>2 DEF CleanerOnList, InList
  <2> QED  BY <1>1, <2>3, <2>4 DEF IInv, CleanerInv, Swept
<1>2. CASE cpc # "rest"
  BY <1>2 DEF IInv, CleanerInv, Swept, CleanerOnList
<1> QED  BY <1>1, <1>2

\* The inductive invariant holds: whatever workers and the cleaner do to the
\* lists between the critical sections of each other (slist.c), the lists and
\* the place of the cleaner are as IInv says.
THEOREM Invariant == Spec => []IInv
<1> QED  BY InitInv, NextInv, PTL DEF Spec

\* Every variable has its type and the counters _count and _freeCount of
\* slist.c never leave the range of the nodes.
THEOREM TypeCorrect == Spec => []TypeOK
<1> QED  BY Invariant, InvTypes, PTL

\* _updateNode and _cleanUpNodes keep every list sorted and acyclic, lose no
\* node, keep none twice, and _count and _freeCount are exact.
THEOREM ListsStayWellFormed == Spec => []ListsWellFormed
<1> QED  BY Invariant, InvLists, PTL

\* The node prv, which _cleanUpNodes keeps while the mutex is free, stays on
\* its list, with any number of workers.
THEOREM CleanerKeepsItsPlace == Spec => []CleanerOnList
<1> QED  BY Invariant, InvCleaner, PTL

\* Behind the cleaner no record is older than its limit, whatever _updateNode
\* inserts there.
THEOREM PassedIsSwept == Spec => []Swept
<1> QED  BY Invariant, InvCleaner, PTL

\* A step of _cleanUpNodes removes no record that is as young as the limit.
THEOREM CleanupSparesFresh == Spec => CleanupSpares
<1>1. ASSUME IInv, [Next]_vars
      PROVE  [Clean => \A n \in Linked : data[n].last >= last => n \in Linked']_vars
  <2> SUFFICES ASSUME Clean, NEW n \in Linked, data[n].last >= last PROVE n \in Linked'
    OBVIOUS
  <2>1. data[n].last \in Nat /\ last \in Int
    BY LinkedNodes, <1>1 DEF IInv, Types, Record
  <2>2. ~Old(n)
    BY <2>1 DEF Old
  <2>3. CASE CleanHead
    BY <1>1, <2>2, <2>3, CleanHeadShape DEF CleanHead
  <2>4. CASE CleanNext
    BY <1>1, <2>2, <2>4, CleanNextShape DEF CleanNext
  <2>5. CASE UNCHANGED lists
    BY <2>5 DEF lists, Linked, List, Chain, InList
  <2> QED  BY <2>3, <2>4, <2>5 DEF Clean, KeepHead, KeepNext
<1> QED  BY <1>1, Invariant, PTL DEF Spec, CleanupSpares

-----------------------------------------------------------------------------


\* No two nodes of the lists have the same address.
OneHolder ==
    \A n, m \in Linked : data[n].ip = data[m].ip => n = m

\* RecordOf is the record of the one node that holds the address.
RecordsHeld ==
    \A ip \in Ips :
        /\ \A n \in Linked : data[n].ip = ip => RecordOf(ip) = Mapped(n)
        /\ (\A n \in Linked : data[n].ip # ip) => RecordOf(ip) = NoRecord

\* A node is on the list of its address.
LEMMA InListHashed ==
    ASSUME ListsInv, NEW n \in Linked
    PROVE  n \in InList(List(Hash(data[n].ip)))
<1>1. PICK b \in Buckets : n \in InList(List(b))
  BY DEF Linked
<1>2. PICK i \in 1..Len(List(b)) : n = List(b)[i]
  BY <1>1 DEF InList
<1>3. Hash(data[n].ip) = b
  BY <1>2 DEF ListsInv, Sorted
<1> QED  BY <1>1, <1>3

\* Sorted lists hold each address once.
LEMMA Holders == ListsInv => OneHolder /\ RecordsHeld
<1> SUFFICES ASSUME ListsInv PROVE OneHolder /\ RecordsHeld
  OBVIOUS
<1>1. OneHolder
  <2> SUFFICES ASSUME NEW n \in Linked, NEW m \in Linked, data[n].ip = data[m].ip PROVE n = m
    BY DEF OneHolder
  <2> DEFINE b == Hash(data[n].ip)
             s == List(b)
  <2>1. n \in InList(s) /\ m \in InList(s)
    BY InListHashed
  <2>2. PICK i \in 1..Len(s), j \in 1..Len(s) : n = s[i] /\ m = s[j]
    BY <2>1 DEF InList
  <2>3. b \in Buckets /\ data[n].ip \in Nat
    BY LinkedNodes, HashIn DEF Record
  <2>4. Sorted(data, s, b) /\ Len(s) \in Nat
    BY <2>3, LinkedNodes DEF ListsInv
  <2> HIDE DEF s, b
  <2>5. ~(i < j) /\ ~(j < i)
    BY <2>2, <2>3, <2>4 DEF Sorted
  <2> QED  BY <2>2, <2>4, <2>5
<1>2. ASSUME NEW ip \in Ips, NEW n \in Linked, data[n].ip = ip PROVE RecordOf(ip) = Mapped(n)
  <2> DEFINE ns == {m \in InList(List(Hash(ip))) : data[m].ip = ip}
  <2>1. n \in ns
    BY <1>2, InListHashed
  <2>2. ns \subseteq Linked
    BY HashIn DEF Linked
  <2>3. ns = {n}
    BY <1>1, <1>2, <2>1, <2>2 DEF OneHolder
  <2> QED  BY <2>3 DEF RecordOf
<1>3. ASSUME NEW ip \in Ips, \A n \in Linked : data[n].ip # ip PROVE RecordOf(ip) = NoRecord
  <2>1. InList(List(Hash(ip))) \subseteq Linked
    BY HashIn DEF Linked
  <2> QED  BY <1>3, <2>1 DEF RecordOf
<1> QED  BY <1>1, <1>2, <1>3 DEF RecordsHeld

LEMMA HoldersNext == ListsInv' => OneHolder' /\ RecordsHeld'
BY Holders, PTL

\* One thread at most updates and fetches; the one other thread that store.h:72
\* provides for cleans up.
OneWorker == \A v, w \in Workers : v = w

\* The invariant with the record that a fetch is about to read.
MInv == IInv /\ FetchRight

LEMMA InitFetch == Init => FetchRight
BY DEF Init, FetchRight

LEMMA NextFetch ==
    ASSUME OneWorker, MInv, [Next]_vars
    PROVE  FetchRight'
<1> SUFFICES ASSUME NEW v \in Workers, wpc'[v] = "read"
             PROVE  data'[node'[v]].ip = want'[v].ip
  BY DEF FetchRight
<1>1. IInv /\ (wpc[v] = "read" => data[node[v]].ip = want[v].ip)
  BY DEF MInv, FetchRight
<1>2. CASE UNCHANGED <<data, worker>>
  BY <1>1, <1>2 DEF worker
<1>3. ASSUME NEW w \in Workers, Work(w) PROVE data'[node'[v]].ip = want'[v].ip
  <2>1. v = w
    BY DEF OneWorker
  <2>2. ASSUME NEW ip \in Ips, NEW seq \in SeqIds, NEW ts \in Times,
               UpdateRecord(w, ip, seq, ts) \/ Insert(w, ip, seq, ts)
        PROVE  FALSE
    BY <2>1, <2>2 DEF UpdateRecord, Insert, worker
  <2>3. ASSUME NEW ip \in Ips, InsertFails(w, ip) PROVE UNCHANGED <<data, worker>>
    BY <2>3 DEF InsertFails, vars, lists
  <2>4. ASSUME NEW ip \in Ips, NEW seq \in SeqIds, NEW clear \in BOOLEAN, FetchNode(w, ip, seq, clear)
        PROVE  data'[node'[v]].ip = want'[v].ip
    <3> DEFINE s == List(Hash(ip))
               i == Stop(s, ip)
    <3>1. /\ Found(s, i, ip) /\ data' = data
          /\ node' = [node EXCEPT ![w] = s[i]]
          /\ want' = [want EXCEPT ![w] = [ip |-> ip, seq |-> seq, clear |-> clear]]
      BY <2>1, <2>4 DEF FetchNode, lists
    <3> QED  BY <1>1, <2>1, <3>1 DEF Found, IInv, Types
  <2>5. ASSUME FetchRead(w) PROVE FALSE
    BY <1>1, <2>1, <2>5 DEF FetchRead, IInv, Types
  <2> QED  BY <1>2, <1>3, <2>2, <2>3, <2>4, <2>5 DEF Work
<1>4. ASSUME FreeStore PROVE FALSE
  BY <1>4 DEF FreeStore, worker
<1> QED  BY <1>2, <1>3, <1>4 DEF Next, vars, lists, CleanUp, Clean, CleanHead, KeepHead, CleanNext, KeepNext, Tick

\* With one worker, the record that fetch reads after _fetchNode released the
\* mutex (store.c) is still that of the address, although the cleaner may have
\* freed its node.
THEOREM FetchIsRight ==
    ASSUME OneWorker
    PROVE  Spec => []FetchRight
<1>1. MInv /\ [Next]_vars => MInv'
  BY NextFetch, NextInv DEF MInv
<1>2. Init => MInv
  BY InitInv, InitFetch DEF MInv
<1> QED  BY <1>1, <1>2, PTL DEF Spec, MInv

-----------------------------------------------------------------------------

\* An empty store is the empty map.
LEMMA MapInit == Init => Map!Init
<1> SUFFICES ASSUME Init PROVE Map!Init
  OBVIOUS
<1>1. Linked = {}
  BY NoNodes DEF Linked, InList, List, Chain, Init
<1>2. ASSUME NEW ip \in Ips PROVE RecordOf(ip) = NoRecord
  BY <1>1, InitInv, Holders DEF IInv, RecordsHeld
<1>3. ASSUME NEW w \in Workers PROVE ResultOf(w) = -1
  BY DEF ResultOf, Init, Fail
<1> QED  BY <1>2, <1>3 DEF Map!Init, Map!NoRecord, NoRecord, Init

\* A step that keeps the nodes of the lists and what they stand for keeps the
\* map.
LEMMA KeepsMap ==
    ASSUME IInv, IInv', Linked' = Linked,
           \A n \in Linked : data'[n].ip = data[n].ip /\ Mapped(n)' = Mapped(n)
    PROVE  \A ip \in Ips : RecordOf(ip)' = RecordOf(ip)
<1> SUFFICES ASSUME NEW ip \in Ips PROVE RecordOf(ip)' = RecordOf(ip)
  OBVIOUS
<1>1. RecordsHeld /\ RecordsHeld'
  BY Holders, HoldersNext DEF IInv
<1>2. CASE \E n \in Linked : data[n].ip = ip
  <2>1. PICK n \in Linked : data[n].ip = ip
    BY <1>2
  <2>2. RecordOf(ip) = Mapped(n)
    BY <1>1, <2>1 DEF RecordsHeld
  <2>3. RecordOf(ip)' = Mapped(n)'
    BY <1>1, <2>1 DEF RecordsHeld
  <2> QED  BY <2>2, <2>3
<1>3. CASE \A n \in Linked : data[n].ip # ip
  <2>1. RecordOf(ip) = NoRecord
    BY <1>1, <1>3 DEF RecordsHeld
  <2>2. RecordOf(ip)' = NoRecord
    BY <1>1, <1>3 DEF RecordsHeld, NoRecord
  <2> QED  BY <2>1, <2>2
<1> QED  BY <1>2, <1>3

\* Writing the record of an address into the node that holds it, or into a new
\* one, puts it into the map.
LEMMA Put ==
    ASSUME OneWorker, IInv, IInv', NEW w \in Workers, wpc[w] = "idle",
           NEW ip \in Ips, NEW seq \in SeqIds, NEW ts \in Times, NEW n \in Nodes,
           data' = [data EXCEPT ![n] = NewRecord(ip, seq, ts)],
           Linked' = Linked \cup {n},
           n \in Linked => data[n].ip = ip,
           n \notin Linked => \A m \in Linked : data[m].ip # ip,
           UNCHANGED <<worker, now>>
    PROVE  Map!Put(ip, seq, ts)
<1>1. \A v \in Workers : wpc[v] = "idle" /\ wpc'[v] = "idle" /\ result'[v] = result[v]
  BY DEF OneWorker, worker
<1>2. data'[n] = NewRecord(ip, seq, ts) /\ \A m \in Nodes \ {n} : data'[m] = data[m]
  BY DEF IInv, Types, ListTypes
<1>3. RecordsHeld /\ RecordsHeld' /\ OneHolder
  BY Holders, HoldersNext DEF IInv
<1>4. RecordOf(ip)' = [seq |-> seq, ts |-> ts, last |-> now]
  <2>1. RecordOf(ip)' = Mapped(n)'
    BY <1>2, <1>3 DEF RecordsHeld, NewRecord
  <2>2. Mapped(n)' = [seq |-> data'[n].seq, ts |-> data'[n].ts, last |-> data'[n].last]
    BY <1>1 DEF Mapped, Reading
  <2> QED  BY <1>2, <2>1, <2>2 DEF NewRecord
<1>5. ASSUME NEW a \in Ips, a # ip PROVE RecordOf(a)' = RecordOf(a)
  <2>1. CASE \E m \in Linked : data[m].ip = a
    <3>1. PICK m \in Linked : data[m].ip = a
      BY <2>1
    <3>2. m # n /\ m \in Nodes
      BY <1>5, <3>1, LinkedNodes DEF IInv
    <3>3. RecordOf(a) = Mapped(m) /\ RecordOf(a)' = Mapped(m)'
      BY <1>2, <1>3, <3>1, <3>2 DEF RecordsHeld
    <3>4. Mapped(m) = [seq |-> data[m].seq, ts |-> data[m].ts, last |-> data[m].last]
      BY <1>1 DEF Mapped, Reading
    <3>5. Mapped(m)' = [seq |-> data'[m].seq, ts |-> data'[m].ts, last |-> data'[m].last]
      BY <1>1 DEF Mapped, Reading
    <3> QED  BY <1>2, <3>2, <3>3, <3>4, <3>5
  <2>2. CASE \A m \in Linked : data[m].ip # a
    <3>1. \A m \in Linked' : data'[m].ip # a
      BY <1>2, <1>5, <2>2, LinkedNodes DEF IInv, NewRecord
    <3>2. RecordOf(a) = NoRecord
      BY <1>3, <2>2 DEF RecordsHeld
    <3>3. RecordOf(a)' = NoRecord
      BY <1>3, <3>1 DEF RecordsHeld, NoRecord
    <3> QED  BY <3>2, <3>3
  <2> QED  BY <2>1, <2>2
<1>6. \A v \in Workers : ResultOf(v)' = ResultOf(v)
  BY <1>1 DEF ResultOf
<1>7. now' = now
  OBVIOUS
<1> QED  BY <1>4, <1>5, <1>6, <1>7 DEF Map!Put

\* The steps of the store are those of the map.
LEMMA UpdatePuts ==
    ASSUME OneWorker, IInv, IInv', NEW w \in Workers,
           NEW ip \in Ips, NEW seq \in SeqIds, NEW ts \in Times, UpdateRecord(w, ip, seq, ts)
    PROVE  Map!Put(ip, seq, ts)
<1> DEFINE s == List(Hash(ip))
           i == Stop(s, ip)
           n == s[i]
<1>1. /\ data' = [data EXCEPT ![n] = NewRecord(ip, seq, ts)] /\ Found(s, i, ip) /\ wpc[w] = "idle"
      /\ UNCHANGED <<worker, now>> /\ UNCHANGED <<heads, nxt>>
  BY DEF UpdateRecord
<1>2. Hash(ip) \in Buckets /\ ip \in Nat /\ s \in Seq(Nodes) /\ Len(s) \in Nat /\ Sorted(data, s, Hash(ip))
  BY HashIn, LinkedNodes DEF IInv, ListsInv
<1>3. i \in 1..Len(s)
  BY <1>1, <1>2, StopAt DEF Found
<1>4. n \in Linked /\ n \in Nodes /\ data[n].ip = ip
  BY <1>1, <1>2, <1>3, LinkedNodes DEF Found, IInv
<1>5. Linked' = Linked
  BY <1>1 DEF Linked, List, Chain, InList
<1> HIDE DEF n
<1>6. Linked' = Linked \cup {n}
  BY <1>4, <1>5
<1> QED  BY <1>1, <1>4, <1>6, Put

LEMMA InsertPuts ==
    ASSUME OneWorker, IInv, IInv', NEW w \in Workers,
           NEW ip \in Ips, NEW seq \in SeqIds, NEW ts \in Times, Insert(w, ip, seq, ts)
    PROVE  Map!Put(ip, seq, ts)
<1> DEFINE s == List(Hash(ip))
           i == Stop(s, ip)
<1>1. PICK n \in Nodes \ Linked : data' = [data EXCEPT ![n] = NewRecord(ip, seq, ts)] /\ Linked' = Linked \cup {n}
  BY InsertShape DEF IInv, Types
<1>2. ~Found(s, i, ip) /\ wpc[w] = "idle" /\ UNCHANGED <<worker, now>>
  BY DEF Insert
<1>3. Hash(ip) \in Buckets /\ ip \in Nat /\ s \in Seq(Nodes) /\ Len(s) \in Nat /\ Sorted(data, s, Hash(ip))
  BY HashIn, LinkedNodes DEF IInv, ListsInv
<1>4. ASSUME NEW m \in Linked, data[m].ip = ip PROVE FALSE
  <2>1. m \in InList(s)
    BY <1>4, InListHashed DEF IInv
  <2>2. PICK j \in 1..Len(s) : m = s[j]
    BY <2>1 DEF InList
  <2>6. i \in 1..(Len(s) + 1) /\ \A k \in 1..Len(s) : k < i <=> data[s[k]].ip > ip
    BY <1>3, StopAt
  <2> HIDE DEF s, i
  <2>3. ~(j < i)
    BY <1>3, <1>4, <2>2, <2>6
  <2>4. CASE i = j
    BY <1>2, <1>3, <1>4, <2>2, <2>4 DEF Found
  <2>5. CASE i < j
    <3>1. data[s[i]].ip > ip
      BY <1>3, <1>4, <2>2, <2>5, <2>6 DEF Sorted
    <3>2. i \in 1..Len(s)
      BY <1>3, <2>5, <2>6
    <3> QED  BY <1>3, <2>6, <3>1, <3>2
  <2> QED  BY <1>3, <2>3, <2>4, <2>5, <2>6
<1> QED  BY <1>1, <1>2, <1>4, Put

LEMMA FetchNodeFetches ==
    ASSUME OneWorker, IInv, IInv', NEW w \in Workers,
           NEW ip \in Ips, NEW seq \in SeqIds, NEW clear \in BOOLEAN, FetchNode(w, ip, seq, clear)
    PROVE  Map!Fetch(w, ip, seq, clear)
<1> DEFINE s == List(Hash(ip))
           i == Stop(s, ip)
<1>1. /\ wpc[w] = "idle" /\ now' = now /\ data' = data /\ Linked' = Linked
      /\ result' = [result EXCEPT ![w] = Fail]
  BY DEF FetchNode, lists, Linked, List, Chain, InList
<1>2. \A v \in Workers : v = w
  BY DEF OneWorker
<1>3. RecordsHeld /\ RecordsHeld' /\ OneHolder
  BY Holders, HoldersNext DEF IInv
<1>4. Hash(ip) \in Buckets /\ ip \in Nat /\ s \in Seq(Nodes) /\ Len(s) \in Nat /\ Sorted(data, s, Hash(ip))
  BY HashIn, LinkedNodes DEF IInv, ListsInv
<1>5. i \in 1..(Len(s) + 1) /\ \A k \in 1..Len(s) : k < i <=> data[s[k]].ip > ip
  BY <1>4, StopAt
<1>6. \A m \in Linked : Mapped(m) = [seq |-> data[m].seq, ts |-> data[m].ts, last |-> data[m].last]
  BY <1>1, <1>2 DEF Mapped, Reading
<1>7. ASSUME Found(s, i, ip)
      PROVE  Map!Fetch(w, ip, seq, clear)
  <2>1. PICK n \in Linked : n = s[i] /\ data[n].ip = ip
    <3>1. i \in 1..Len(s)
      BY <1>4, <1>5, <1>7 DEF Found
    <3> QED  BY <1>4, <1>7, <3>1, LinkedNodes DEF Found, IInv
  <2>2. /\ wpc' = [wpc EXCEPT ![w] = "read"]
        /\ node' = [node EXCEPT ![w] = n]
        /\ want' = [want EXCEPT ![w] = [ip |-> ip, seq |-> seq, clear |-> clear]]
    BY <1>7, <2>1 DEF FetchNode
  <2>3. wpc'[w] = "read" /\ node'[w] = n /\ want'[w] = [ip |-> ip, seq |-> seq, clear |-> clear]
    BY <2>2 DEF IInv, Types
  <2>4. ASSUME NEW m \in Linked
        PROVE  Mapped(m)' = [seq |-> data[m].seq,
                             ts |-> IF m = n /\ data[n].seq = seq /\ clear THEN 0 ELSE data[m].ts,
                             last |-> data[m].last]
    BY <1>1, <1>2, <2>3 DEF Mapped, Reading
  <2>5. ResultOf(w)' = IF data[n].seq = seq THEN data[n].ts ELSE Fail
    BY <1>1, <2>3 DEF ResultOf, Reading
  <2>6. RecordOf(ip) = Mapped(n) /\ RecordOf(ip)' = Mapped(n)'
    BY <1>1, <1>3, <2>1 DEF RecordsHeld
  <2>7. ASSUME NEW a \in Ips, a # ip PROVE RecordOf(a)' = RecordOf(a)
    <3>1. CASE \E m \in Linked : data[m].ip = a
      <4>1. PICK m \in Linked : data[m].ip = a
        BY <3>1
      <4>2. RecordOf(a) = Mapped(m) /\ RecordOf(a)' = Mapped(m)' /\ m # n
        BY <1>1, <1>3, <2>1, <2>7, <4>1 DEF RecordsHeld
      <4> QED  BY <1>6, <2>4, <4>2
    <3>2. CASE \A m \in Linked : data[m].ip # a
      <4>1. RecordOf(a) = NoRecord
        BY <1>3, <3>2 DEF RecordsHeld
      <4>2. RecordOf(a)' = NoRecord
        BY <1>1, <1>3, <3>2 DEF RecordsHeld, NoRecord
      <4> QED  BY <4>1, <4>2
    <3> QED  BY <3>1, <3>2
  <2>8. RecordOf(ip) = [seq |-> data[n].seq, ts |-> data[n].ts, last |-> data[n].last]
    BY <1>6, <2>6
  <2>9. RecordOf(ip)' = IF data[n].seq = seq /\ clear THEN [RecordOf(ip) EXCEPT !.ts = 0] ELSE RecordOf(ip)
    BY <2>4, <2>6, <2>8
  <2> DEFINE map1 == [a \in Ips |-> RecordOf(a)]
             map2 == [a \in Ips |-> RecordOf(a)']
             res1 == [v \in Workers |-> ResultOf(v)]
             res2 == [v \in Workers |-> ResultOf(v)']
  <2>10. map1[ip].seq = data[n].seq /\ map1[ip].ts = data[n].ts
    BY <2>8
  <2>11. CASE data[n].seq = seq
    <3>1. res2 = [res1 EXCEPT ![w] = map1[ip].ts]
      BY <1>2, <2>5, <2>10, <2>11
    <3>2. IF clear THEN map2 = [map1 EXCEPT ![ip] = [map1[ip] EXCEPT !.ts = 0]] ELSE map2 = map1
      BY <2>7, <2>9, <2>11
    <3> QED  BY <1>1, <2>10, <2>11, <3>1, <3>2 DEF Map!Fetch
  <2>12. CASE data[n].seq # seq
    <3>1. res2 = [res1 EXCEPT ![w] = -1]
      BY <1>2, <2>5, <2>12 DEF Fail
    <3>2. map2 = map1
      BY <2>7, <2>9, <2>12
    <3> QED  BY <1>1, <2>10, <2>12, <3>1, <3>2 DEF Map!Fetch
  <2> QED  BY <2>11, <2>12
<1>8. ASSUME ~Found(s, i, ip)
      PROVE  Map!Fetch(w, ip, seq, clear)
  <2>1. UNCHANGED <<wpc, node, want>>
    BY <1>8 DEF FetchNode
  <2>2. ASSUME NEW m \in Linked, data[m].ip = ip PROVE FALSE
    <3>1. m \in InList(s)
      BY <2>2, InListHashed DEF IInv
    <3>2. PICK j \in 1..Len(s) : m = s[j]
      BY <3>1 DEF InList
    <3> HIDE DEF s, i
    <3>3. ~(j < i)
      BY <1>4, <1>5, <2>2, <3>2
    <3>4. CASE i = j
      BY <1>4, <1>8, <2>2, <3>2, <3>4 DEF Found
    <3>5. CASE i < j
      <4>1. data[s[i]].ip > ip
        BY <1>4, <1>5, <2>2, <3>2, <3>5 DEF Sorted
      <4>2. i \in 1..Len(s)
        BY <1>4, <1>5, <3>5
      <4> QED  BY <1>4, <1>5, <4>1, <4>2
    <3> QED  BY <1>4, <1>5, <3>3, <3>4, <3>5
  <2>3. RecordOf(ip) = NoRecord
    BY <1>3, <2>2 DEF RecordsHeld
  <2>4. \A m \in Linked : Mapped(m)' = Mapped(m)
    BY <1>1, <2>1 DEF Mapped, Reading
  <2>5. \A a \in Ips : RecordOf(a)' = RecordOf(a)
    BY <1>1, <2>4, KeepsMap
  <2>6. ResultOf(w)' = -1
    BY <1>1, <2>1 DEF ResultOf, Fail, IInv, Types
  <2>7. seq # 0 /\ NoRecord.seq = 0
    BY SetsAssumption DEF NoRecord
  <2> QED  BY <1>1, <1>2, <2>3, <2>5, <2>6, <2>7 DEF Map!Fetch
<1> QED  BY <1>7, <1>8

\* The second part of a fetch changes nothing: its result and the clearing
\* were decided when the record was looked up.
LEMMA FetchReadStutters ==
    ASSUME OneWorker, IInv, IInv', NEW w \in Workers, FetchRead(w)
    PROVE  UNCHANGED Map!vars
<1>1. /\ wpc[w] = "read" /\ wpc' = [wpc EXCEPT ![w] = "idle"] /\ now' = now
      /\ UNCHANGED <<heads, nxt>> /\ \A v \in Workers : v = w
  BY DEF FetchRead, OneWorker
<1>2. PICK n \in Nodes : node[w] = n /\ data[n] \in Record \cup {Zeroes}
  BY <1>1 DEF IInv, Types, ListTypes
<1>3. wpc'[w] = "idle"
  BY <1>1 DEF IInv, Types
<1>4. /\ data' = IF data[n].seq = want[w].seq /\ want[w].clear
                 THEN [data EXCEPT ![n].ts = 0] ELSE data
      /\ result' = [result EXCEPT ![w] = IF data[n].seq = want[w].seq THEN data[n].ts ELSE Fail]
  BY <1>2 DEF FetchRead
<1>5. Linked' = Linked
  BY <1>1 DEF Linked, List, Chain, InList
<1>6. ASSUME NEW m \in Linked
      PROVE  data'[m].ip = data[m].ip /\ Mapped(m)' = Mapped(m)
  <2>1. m \in Nodes /\ data[m] \in Record
    BY LinkedNodes DEF IInv
  <2>2. /\ data'[m].ip = data[m].ip /\ data'[m].seq = data[m].seq /\ data'[m].last = data[m].last
        /\ data'[m].ts = IF m = n /\ data[n].seq = want[w].seq /\ want[w].clear THEN 0 ELSE data[m].ts
    BY <1>2, <1>4, <2>1 DEF IInv, Types, ListTypes, Record
  <2>3. Mapped(m)' = [seq |-> data'[m].seq, ts |-> data'[m].ts, last |-> data'[m].last]
    BY <1>1, <1>3 DEF Mapped, Reading
  <2>4. Mapped(m) = [seq  |-> data[m].seq,
                     ts   |-> IF m = n /\ data[n].seq = want[w].seq /\ want[w].clear THEN 0 ELSE data[m].ts,
                     last |-> data[m].last]
    BY <1>1, <1>2 DEF Mapped, Reading
  <2> QED  BY <2>2, <2>3, <2>4
<1>7. \A ip \in Ips : RecordOf(ip)' = RecordOf(ip)
  BY <1>5, <1>6, KeepsMap
<1>8. ResultOf(w)' = ResultOf(w)
  <2>1. ResultOf(w)' = result'[w]
    BY <1>3 DEF ResultOf
  <2>2. ResultOf(w) = IF data[n].seq = want[w].seq THEN data[n].ts ELSE Fail
    BY <1>1, <1>2 DEF ResultOf, Reading
  <2> QED  BY <1>4, <2>1, <2>2 DEF IInv, Types
<1> QED  BY <1>1, <1>7, <1>8 DEF Map!vars

LEMMA StepStutters ==
    ASSUME IInv, IInv', UNCHANGED <<lists, worker, now>>
    PROVE  UNCHANGED Map!vars
BY DEF Map!vars, RecordOf, ResultOf, Mapped, Reading, List, Chain, InList, lists, worker

\* Removing the node of an old record takes that record out of the map.
LEMMA RemovalExpires ==
    ASSUME IInv, IInv', NEW n \in Linked, Old(n), cpc # "idle",
           Linked' = Linked \ {n}, UNCHANGED <<data, worker, now>>
    PROVE  \E ip \in Ips : Map!Expire(ip)
<1>1. n \in Nodes /\ data[n] \in Record /\ \A m \in Linked : m \in Nodes /\ data[m] \in Record
  BY LinkedNodes DEF IInv
<1>2. PICK ip \in Ips : ip = data[n].ip
  BY <1>1 DEF Record
<1>3. RecordsHeld /\ RecordsHeld' /\ OneHolder
  BY Holders, HoldersNext DEF IInv
<1>4. RecordOf(ip) = Mapped(n)
  BY <1>2, <1>3 DEF RecordsHeld
<1>5. RecordOf(ip)' = NoRecord
  BY <1>2, <1>3 DEF RecordsHeld, OneHolder, NoRecord
<1>6. \A m \in Linked : Mapped(m)' = Mapped(m)
  BY DEF Mapped, Reading, worker
<1>7. ASSUME NEW a \in Ips, a # ip PROVE RecordOf(a)' = RecordOf(a)
  <2>1. CASE \E m \in Linked : data[m].ip = a
    <3>1. PICK m \in Linked : data[m].ip = a
      BY <2>1
    <3>2. RecordOf(a) = Mapped(m) /\ RecordOf(a)' = Mapped(m)'
      BY <1>2, <1>3, <1>7, <3>1 DEF RecordsHeld
    <3> QED  BY <1>6, <3>2
  <2>2. CASE \A m \in Linked : data[m].ip # a
    <3>1. RecordOf(a) = NoRecord
      BY <1>3, <2>2 DEF RecordsHeld
    <3>2. RecordOf(a)' = NoRecord
      BY <1>3, <2>2 DEF RecordsHeld, NoRecord
    <3> QED  BY <3>1, <3>2
  <2> QED  BY <2>1, <2>2
<1>8. \A v \in Workers : ResultOf(v)' = ResultOf(v)
  BY DEF ResultOf, Reading, worker
<1>9. Mapped(n).seq = data[n].seq /\ Mapped(n).last = data[n].last
  BY DEF Mapped
<1>10. Mapped(n) # NoRecord
  BY <1>1, <1>9, SetsAssumption DEF Record, NoRecord
<1>11. Mapped(n).last < now
  BY <1>1, <1>9 DEF IInv, CleanerInv, Types, ListTypes, Old, Record
<1> QED  BY <1>4, <1>5, <1>7, <1>8, <1>10, <1>11 DEF Map!Expire, Map!NoRecord, NoRecord

LEMMA CleanExpires ==
    ASSUME IInv, IInv', Clean
    PROVE  (\E ip \in Ips : Map!Expire(ip)) \/ UNCHANGED Map!vars
<1>1. CASE CleanHead
  BY <1>1, CleanHeadShape, RemovalExpires DEF CleanHead
<1>2. CASE CleanNext
  BY <1>2, CleanNextShape, RemovalExpires DEF CleanNext
<1>3. CASE KeepHead \/ KeepNext
  BY <1>3, StepStutters DEF KeepHead, KeepNext
<1> QED  BY <1>1, <1>2, <1>3 DEF Clean

LEMMA FreeStoreForgets ==
    ASSUME IInv, IInv', FreeStore
    PROVE  Map!Forget
<1>1. Linked' = {}
  BY NoNodes DEF Linked, InList, List, Chain, FreeStore
<1>2. ASSUME NEW ip \in Ips PROVE RecordOf(ip)' = NoRecord
  BY <1>1, HoldersNext DEF IInv, RecordsHeld, NoRecord
<1>3. \A w \in Workers : ResultOf(w)' = ResultOf(w)
  BY DEF ResultOf, FreeStore, worker
<1> QED  BY <1>2, <1>3 DEF Map!Forget, Map!NoRecord, NoRecord, FreeStore

LEMMA TickTicks == Tick => Map!Tick
BY DEF Tick, Map!Tick, RecordOf, ResultOf, Mapped, Reading, List, Chain, InList, lists, worker

LEMMA MapNext ==
    ASSUME OneWorker, IInv, IInv', [Next]_vars
    PROVE  [Map!Next]_Map!vars
<1>1. CASE UNCHANGED vars
  BY <1>1, StepStutters DEF vars
<1>2. ASSUME NEW w \in Workers, Work(w) PROVE [Map!Next]_Map!vars
  <2>1. ASSUME NEW ip \in Ips, NEW seq \in SeqIds, NEW ts \in Times,
               UpdateRecord(w, ip, seq, ts) \/ Insert(w, ip, seq, ts)
        PROVE  Map!Next
    BY <2>1, UpdatePuts, InsertPuts DEF Map!Next
  <2>2. ASSUME NEW ip \in Ips, InsertFails(w, ip) PROVE UNCHANGED Map!vars
    BY <2>2, StepStutters DEF InsertFails, vars
  <2>3. ASSUME NEW ip \in Ips, NEW seq \in SeqIds, NEW clear \in BOOLEAN, FetchNode(w, ip, seq, clear)
        PROVE  Map!Next
    BY <2>3, FetchNodeFetches DEF Map!Next
  <2> QED  BY <1>2, <2>1, <2>2, <2>3, FetchReadStutters DEF Work
<1>3. ASSUME NEW gap \in 0..MaxGap, CleanUp(gap) PROVE UNCHANGED Map!vars
  BY <1>3, StepStutters DEF CleanUp
<1>4. CASE Clean
  BY <1>4, CleanExpires DEF Map!Next
<1>5. CASE FreeStore
  BY <1>5, FreeStoreForgets DEF Map!Next
<1>6. CASE Tick
  BY <1>6, TickTicks DEF Map!Next
<1> QED  BY <1>1, <1>2, <1>3, <1>4, <1>5, <1>6 DEF Next

\* With one worker the store is the map of StoreMap, in spite of the mutex
\* being released between the two parts of a fetch and between two steps of a
\* cleanup: every step of update, fetch, cleanUp and _free in store.c is a
\* step of the map or changes nothing there.
THEOREM StoreImplementsMap ==
    ASSUME OneWorker
    PROVE  Spec => ImplementsMap
<1>1. IInv /\ IInv' /\ [Next]_vars => [Map!Next]_Map!vars
  BY MapNext
<1> QED  BY <1>1, MapInit, Invariant, PTL DEF Spec, ImplementsMap, Map!Spec
==============================================================================
