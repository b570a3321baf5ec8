------------------------------- MODULE Store -------------------------------
(***************************************************************************)
(* The service's store of transmit times, one record per client address    *)
(* (src/src/store.c), kept in the sorted linked lists of a hash table      *)
(* whose nodes one list manager allocates and recycles (src/src/slist.c).  *)
(*                                                                         *)
(* A worker updates and fetches records while a cleaner, "from a different *)
(* thread" (store.h), removes the old ones. Each action that touches a     *)
(* list is one critical section of the manager's mutex; a fetch reads and  *)
(* clears the record after the mutex was released, and the cleaner keeps   *)
(* its place in a list, prv, from one critical section to the next.        *)
(***************************************************************************)
EXTENDS Integers, FiniteSets, Sequences

CONSTANTS
    Workers,    \* threads that call update and fetch
    Ips,        \* client addresses, as numbers
    SeqIds,     \* sequenceIds
    Times,      \* transmit times
    HashSize,   \* number of lists, a power of two
    MaxNodes,   \* bound of the model: nodes that malloc can give
    MaxNow,     \* bound of the model: the clock stops there
    MaxGap      \* bound of the model: the largest timeGap of a cleanup

ASSUME SetsAssumption   == /\ Ips \subseteq Nat
                           /\ Times \subseteq Nat \ {0}
                           /\ SeqIds \subseteq Nat \ {0}
ASSUME BoundsAssumption == /\ HashSize \in Nat \ {0}
                           /\ MaxNodes \in Nat \ {0}
                           /\ MaxNow \in Nat
                           /\ MaxGap \in Nat

Nodes   == 1..MaxNodes
NULL    == 0
Buckets == 0..(HashSize - 1)

VARIABLES
    heads, nxt, data,    \* the lists: _head, _nxt and the records
    freeList,            \* the head of the free nodes list
    count, freeCount,    \* _count and _freeCount
    malloced,            \* the nodes obtained from malloc
    wpc, node, want,     \* a worker: where it is in fetch, d and cookie
    result,              \* what its last fetch gave
    cpc, bucket, prv, last, cnt, \* the cleaner
    now                  \* time(NULL)

lists   == <<heads, nxt, data, freeList, count, freeCount, malloced>>
worker  == <<wpc, node, want, result>>
cleaner == <<cpc, bucket, prv, last, cnt>>
vars == <<lists, worker, cleaner, now>>

Record  == [ip : Ips, seq : SeqIds, ts : Times \cup {0}, last : Nat]
Zeroes  == [ip |-> 0, seq |-> 0, ts |-> 0, last |-> 0] \* memset
NoWant  == [ip |-> 0, seq |-> 0, clear |-> FALSE]
\* What a fetch that returns false gives; otherwise it gives a time.
Fail == -1

\* _hash4, _hash6; with HashSize 1 also _hash0.
Hash(ip) == ip % HashSize

\* The nodes of the list that starts at node n, in order, where f gives the
\* next node of each one.
ChainOf(f, n) ==
    LET from[k \in 0..MaxNodes] ==
            [m \in Nodes \cup {NULL} |->
                IF k = 0 \/ m = NULL THEN <<>> ELSE <<m>> \o from[k - 1][f[m]]]
    IN  from[MaxNodes][n]

Chain(n) == ChainOf(nxt, n)

List(b)   == Chain(heads[b])
InList(s) == {s[i] : i \in 1..Len(s)}
Linked    == UNION {InList(List(b)) : b \in Buckets}
FreeNodes == InList(Chain(freeList))

\* Mutant of Stop: the list is taken to be in ascending order.
StopAscending(s, ip) ==
    LET stops == {i \in 1..Len(s) : data[s[i]].ip >= ip}
    IN  IF stops = {} THEN Len(s) + 1 ELSE CHOOSE i \in stops : \A j \in stops : i <= j

\* Where the walk of updateNode and fetchNode for an address stops: the first
\* node with cmp <= 0, or past the end. (The lists are in descending order.)
Stop(s, ip) ==
    LET stops == {i \in 1..Len(s) : data[s[i]].ip <= ip}
    IN  IF stops = {} THEN Len(s) + 1 ELSE CHOOSE i \in stops : \A j \in stops : i <= j

Found(s, i, ip) == i <= Len(s) /\ data[s[i]].ip = ip

Init ==
    /\ heads = [b \in Buckets |-> NULL]
    /\ nxt = [n \in Nodes |-> NULL]
    /\ data = [n \in Nodes |-> Zeroes]
    /\ freeList = NULL
    /\ count = 0 /\ freeCount = 0
    /\ malloced = {}
    /\ wpc = [w \in Workers |-> "idle"]
    /\ node = [w \in Workers |-> NULL]
    /\ want = [w \in Workers |-> NoWant]
    /\ result = [w \in Workers |-> Fail]
    /\ cpc = "idle"
    /\ bucket = 0 /\ prv = NULL /\ last = 0 /\ cnt = 0
    /\ now = 0

-----------------------------------------------------------------------------
(* update: updateNode, in one critical section.                            *)

\* _setN.
NewRecord(ip, seq, ts) == [ip |-> ip, seq |-> seq, ts |-> ts, last |-> now]

\* The record exists.
UpdateRecord(w, ip, seq, ts) ==
    LET s == List(Hash(ip))  i == Stop(s, ip)
    IN  /\ wpc[w] = "idle"
        /\ Found(s, i, ip)
        /\ data' = [data EXCEPT ![s[i]] = NewRecord(ip, seq, ts)]
        /\ UNCHANGED <<heads, nxt, freeList, count, freeCount, malloced,
                       worker, cleaner, now>>

\* _getFreeNode gives node n, from the free list if it has one.
GetFreeNode(n) ==
    /\ IF freeList # NULL
       THEN /\ n = freeList
            /\ freeList' = nxt[n]
            /\ freeCount' = freeCount - 1
            /\ UNCHANGED malloced
       ELSE /\ n \in Nodes \ malloced
            /\ \A m \in Nodes \ malloced : n <= m \* which one does not matter
            /\ malloced' = malloced \cup {n}
            /\ UNCHANGED <<freeList, freeCount>>
    /\ count' = count + 1

\* First node, new head, in the middle or new tail.
Insert(w, ip, seq, ts) ==
    LET s == List(Hash(ip))  i == Stop(s, ip)
    IN  /\ wpc[w] = "idle"
        /\ ~Found(s, i, ip)
        /\ \E n \in Nodes :
            /\ GetFreeNode(n)
            /\ data' = [data EXCEPT ![n] = NewRecord(ip, seq, ts)]
            /\ LET cur == IF i <= Len(s) THEN s[i] ELSE NULL
               IN  IF i = 1
                   THEN /\ heads' = [heads EXCEPT ![Hash(ip)] = n]
                        /\ nxt' = [nxt EXCEPT ![n] = cur]
                   ELSE /\ nxt' = [nxt EXCEPT ![n] = cur, ![s[i - 1]] = n]
                        /\ UNCHANGED heads
        /\ UNCHANGED <<worker, cleaner, now>>

\* A node is needed and malloc fails: update returns false.
InsertFails(w, ip) ==
    LET s == List(Hash(ip))
    IN  /\ wpc[w] = "idle"
        /\ ~Found(s, Stop(s, ip), ip)
        /\ freeList = NULL
        /\ UNCHANGED vars

-----------------------------------------------------------------------------
(* fetch: fetchNode in one critical section, the rest without the mutex.   *)

\* Mutant of FetchNode: the node where the walk stops is given.
FetchNodeNear(w, ip, seq, clear) ==
    LET s == List(Hash(ip))  i == Stop(s, ip)
    IN  /\ wpc[w] = "idle"
        /\ IF i <= Len(s)
           THEN /\ wpc' = [wpc EXCEPT ![w] = "read"]
                /\ node' = [node EXCEPT ![w] = s[i]]
                /\ want' = [want EXCEPT ![w] = [ip |-> ip, seq |-> seq, clear |-> clear]]
           ELSE UNCHANGED <<wpc, node, want>>
        /\ result' = [result EXCEPT ![w] = Fail]
        /\ UNCHANGED <<lists, cleaner, now>>

FetchNode(w, ip, seq, clear) ==
    LET s == List(Hash(ip))  i == Stop(s, ip)
    IN  /\ wpc[w] = "idle"
        /\ IF Found(s, i, ip)
           THEN /\ wpc' = [wpc EXCEPT ![w] = "read"]
                /\ node' = [node EXCEPT ![w] = s[i]]
                /\ want' = [want EXCEPT ![w] = [ip |-> ip, seq |-> seq, clear |-> clear]]
           ELSE UNCHANGED <<wpc, node, want>>
        /\ result' = [result EXCEPT ![w] = Fail]
        /\ UNCHANGED <<lists, cleaner, now>>

\* Mutant of FetchRead: the sequenceId is not compared.
FetchReadAny(w) ==
    /\ wpc[w] = "read"
    /\ LET d == data[node[w]] IN
        /\ result' = [result EXCEPT ![w] = d.ts]
        /\ IF want[w].clear
           THEN data' = [data EXCEPT ![node[w]].ts = 0]
           ELSE UNCHANGED data
    /\ wpc' = [wpc EXCEPT ![w] = "idle"]
    /\ node' = [node EXCEPT ![w] = NULL]
    /\ want' = [want EXCEPT ![w] = NoWant]
    /\ UNCHANGED <<heads, nxt, freeList, count, freeCount, malloced, cleaner, now>>

FetchRead(w) ==
    /\ wpc[w] = "read"
    /\ LET d == data[node[w]] IN
        IF d.seq # want[w].seq
        THEN /\ result' = [result EXCEPT ![w] = Fail]
             /\ UNCHANGED data
        ELSE /\ result' = [result EXCEPT ![w] = d.ts]
             /\ IF want[w].clear
                THEN data' = [data EXCEPT ![node[w]].ts = 0]
                ELSE UNCHANGED data
    /\ wpc' = [wpc EXCEPT ![w] = "idle"]
    /\ node' = [node EXCEPT ![w] = NULL]
    /\ want' = [want EXCEPT ![w] = NoWant]
    /\ UNCHANGED <<heads, nxt, freeList, count, freeCount, malloced, cleaner, now>>

-----------------------------------------------------------------------------
(* cleanup: cleanUpNodes for each list of the table.                       *)

CleanUp(gap) ==
    /\ cpc = "idle"
    /\ last' = now - gap
    /\ bucket' = 0
    /\ cnt' = 0
    /\ cpc' = "head"
    /\ UNCHANGED <<prv, lists, worker, now>>

\* Mutant of Old: the boundary second counts as old.
OldOrEqual(n) == data[n].last <= last

\* _cleanUp.
Old(n) == data[n].last < last

\* Mutant of FreeNode: the node is still counted as used.
FreeNodeCounted(n) ==
    /\ freeList' = n
    /\ freeCount' = freeCount + 1
    /\ cnt' = cnt + 1
    /\ UNCHANGED count

\* _freeNode; the caller sets nxt'.
FreeNode(n) ==
    /\ freeList' = n
    /\ freeCount' = freeCount + 1
    /\ count' = count - 1
    /\ cnt' = cnt + 1

\* The next list, or the end of the cleanup.
NextList ==
    /\ prv' = NULL
    /\ IF bucket + 1 < HashSize
       THEN cpc' = "head" /\ bucket' = bucket + 1 /\ UNCHANGED <<last, cnt>>
       ELSE cpc' = "idle" /\ bucket' = 0 /\ last' = 0 /\ cnt' = 0

\* The head is old.
CleanHead ==
    LET cur == heads[bucket]
    IN  /\ cpc = "head"
        /\ cur # NULL
        /\ Old(cur)
        /\ heads' = [heads EXCEPT ![bucket] = nxt[cur]]
        /\ nxt' = [nxt EXCEPT ![cur] = freeList]
        /\ FreeNode(cur)
        /\ UNCHANGED <<data, malloced, cpc, bucket, prv, last, worker, now>>

\* Mutant of KeepHead: the rest of the list begins at the head.
KeepHeadAny ==
    LET cur == heads[bucket]
    IN  /\ cpc = "head"
        /\ \/ /\ cur = NULL
              /\ NextList
           \/ /\ cur # NULL
              /\ prv' = cur
              /\ cpc' = "rest"
              /\ UNCHANGED <<bucket, last, cnt>>
        /\ UNCHANGED <<lists, worker, now>>

\* The head stays, or there is none.
KeepHead ==
    LET cur == heads[bucket]
    IN  /\ cpc = "head"
        /\ \/ /\ cur = NULL
              /\ NextList
           \/ /\ cur # NULL
              /\ ~Old(cur)
              /\ prv' = cur
              /\ cpc' = "rest"
              /\ UNCHANGED <<bucket, last, cnt>>
        /\ UNCHANGED <<lists, worker, now>>

\* Mutant of CleanNext: the cleaner moves on to the node it removed.
CleanNextMoves ==
    LET cur == nxt[prv]
    IN  /\ cpc = "rest"
        /\ cur # NULL
        /\ Old(cur)
        /\ nxt' = [nxt EXCEPT ![prv] = nxt[cur], ![cur] = freeList]
        /\ FreeNode(cur)
        /\ prv' = cur
        /\ UNCHANGED <<heads, data, malloced, cpc, bucket, last, worker, now>>

\* The node after prv is old.
CleanNext ==
    LET cur == nxt[prv]
    IN  /\ cpc = "rest"
        /\ cur # NULL
        /\ Old(cur)
        /\ nxt' = [nxt EXCEPT ![prv] = nxt[cur], ![cur] = freeList]
        /\ FreeNode(cur)
        /\ UNCHANGED <<heads, data, malloced, cpc, bucket, prv, last, worker, now>>

\* Mutant of KeepNext: prv does not advance.
KeepNextStays ==
    LET cur == nxt[prv]
    IN  /\ cpc = "rest"
        /\ \/ /\ cur = NULL
              /\ NextList
           \/ /\ cur # NULL
              /\ ~Old(cur)
              /\ UNCHANGED <<prv, cpc, bucket, last, cnt>>
        /\ UNCHANGED <<lists, worker, now>>

\* The node after prv stays, or there is none.
KeepNext ==
    LET cur == nxt[prv]
    IN  /\ cpc = "rest"
        /\ \/ /\ cur = NULL
              /\ NextList
           \/ /\ cur # NULL
              /\ ~Old(cur)
              /\ prv' = cur
              /\ UNCHANGED <<cpc, bucket, last, cnt>>
        /\ UNCHANGED <<lists, worker, now>>

-----------------------------------------------------------------------------
\* _free, with nobody in the store, and store_alloc of the next one: the nodes
\* of the hash table's lists and of the free list go back to malloc.
FreeStore ==
    /\ \A w \in Workers : wpc[w] = "idle"
    /\ cpc = "idle"
    /\ malloced' = malloced \ (Linked \cup FreeNodes)
    /\ heads' = [b \in Buckets |-> NULL]
    /\ nxt' = [n \in Nodes |-> NULL]
    /\ data' = [n \in Nodes |-> Zeroes]
    /\ freeList' = NULL
    /\ count' = 0 /\ freeCount' = 0
    /\ UNCHANGED <<worker, cleaner, now>>

Tick ==
    /\ now < MaxNow
    /\ now' = now + 1
    /\ UNCHANGED <<lists, worker, cleaner>>

Work(w) ==
    \/ \E ip \in Ips, seq \in SeqIds, ts \in Times :
            UpdateRecord(w, ip, seq, ts) \/ Insert(w, ip, seq, ts)
    \/ \E ip \in Ips : InsertFails(w, ip)
    \/ \E ip \in Ips, seq \in SeqIds, clear \in BOOLEAN : FetchNode(w, ip, seq, clear)
    \/ FetchRead(w)

Clean == CleanHead \/ KeepHead \/ CleanNext \/ KeepNext

Next ==
    \/ \E w \in Workers : Work(w)
    \/ \E gap \in 0..MaxGap : CleanUp(gap)
    \/ Clean
    \/ FreeStore
    \/ Tick

Spec == Init /\ [][Next]_vars

\* A cleanup that was begun is scheduled. The mutex lets it in: the worker
\* holds it for one step at a time.
FairSpec == Spec /\ WF_vars(Clean)

-----------------------------------------------------------------------------
(* Properties.                                                             *)

\* Every variable has the type it has in struct store_t, s_link_list_mgr_t and
\* the locals of fetch and cleanUpNodes; the counters stay within the nodes.
TypeOK ==
    /\ heads \in [Buckets -> Nodes \cup {NULL}]
    /\ nxt \in [Nodes -> Nodes \cup {NULL}]
    /\ data \in [Nodes -> Record \cup {Zeroes}]
    /\ freeList \in Nodes \cup {NULL}
    /\ count \in 0..MaxNodes /\ freeCount \in 0..MaxNodes /\ cnt \in Nat
    /\ malloced \subseteq Nodes
    /\ wpc \in [Workers -> {"idle", "read"}]
    /\ \A w \in Workers : wpc[w] = "read" => node[w] \in malloced
    /\ result \in [Workers -> Times \cup {0, Fail}]
    /\ cpc \in {"idle", "head", "rest"}
    /\ bucket \in Buckets
    /\ prv \in Nodes \cup {NULL}
    /\ last \in Int /\ now \in 0..MaxNow

\* Between critical sections every list is in strictly descending order of
\* addresses of its own hash value, every node obtained from malloc is on
\* exactly one list or on the free list, and the counters count them.
ListsWellFormed ==
    /\ \A b \in Buckets :
        LET s == List(b) IN
        /\ \A i \in 1..Len(s) : Hash(data[s[i]].ip) = b
        /\ \A i \in 1..(Len(s) - 1) : data[s[i]].ip > data[s[i + 1]].ip
        /\ s = <<>> \/ nxt[s[Len(s)]] = NULL
    /\ malloced = Linked \cup FreeNodes
    /\ Linked \cap FreeNodes = {}
    /\ count = Cardinality(Linked)
    /\ freeCount = Cardinality(FreeNodes)

\* "We are the only thread removing nodes" (slist.c:216): the cleaner's place
\* in a list stays on that list while the mutex is free.
CleanerOnList == cpc = "rest" => prv \in InList(List(bucket))

\* What the cleaner has passed is swept: no record older than its limit is in
\* the lists it finished, or up to prv in the one it is at, whatever was
\* inserted behind its back.
Swept ==
    LET s == List(bucket)
        passed == IF cpc = "rest" THEN {s[i] : i \in {j \in 1..Len(s) :
                                            \E k \in j..Len(s) : s[k] = prv}}
                  ELSE {}
    IN  cpc # "idle" =>
            \A n \in passed \cup UNION {InList(List(b)) : b \in 0..(bucket - 1)} : ~Old(n)

\* Only records older than the limit are removed by a cleanup: one updated in
\* the second of the limit, or while the cleanup runs, stays.
CleanupSpares ==
    [][Clean => \A n \in Linked : data[n].last >= last => n \in Linked']_vars

\* A cleanup ends, however many records are inserted before, at and behind it.
CleanupEnds == cpc # "idle" ~> cpc = "idle"

\* The record that fetch reads after the mutex was released is still that of
\* the client it looked up, although the cleaner may have freed the node: only
\* the worker itself takes nodes from the free list.
FetchRight ==
    \A w \in Workers : wpc[w] = "read" => data[node[w]].ip = want[w].ip

-----------------------------------------------------------------------------
(* The map that the store implements. A fetch takes effect when it looks   *)
(* the record up: from then on its result, and the clearing it is about to *)
(* do, are decided.                                                        *)

\* Worker w is about to read node n with success.
Reading(w, n) == wpc[w] = "read" /\ node[w] = n /\ data[n].seq = want[w].seq

Mapped(n) ==
    [seq  |-> data[n].seq,
     ts   |-> IF \E w \in Workers : Reading(w, n) /\ want[w].clear THEN 0 ELSE data[n].ts,
     last |-> data[n].last]

NoRecord == [seq |-> 0, ts |-> 0, last |-> 0]

RecordOf(ip) ==
    LET ns == {n \in InList(List(Hash(ip))) : data[n].ip = ip}
    IN  IF ns = {} THEN NoRecord ELSE Mapped(CHOOSE n \in ns : TRUE)

ResultOf(w) ==
    IF wpc[w] # "read" THEN result[w]
    ELSE IF Reading(w, node[w]) THEN data[node[w]].ts ELSE Fail

Map == INSTANCE StoreMap WITH
    map    <- [ip \in Ips |-> RecordOf(ip)],
    result <- [w \in Workers |-> ResultOf(w)]

\* The store is that map: whatever the cleaner does between the steps of a
\* fetch, each fetch gives what was last put for its address and sequenceId,
\* and records only disappear when they are old.
ImplementsMap == Map!Spec
=============================================================================
