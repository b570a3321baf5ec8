----------------------------- MODULE MsgProofs -----------------------------
(***************************************************************************)
(* Theorems about Msg, for any clients and names, either address family on *)
(* either side, and any bound of the datagrams on the way.                 *)
(*                                                                         *)
(* A layout is a sequence of TLVs. Each operation of a message object      *)
(* takes the object of a layout to the object of another (InitMade to      *)
(* ParseMade), so that a message is built with the TLVs asked for and of   *)
(* the size asked for (ReqSyncMade, RespSyncMade, FollowUpMade), and the   *)
(* invariant is that all objects and datagrams are those of layouts.       *)
(***************************************************************************)
EXTENDS Msg, TLAPS, SequenceTheorems, FiniteSetTheorems

\* The TLVs' ids, their lengths, and what a message object records of them.
TlvIds  == {"REQUEST", "RESPONSE", "STATUS", "ALT_TIME", "PAD"}
TlvLens == {n \in Nat : n > TlvHdr /\ n % 2 = 0}
Tlvs    == [id : TlvIds, len : TlvLens]

\* A message's TLVs, and their places behind the header; F are the flags of the
\* REQUEST TLV, if there is one.
Layout    == {L \in Seq(Tlvs) : Len(L) <= MaxTlvs}
At(L, i)  == MsgSize + SumLen(L, i - 1)
Total(L)  == MsgSize + SumLen(L, Len(L))
FlagsOf(id, F) == IF id = "REQUEST" THEN F ELSE {}
Placed(L, order, F) ==
    [i \in 1..Len(L) |-> [id |-> L[i].id, at |-> At(L, i), len |-> L[i].len, order |-> order,
                          flags |-> FlagsOf(L[i].id, F)]]
IdsOf(L)  == {L[j].id : j \in DOMAIN L}

\* What a layout is made of.
LEMMA LayoutItems ==
    ASSUME NEW L \in Layout
    PROVE  /\ Len(L) \in 0..MaxTlvs /\ DOMAIN L = 1..Len(L)
           /\ \A i \in 1..Len(L) : /\ L[i] \in Tlvs /\ L[i].id \in TlvIds /\ L[i].len \in Nat
                                   /\ L[i].len > TlvHdr /\ L[i].len % 2 = 0
<1>1. L \in Seq(Tlvs) /\ Len(L) <= MaxTlvs
  BY DEF Layout
<1>2. Len(L) \in Nat /\ DOMAIN L = 1..Len(L)
  BY <1>1
<1>3. ASSUME NEW i \in 1..Len(L) PROVE L[i] \in Tlvs
  BY <1>1, <1>2
<1>4. \A t \in Tlvs : t.id \in TlvIds /\ t.len \in Nat /\ t.len > TlvHdr /\ t.len % 2 = 0
  BY DEF Tlvs, TlvLens
<1> QED  BY <1>1, <1>2, <1>3, <1>4

\* SumLen adds the lengths up, for as many TLVs as a message may have (its
\* recursive function is unfolded, not proved about by induction).
LEMMA SumLens ==
    ASSUME NEW L \in Layout
    PROVE  /\ SumLen(L, 0) = 0
           /\ \A n \in 0..3 : n < Len(L) => SumLen(L, n + 1) = SumLen(L, n) + L[n + 1].len
<1> DEFINE F(g, n) == [i \in 0..n |-> IF i = 0 THEN 0 ELSE g[i - 1] + L[i].len]
<1> DEFINE l(i) == L[i].len
<1>1. \A i \in 1..Len(L) : l(i) \in Nat
  BY LayoutItems
<1>2. ASSUME NEW n \in 0..4, n <= Len(L)
      PROVE  SumLen(L, n) = IF n = 0 THEN 0 ELSE IF n = 1 THEN l(1) ELSE IF n = 2 THEN l(1) + l(2)
                            ELSE IF n = 3 THEN l(1) + l(2) + l(3) ELSE l(1) + l(2) + l(3) + l(4)
  <2> DEFINE g == [i \in 0..n |-> IF i = 0 THEN 0 ELSE IF i = 1 THEN l(1) ELSE IF i = 2 THEN l(1) + l(2)
                            ELSE IF i = 3 THEN l(1) + l(2) + l(3) ELSE l(1) + l(2) + l(3) + l(4)]
             sum == CHOOSE f : f = F(f, n)
  <2>1. \A i \in 0..n : i # 0 => l(i) \in Nat
    BY <1>1, <1>2
  <2>2. g = F(g, n)
    <3>1. \A i \in 0..n : i # 0 => g[i] = g[i - 1] + l(i)
      <4> HIDE DEF l
      <4> QED  BY <2>1
    <3>2. g[0] = 0
      OBVIOUS
    <3> HIDE DEF g, l
    <3>3. \A i \in 0..n : g[i] = F(g, n)[i]
      BY <3>1, <3>2 DEF l
    <3> QED  BY <3>3 DEF g
  <2>3. sum = F(sum, n)
    <3> HIDE DEF F, g
    <3> QED BY <2>2
  <2>4. SumLen(L, n) = sum[n]
    BY DEF SumLen
  <2> HIDE DEF sum
  <2>5. /\ sum[0] = 0
        /\ \A i \in 1..n : sum[i] = sum[i - 1] + l(i)
    <3>1. \A i \in 0..n : sum[i] = F(sum, n)[i]
      BY <2>3
    <3> QED BY <3>1
  <2> HIDE DEF l, F, g
  <2>6. /\ n >= 1 => sum[1] = sum[0] + l(1) /\ l(1) \in Nat
        /\ n >= 2 => sum[2] = sum[1] + l(2) /\ l(2) \in Nat
        /\ n >= 3 => sum[3] = sum[2] + l(3) /\ l(3) \in Nat
        /\ n >= 4 => sum[4] = sum[3] + l(4) /\ l(4) \in Nat
    BY <2>1, <2>5
  <2>7. n = 0 \/ n = 1 \/ n = 2 \/ n = 3 \/ n = 4
    OBVIOUS
  <2> QED  BY <2>4, <2>5, <2>6, <2>7
<1> QED  BY <1>1, <1>2

\* Sums of even numbers are even.
LEMMA EvenSum ==
    ASSUME NEW a \in Nat, NEW b \in Nat, a % 2 = 0, b % 2 = 0
    PROVE  a + b \in Nat /\ (a + b) % 2 = 0
OBVIOUS

\* What is left up to an even size is the length of a TLV, if it is more than a
\* TLV header.
LEMMA EvenRest ==
    ASSUME NEW a \in Nat, NEW b \in Nat, a % 2 = 0, b % 2 = 0, b + TlvHdr < a
    PROVE  a - b \in TlvLens
<1>1. a - b \in Nat /\ a - b > TlvHdr
  BY DEF TlvHdr
<1>2. (a - b) % 2 = 0
  OBVIOUS
<1> QED  BY <1>1, <1>2 DEF TlvLens

\* The sums stay even and grow by more than a TLV header with each TLV.
LEMMA SumsGrow ==
    ASSUME NEW L \in Layout, NEW n \in 0..Len(L)
    PROVE  /\ SumLen(L, n) \in Nat /\ SumLen(L, n) % 2 = 0
           /\ n # 0 => SumLen(L, n) = SumLen(L, n - 1) + L[n].len /\ SumLen(L, n - 1) \in Nat
           /\ SumLen(L, n) <= SumLen(L, Len(L))
           /\ n < Len(L) => SumLen(L, n) + TlvHdr < SumLen(L, Len(L))
<1> DEFINE N == Len(L)
           S(i) == SumLen(L, i)
           Grown(i) == \A m \in 0..i : /\ S(m) \in Nat /\ S(m) % 2 = 0 /\ S(m) <= S(i)
                                       /\ m < i => S(m) + TlvHdr < S(i)
<1>1. /\ N \in 0..4
      /\ \A i \in 1..N : L[i].len \in Nat /\ L[i].len > TlvHdr /\ L[i].len % 2 = 0
  BY LayoutItems DEF MaxTlvs
<1>2. S(0) = 0 /\ \A i \in 0..3 : i < N => S(i + 1) = S(i) + L[i + 1].len
  BY SumLens
<1> HIDE DEF N, S
<1>3. Grown(0)
  BY <1>2
<1>4. ASSUME NEW i \in 0..3, i < N, Grown(i) PROVE Grown(i + 1)
  <2>1. S(i + 1) = S(i) + L[i + 1].len
    BY <1>2, <1>4
  <2>2. L[i + 1].len \in Nat /\ L[i + 1].len > TlvHdr /\ L[i + 1].len % 2 = 0
    <3>1. i + 1 \in 1..N
      BY <1>1, <1>4
    <3> QED  BY <1>1, <3>1
  <2>3. S(i) \in Nat /\ S(i) % 2 = 0
    BY <1>4
  <2>4. S(i + 1) \in Nat /\ S(i + 1) % 2 = 0
    BY <2>1, <2>2, <2>3, EvenSum
  <2>5. S(i) + TlvHdr < S(i + 1)
    BY <2>1, <2>2, <2>3 DEF TlvHdr
  <2>6. ASSUME NEW m \in 0..i
        PROVE  S(m) \in Nat /\ S(m) % 2 = 0 /\ S(m) <= S(i + 1) /\ S(m) + TlvHdr < S(i + 1)
    <3>1. S(m) \in Nat /\ S(m) % 2 = 0 /\ S(m) <= S(i)
      BY <1>4
    <3> QED  BY <2>3, <2>4, <2>5, <3>1 DEF TlvHdr
  <2>7. \A m \in 0..(i + 1) : m \in 0..i \/ m = i + 1
    OBVIOUS
  <2> QED  BY <2>4, <2>6, <2>7
<1> HIDE DEF Grown
<1>5. Grown(N)
  <2>1. N >= 1 => Grown(1)
    BY <1>1, <1>3, <1>4
  <2>2. N >= 2 => Grown(2)
    BY <1>1, <1>4, <2>1
  <2>3. N >= 3 => Grown(3)
    BY <1>1, <1>4, <2>2
  <2>4. N >= 4 => Grown(4)
    BY <1>1, <1>4, <2>3
  <2>5. N = 0 \/ N = 1 \/ N = 2 \/ N = 3 \/ N = 4
    BY <1>1
  <2> QED  BY <1>3, <2>1, <2>2, <2>3, <2>4, <2>5
<1>6. n # 0 => S(n) = S(n - 1) + L[n].len /\ S(n - 1) \in Nat
  <2>1. ASSUME n # 0 PROVE n - 1 \in 0..3 /\ n - 1 < N /\ n - 1 \in 0..N /\ n - 1 + 1 = n
    BY <1>1, <2>1 DEF N
  <2>2. ASSUME n # 0 PROVE S(n - 1) \in Nat
    BY <1>5, <2>1, <2>2 DEF Grown
  <2> QED  BY <1>2, <2>1, <2>2
<1> QED  BY <1>5, <1>6 DEF Grown, S, N

\* A message is as long as its header at least.
LEMMA Totals ==
    ASSUME NEW L \in Layout
    PROVE  Total(L) \in Nat /\ Total(L) >= MsgSize /\ Total(L) # 0
<1>1. Len(L) \in 0..Len(L)
  BY LayoutItems
<1>2. SumLen(L, Len(L)) \in Nat
  BY <1>1, SumsGrow
<1> DEFINE n == SumLen(L, Len(L))
<1> HIDE DEF n
<1>3. n \in Nat => MsgSize + n \in Nat /\ MsgSize + n >= MsgSize /\ MsgSize + n # 0
  BY DEF MsgSize
<1> QED  BY <1>2, <1>3 DEF Total, n

\* A message of the header alone.
NoTlvs == <<>>

\* The header alone.
LEMMA Empty ==
    /\ NoTlvs \in Layout /\ Len(NoTlvs) = 0 /\ Total(NoTlvs) = MsgSize /\ IdsOf(NoTlvs) = {}
    /\ \A order, F : Placed(NoTlvs, order, F) = NoTlvs
<1>1. <<>> \in Layout
  BY DEF Layout, MaxTlvs
<1> QED  BY <1>1, SumLens DEF Total, IdsOf, Placed, MsgSize, NoTlvs

\* What a TLV more changes: the others keep their places.
LEMMA Appended ==
    ASSUME NEW L \in Layout, Len(L) < MaxTlvs, NEW x \in Tlvs
    PROVE  /\ Append(L, x) \in Layout /\ Len(Append(L, x)) = Len(L) + 1
           /\ Total(L) \in Nat /\ Total(Append(L, x)) = Total(L) + x.len
           /\ IdsOf(Append(L, x)) = IdsOf(L) \cup {x.id}
           /\ \A order, F : Placed(Append(L, x), order, F) =
                 Append(Placed(L, order, F), [id |-> x.id, at |-> Total(L), len |-> x.len, order |-> order,
                                          flags |-> FlagsOf(x.id, F)])
<1> DEFINE K == Append(L, x)
           N == Len(L)
<1>1. /\ N \in 0..3 /\ L \in Seq(Tlvs) /\ DOMAIN L = 1..N
      /\ K \in Seq(Tlvs) /\ Len(K) = N + 1 /\ DOMAIN K = 1..(N + 1)
      /\ \A i \in 1..N : K[i] = L[i]
      /\ K[N + 1] = x
  <2>1. L \in Seq(Tlvs)
    BY DEF Layout
  <2>2. N \in 0..3 /\ DOMAIN L = 1..N
    <3>1. Len(L) \in 0..4 /\ DOMAIN L = 1..Len(L) /\ Len(L) < 4
      BY LayoutItems DEF MaxTlvs
    <3> QED  BY <3>1
  <2>3. /\ K \in Seq(Tlvs) /\ Len(K) = N + 1
        /\ \A i \in 1..N : K[i] = L[i]
        /\ K[N + 1] = x
    BY <2>1, AppendProperties
  <2> HIDE DEF K
  <2>4. DOMAIN K = 1..Len(K)
    BY <2>3
  <2> QED  BY <2>1, <2>2, <2>3, <2>4
<1>2. K \in Layout
  BY <1>1 DEF Layout, MaxTlvs
<1> HIDE DEF K
<1>3. \A n \in 0..N : SumLen(K, n) = SumLen(L, n)
  <2>1. SumLen(K, 0) = SumLen(L, 0)
    BY <1>2, SumLens
  <2>2. \A n \in 0..2 : n < N /\ SumLen(K, n) = SumLen(L, n) => SumLen(K, n + 1) = SumLen(L, n + 1)
    <3>1. ASSUME NEW n \in 0..2, n < N PROVE K[n + 1] = L[n + 1]
      BY <1>1, <3>1
    <3>2. \A n \in 0..2 : n < N => SumLen(K, n + 1) = SumLen(K, n) + K[n + 1].len
      BY <1>1, <1>2, SumLens
    <3>3. \A n \in 0..2 : n < N => SumLen(L, n + 1) = SumLen(L, n) + L[n + 1].len
      BY <1>1, SumLens
    <3> QED  BY <3>1, <3>2, <3>3
  <2>3. /\ N >= 1 => SumLen(K, 1) = SumLen(L, 1)
        /\ N >= 2 => SumLen(K, 2) = SumLen(L, 2)
        /\ N >= 3 => SumLen(K, 3) = SumLen(L, 3)
    BY <1>1, <2>1, <2>2
  <2> QED  BY <1>1, <2>1, <2>3
<1>4. Total(L) \in Nat /\ Total(K) = Total(L) + x.len
  <2>1. SumLen(L, N) \in Nat
    BY <1>1, SumsGrow
  <2>2. SumLen(K, N + 1) = SumLen(K, N) + K[N + 1].len
    <3>1. N \in 0..3 /\ N < Len(K)
      BY <1>1
    <3> HIDE DEF N
    <3> QED  BY <1>2, <3>1, SumLens
  <2>3. x.len \in Nat
    BY DEF Tlvs, TlvLens
  <2>4. SumLen(K, N + 1) = SumLen(L, N) + x.len
    BY <1>1, <1>3, <2>2
  <2> DEFINE a == SumLen(L, N)
             b == x.len
             c == SumLen(K, N + 1)
  <2>5. a \in Nat /\ b \in Nat /\ c = a + b
    BY <2>1, <2>3, <2>4
  <2>6. Total(K) = MsgSize + c /\ Total(L) = MsgSize + a
    BY <1>1 DEF Total
  <2> HIDE DEF N, K, a, b, c
  <2>7. MsgSize + a \in Nat /\ MsgSize + c = (MsgSize + a) + b
    BY <2>5 DEF MsgSize
  <2> QED  BY <2>6, <2>7 DEF b
<1>5. IdsOf(K) = IdsOf(L) \cup {x.id}
  BY <1>1 DEF IdsOf
<1>6. ASSUME NEW order, NEW F
      PROVE  Placed(K, order, F) = Append(Placed(L, order, F),
                [id |-> x.id, at |-> Total(L), len |-> x.len, order |-> order,
                                          flags |-> FlagsOf(x.id, F)])
  <2> DEFINE y == [id |-> x.id, at |-> Total(L), len |-> x.len, order |-> order,
                 flags |-> FlagsOf(x.id, F)]
             p == Placed(L, order, F)
             T == {y} \cup {p[i] : i \in 1..N}
  <2>1. p \in Seq(T) /\ Len(p) = N
    BY <1>1 DEF Placed
  <2>2. /\ Append(p, y) \in Seq(T) /\ Len(Append(p, y)) = N + 1
        /\ \A i \in 1..N : Append(p, y)[i] = p[i]
        /\ Append(p, y)[N + 1] = y
    BY <2>1, AppendProperties
  <2>3. \A i \in 1..N : p[i] = Placed(K, order, F)[i]
    BY <1>1, <1>3 DEF Placed, At
  <2>4. Placed(K, order, F)[N + 1] = y
    <3>1. At(K, N + 1) = Total(L)
      BY <1>1, <1>3 DEF At, Total
    <3> QED  BY <1>1, <3>1 DEF Placed
  <2>5. DOMAIN Append(p, y) = 1..(N + 1) /\ DOMAIN Placed(K, order, F) = 1..(N + 1)
    BY <1>1, <2>2 DEF Placed
  <2>6. Placed(K, order, F) = [i \in 1..(N + 1) |-> Placed(K, order, F)[i]]
        /\ Append(p, y) = [i \in 1..(N + 1) |-> Append(p, y)[i]]
    BY <1>1, <2>2, <2>5 DEF Placed
  <2> HIDE DEF y, p, T
  <2>7. \A i \in 1..(N + 1) : Placed(K, order, F)[i] = Append(p, y)[i]
    BY <1>1, <2>2, <2>3, <2>4
  <2> QED  BY <2>6, <2>7 DEF y, p
<1> QED  BY <1>1, <1>2, <1>4, <1>5, <1>6 DEF K

-----------------------------------------------------------------------------

\* A message object and its buffer, after building or parsing a message of type
\* type with the TLVs L.
Made(size, type, order, length, L, F) ==
    [ok  |-> TRUE,
     msg |-> [end |-> Total(L), len |-> Total(L), left |-> size - Total(L), tlvs |-> L],
     buf |-> [size |-> size, len |-> Total(L),
              header |-> [type |-> type, order |-> order, length |-> length],
              tlvs |-> Placed(L, order, F)]]

\* _init starts a message of the header alone.
LEMMA InitMade ==
    ASSUME NEW s, s.ok = TRUE, s.buf.size \in Nat, s.buf.size >= MsgSize, NEW type, NEW F
    PROVE  InitMsg(s, type) = Made(s.buf.size, type, "host", 0, NoTlvs, F)
<1>1. InitMsg(s, type) =
        With(s, [end |-> MsgSize, len |-> MsgSize, left |-> s.buf.size - MsgSize, tlvs |-> <<>>],
              MsgSize, [type |-> type, order |-> "host", length |-> 0], <<>>)
  BY DEF InitMsg, MsgSize
<1> QED  BY <1>1, Empty DEF With, Made, NoTlvs

\* Storing a TLV gives the message of one TLV more.
LEMMA StoreMade ==
    ASSUME NEW size \in Nat, NEW type, NEW length, NEW F,
           NEW L \in Layout, Len(L) < MaxTlvs, NEW id \in TlvIds, NEW sz \in TlvLens
    PROVE  StoreTlv(Made(size, type, "host", length, L, F), id, sz, FlagsOf(id, F))
             = Made(size, type, "host", length, Append(L, [id |-> id, len |-> sz]), F)
<1> DEFINE s == Made(size, type, "host", length, L, F)
           x == [id |-> id, len |-> sz]
           K == Append(L, x)
<1>1. x \in Tlvs /\ x.id = id /\ x.len = sz
  BY DEF Tlvs
<1>2. /\ Total(L) \in Nat /\ Total(K) = Total(L) + sz
      /\ Placed(K, "host", F) = Append(Placed(L, "host", F),
            [id |-> id, at |-> Total(L), len |-> sz, order |-> "host",
             flags |-> FlagsOf(id, F)])
  BY <1>1, Appended
<1>3. size - Total(L) - sz = size - Total(K)
  <2>1. sz \in Nat /\ Total(L) \in Nat /\ Total(K) = Total(L) + sz
    BY <1>2 DEF TlvLens
  <2> HIDE DEF K
  <2> QED  BY <2>1
<1>4. /\ s.msg = [end |-> Total(L), len |-> Total(L), left |-> size - Total(L), tlvs |-> L]
      /\ s.buf.size = size /\ s.buf.header = [type |-> type, order |-> "host", length |-> length]
      /\ s.buf.tlvs = Placed(L, "host", F)
  BY DEF Made
<1>5. StoreTlv(s, id, sz, FlagsOf(id, F)) =
        With(s, [end |-> Total(K), len |-> Total(K), left |-> size - Total(K), tlvs |-> K],
             Total(K), [type |-> type, order |-> "host", length |-> length], Placed(K, "host", F))
  <2> HIDE DEF s, K
  <2>1. s.msg.end = Total(L) /\ s.msg.len = Total(L) /\ s.msg.left = size - Total(L) /\ s.msg.tlvs = L
    BY <1>4
  <2> QED  BY <1>2, <1>3, <1>4, <2>1 DEF StoreTlv, K
<1>6. StoreTlv(s, id, sz, FlagsOf(id, F)) = Made(size, type, "host", length, K, F)
  BY <1>4, <1>5 DEF With, Made
<1> QED  BY <1>6

\* As Appended, for a TLV given by its fields.
LEMMA Longer ==
    ASSUME NEW L \in Layout, Len(L) < MaxTlvs, NEW id \in TlvIds, NEW sz \in TlvLens
    PROVE  \E K \in Layout :
               /\ K = Append(L, [id |-> id, len |-> sz]) /\ Len(K) = Len(L) + 1
               /\ Total(K) = Total(L) + sz /\ IdsOf(K) = IdsOf(L) \cup {id}
<1> DEFINE x == [id |-> id, len |-> sz]
<1>1. x \in Tlvs /\ x.id = id /\ x.len = sz
  BY DEF Tlvs
<1> HIDE DEF x
<1>2. /\ Append(L, x) \in Layout /\ Len(Append(L, x)) = Len(L) + 1
      /\ Total(Append(L, x)) = Total(L) + x.len /\ IdsOf(Append(L, x)) = IdsOf(L) \cup {x.id}
  BY <1>1, Appended
<1> QED  BY <1>1, <1>2 DEF x

\* s is the message of L with one TLV more.
Extends(s, size, type, length, L, id, sz, F) ==
    \E K \in Layout :
        /\ Len(K) = Len(L) + 1 /\ Total(K) = Total(L) + sz /\ IdsOf(K) = IdsOf(L) \cup {id}
        /\ s = Made(size, type, "host", length, K, F)

\* _addTlv adds a TLV for which there is space.
LEMMA AddMade ==
    ASSUME NEW size \in Nat, NEW type, NEW length, NEW F, NEW L \in Layout, Len(L) < MaxTlvs,
           NEW id \in TlvIds \ {"REQUEST", "PAD"}, NEW add \in Nat, add % 2 = 0,
           id = "ALT_TIME" => add <= MaxTzLen,
           Total(L) + (MinTlvSize[id] + add) <= size
    PROVE  Extends(AddTlv(Made(size, type, "host", length, L, F), id, add),
                   size, type, length, L, id, MinTlvSize[id] + add, F)
<1> DEFINE s == Made(size, type, "host", length, L, F)
           sz == MinTlvSize[id] + add
<1>1. MinTlvSize[id] \in {8, 28, 32, 20}
  BY DEF MinTlvSize, TlvIds
<1>2. sz \in TlvLens
  <2> DEFINE m == MinTlvSize[id]
  <2>1. m \in Nat /\ m > TlvHdr /\ m % 2 = 0
    BY <1>1 DEF TlvHdr
  <2> HIDE DEF m
  <2>2. m + add \in Nat /\ m + add > TlvHdr /\ (m + add) % 2 = 0
    BY <2>1, EvenSum DEF TlvHdr
  <2> QED  BY <2>2 DEF TlvLens, m
<1>3. Total(L) \in Nat /\ Total(L) # 0
  BY Totals
<1>4. CanStore(s, sz)
  BY <1>1, <1>3 DEF CanStore, Made
<1>5. AddTlv(s, id, add) = StoreTlv(s, id, sz, FlagsOf(id, F))
  BY <1>4 DEF AddTlv, FlagsOf
<1> HIDE DEF sz
<1>7. PICK K \in Layout :
          /\ K = Append(L, [id |-> id, len |-> sz]) /\ Len(K) = Len(L) + 1
          /\ Total(K) = Total(L) + sz /\ IdsOf(K) = IdsOf(L) \cup {id}
  BY <1>2, Longer
<1>8. StoreTlv(s, id, sz, FlagsOf(id, F)) = Made(size, type, "host", length, K, F)
  BY <1>2, <1>7, StoreMade
<1>9. Extends(StoreTlv(s, id, sz, FlagsOf(id, F)), size, type, length, L, id, sz, F)
  <2> HIDE DEF s
  <2> QED  BY <1>7, <1>8 DEF Extends
<1> QED  BY <1>5, <1>9 DEF sz

\* _nextTlv changes nothing when there is space.
LEMMA NextMade ==
    ASSUME NEW size \in Nat, NEW type, NEW length, NEW F, NEW L \in Layout, Len(L) < MaxTlvs,
           NEW need \in Nat, need % 2 = 0, Total(L) + need <= size
    PROVE  LET s == Made(size, type, "host", length, L, F) IN NextTlv(s, need) = s
<1>1. Total(L) \in Nat
  BY Totals
<1>2. MakeEven(need) = need
  BY DEF MakeEven
<1> QED  BY <1>1, <1>2 DEF NextTlv, Made

\* r is a message in network order of size octets with TLVs of the given ids and a
\* PAD, and with the flags F if one of them is a REQUEST TLV.
Padded(r, z, type, size, ids, F) ==
    \E L \in Layout : /\ Total(L) = size /\ IdsOf(L) = ids \cup {"PAD"}
                      /\ r = Made(z, type, "net", size, L, F)

\* _buildDone pads a message that leaves more than a TLV header free.
LEMMA BuildMade ==
    ASSUME NEW z \in Nat, NEW type, NEW F, NEW L \in Layout, Len(L) < MaxTlvs,
           NEW size \in Nat, size % 2 = 0, size <= z, size - Total(L) \in TlvLens
    PROVE  Padded(BuildDone(Made(z, type, "host", 0, L, F), size), z, type, size, IdsOf(L), F)
<1> DEFINE pad == size - Total(L)
           s == Made(z, type, "host", 0, L, F)
           stored == StoreTlv(s, "PAD", pad, {})
<1>1. pad \in TlvLens /\ pad \in Nat /\ pad > TlvHdr /\ "PAD" \in TlvIds
  BY DEF TlvLens, TlvIds
<1>2. Total(L) \in Nat /\ Total(L) # 0
  BY Totals
<1> HIDE DEF pad, s
<1>3. PICK K \in Layout : /\ Total(K) = Total(L) + pad /\ IdsOf(K) = IdsOf(L) \cup {"PAD"}
                          /\ stored = Made(z, type, "host", 0, K, F)
  <2>1. PICK K \in Layout :
            /\ K = Append(L, [id |-> "PAD", len |-> pad]) /\ Len(K) = Len(L) + 1
            /\ Total(K) = Total(L) + pad /\ IdsOf(K) = IdsOf(L) \cup {"PAD"}
    BY <1>1, Longer
  <2>2. stored = Made(z, type, "host", 0, K, F)
    BY <1>1, <2>1, StoreMade DEF s, FlagsOf
  <2> QED  BY <2>1, <2>2
<1>4. Total(K) = size
  BY <1>2, <1>3 DEF pad
<1>5. /\ s.ok = TRUE /\ s.msg.end = Total(L) /\ s.msg.len = Total(L)
      /\ s.msg.left = z - Total(L) /\ s.msg.tlvs = L
      /\ s.buf.size = z /\ s.buf.tlvs = Placed(L, "host", F) /\ s.buf.header.type = type
  BY DEF Made, s
<1> HIDE DEF stored
<1>6. /\ stored.msg = [end |-> size, len |-> size, left |-> z - size, tlvs |-> K]
      /\ stored.buf.tlvs = Placed(K, "host", F)
  BY <1>3, <1>4 DEF Made
<1>7. \A i \in DOMAIN Placed(L, "host", F) : Placed(L, "host", F)[i].order = "host"
  BY DEF Placed
<1>8. [i \in DOMAIN Placed(K, "host", F) |-> [Placed(K, "host", F)[i] EXCEPT !.order = "net"]]
        = Placed(K, "net", F)
  BY DEF Placed
<1>9. BuildDone(s, size) =
        With(s, stored.msg, size, [type |-> type, order |-> "net", length |-> size],
             [i \in DOMAIN stored.buf.tlvs |-> [stored.buf.tlvs[i] EXCEPT !.order = "net"]])
  <2>1. pad # 0 /\ ~(pad < TlvHdr) /\ ~(z - Total(L) < pad) /\ ~(size < Total(L)) /\ ~(size > z)
        /\ ~(size % 2 = 1)
    BY <1>1, <1>2 DEF TlvHdr, pad
  <2> QED  BY <1>2, <1>5, <1>7, <2>1 DEF BuildDone, stored, pad
<1>10. BuildDone(s, size) = Made(z, type, "net", size, K, F)
  BY <1>4, <1>5, <1>6, <1>8, <1>9 DEF With, Made
<1> QED  BY <1>3, <1>4, <1>10 DEF s, Padded

\* The datagram of a message.
Posted(type, L, F) ==
    [len |-> Total(L), header |-> [type |-> type, order |-> "net", length |-> Total(L)],
     tlvs |-> Placed(L, "net", F), built |-> L]

\* s_send sends the message that was built.
LEMMA PostMade ==
    ASSUME NEW z, NEW type, NEW L, NEW F
    PROVE  Datagram(Made(z, type, "net", Total(L), L, F)) = Posted(type, L, F)
BY DEF Datagram, Made, Posted

\* What was built and sent is parsed as the same TLVs, in any object whose buffer
\* is large enough.
LEMMA ParseMade ==
    ASSUME NEW s, NEW z \in Nat, s.buf.size = z, NEW type, NEW L \in Layout, NEW F,
           Total(L) <= z
    PROVE  Parse(Recv(s, Posted(type, L, F))) = Made(z, type, "host", Total(L), L, F)
<1> DEFINE N == Len(L)
           r == Recv(s, Posted(type, L, F))
           all == Placed(L, "net", F)
<1>1. /\ r.ok = TRUE /\ r.buf.size = z /\ r.buf.len = Total(L) /\ r.buf.tlvs = all
      /\ r.buf.header = [type |-> type, order |-> "net", length |-> Total(L)]
  BY DEF Recv, With, Posted
<1>2. N \in 0..4 /\ DOMAIN L = 1..N /\ DOMAIN all = 1..N /\ \A i \in 1..N : L[i] \in Tlvs
  BY LayoutItems DEF MaxTlvs, Placed
<1>3. Total(L) \in Nat /\ Total(L) >= MsgSize
  BY Totals
<1>4. ASSUME NEW i \in 1..N
      PROVE  /\ all[i].at = At(L, i) /\ all[i].len = L[i].len /\ all[i].id = L[i].id
             /\ all[i].order = "net" /\ all[i] = [id |-> L[i].id, at |-> At(L, i),
                                                  len |-> L[i].len, order |-> "net",
                                                  flags |-> FlagsOf(L[i].id, F)]
             /\ At(L, i) \in Nat /\ Total(L) - At(L, i) > TlvHdr
  <2>1. i - 1 \in 0..N /\ i - 1 < N
    BY <1>2
  <2>2. SumLen(L, i - 1) \in Nat /\ SumLen(L, N) \in Nat /\ SumLen(L, i - 1) + TlvHdr < SumLen(L, N)
    <3>1. \A n \in 0..N : /\ SumLen(L, n) \in Nat
                          /\ n < N => SumLen(L, n) + TlvHdr < SumLen(L, N)
      BY SumsGrow DEF N
    <3>2. N \in 0..N
      BY <1>2
    <3> DEFINE m == i - 1
    <3>3. m \in 0..N /\ m < N
      BY <2>1
    <3> HIDE DEF N, m
    <3>4. SumLen(L, m) \in Nat /\ SumLen(L, N) \in Nat /\ SumLen(L, m) + TlvHdr < SumLen(L, N)
      BY <3>1, <3>2, <3>3
    <3> QED  BY <3>4 DEF m
  <2>3. At(L, i) \in Nat /\ Total(L) - At(L, i) > TlvHdr
    BY <2>2 DEF At, Total, MsgSize, TlvHdr
  <2> QED  BY <2>3 DEF Placed
<1> HIDE DEF N, r, all
<1>5. Parsable(r) = 1..N
  <2>1. \A i \in 1..N : i <= MaxTlvs /\ Total(L) - all[i].at > TlvHdr
    BY <1>2, <1>4 DEF MaxTlvs
  <2> QED  BY <1>1, <1>2, <2>1 DEF Parsable
<1>6. Cardinality(Parsable(r)) = N
  <2>1. Cardinality(1..N) = IF 1 > N THEN 0 ELSE N - 1 + 1
    BY <1>2, FS_Interval
  <2> QED  BY <1>2, <1>5, <2>1
<1>7. (IF N = 0 THEN MsgSize ELSE all[N].at + all[N].len) = Total(L)
  <2>1. CASE N = 0
    BY <2>1, SumLens DEF Total, MsgSize, N
  <2>2. CASE N # 0
    <3>1. SumLen(L, N) = SumLen(L, N - 1) + L[N].len /\ SumLen(L, N - 1) \in Nat /\ L[N].len \in Nat
      BY <1>2, <2>2, SumsGrow, LayoutItems DEF N
    <3>2. all[N].at + all[N].len = At(L, N) + L[N].len
      BY <1>2, <1>4, <2>2
    <3>3. At(L, N) + L[N].len = Total(L)
      BY <3>1 DEF At, Total, MsgSize, N
    <3> QED  BY <2>2, <3>2, <3>3
  <2> QED  BY <2>1, <2>2
<1>8. [i \in 1..N |-> [id |-> all[i].id, len |-> all[i].len]] = L
  <2>1. \A t \in Tlvs : t = [id |-> t.id, len |-> t.len]
    BY DEF Tlvs
  <2>2. \A i \in 1..N : L[i] = [id |-> all[i].id, len |-> all[i].len]
    BY <1>2, <1>4, <2>1
  <2>3. L = [i \in 1..N |-> L[i]]
    BY <1>2 DEF Layout, N
  <2> QED  BY <2>2, <2>3
<1>9. [i \in DOMAIN all |-> IF i <= N THEN [all[i] EXCEPT !.order = Swap(@)] ELSE all[i]]
        = Placed(L, "host", F)
  <2>1. \A i \in 1..N : i <= N /\ [all[i] EXCEPT !.order = Swap(@)] = Placed(L, "host", F)[i]
    BY <1>2, <1>4 DEF Placed, Swap, N
  <2> QED  BY <1>2, <2>1 DEF Placed, N
<1>10. ParseFirst(r, N) =
         With(r, [end |-> Total(L), len |-> Total(L), left |-> z - Total(L), tlvs |-> L],
              Total(L), [type |-> type, order |-> "host", length |-> Total(L)], Placed(L, "host", F))
  <2>1. ~(Total(L) < MsgSize) /\ ~(Total(L) > Total(L))
    BY <1>3 DEF MsgSize
  <2>2. Swap("net") = "host"
    BY DEF Swap
  <2>3. /\ r.buf.header.type = type /\ r.buf.header.order = "net"
        /\ r.buf.header.length = Total(L)
    BY <1>1
  <2>4. ParseFirst(r, N) =
          With(r, [end |-> IF N = 0 THEN MsgSize ELSE all[N].at + all[N].len, len |-> Total(L),
                   left |-> z - (IF N = 0 THEN MsgSize ELSE all[N].at + all[N].len),
                   tlvs |-> [i \in 1..N |-> [id |-> all[i].id, len |-> all[i].len]]],
               Total(L), [type |-> type, order |-> Swap("net"), length |-> Total(L)],
               [i \in DOMAIN all |-> IF i <= N THEN [all[i] EXCEPT !.order = Swap(@)] ELSE all[i]])
    BY <1>1, <2>1, <2>3 DEF ParseFirst
  <2> QED  BY <1>7, <1>8, <1>9, <2>2, <2>4
<1> QED  BY <1>1, <1>6, <1>10 DEF Parse, With, Made, r

-----------------------------------------------------------------------------

\* client_main_smooth_size of every size that client_main_get_msg_size returns.
LEMMA SmoothSizes ==
    /\ SmoothSize(72) = 96 /\ SmoothSize(102) = 112 /\ SmoothSize(108) = 128
    /\ SmoothSize(120) = 144 /\ SmoothSize(138) = 160 /\ SmoothSize(150) = 160
BY DEF SmoothSize

\* The address's length.
LEMMA AddrLens ==
    /\ AddrLen["UDP_IPv4"] = 4 /\ AddrLen["UDP_IPv6"] = 16
    /\ \A p \in Protocols : AddrLen[p] \in {4, 16}
BY SizesAssumption DEF AddrLen

\* The time zone's name is made even and still fits.
LEMMA EvenNames ==
    ASSUME NEW n \in NameLens
    PROVE  MakeEven(n) \in 0..MaxTzLen /\ MakeEven(n) % 2 = 0
<1>1. n \in 0..10
  BY SizesAssumption DEF MaxTzLen
<1> QED  BY <1>1 DEF MakeEven, MaxTzLen

\* The size that a client chooses is enough for what it asks for, whatever the
\* address family and name at the service.
LEMMA SizeSuffices ==
    ASSUME NEW o \in Options
    PROVE  LET size == SmoothSize(GetMsgSize(o))
           IN  /\ size \in 96..160 /\ size % 2 = 0
               /\ o.useAltTimeScale => size >= 112
               /\ o.useCSPTPstatus => size >= 128
               /\ o.useCSPTPstatus /\ o.useAltTimeScale => size >= 160
<1>1. o.protocol \in Protocols /\ o.useCSPTPstatus \in BOOLEAN /\ o.useAltTimeScale \in BOOLEAN
  BY DEF Options
<1>2. AddrLen[o.protocol] = 4 \/ AddrLen[o.protocol] = 16
  BY <1>1, AddrLens
<1>3. CASE ~o.useCSPTPstatus /\ ~o.useAltTimeScale
  <2>1. GetMsgSize(o) = 72
    BY <1>3 DEF GetMsgSize, MsgSize, MinTlvSize
  <2> QED  BY <1>3, <2>1, SmoothSizes
<1>4. CASE ~o.useCSPTPstatus /\ o.useAltTimeScale
  <2>1. GetMsgSize(o) = 102
    BY <1>4 DEF GetMsgSize, MsgSize, MinTlvSize, MaxTzLen
  <2> QED  BY <1>4, <2>1, SmoothSizes
<1>5. CASE o.useCSPTPstatus /\ ~o.useAltTimeScale
  <2>1. GetMsgSize(o) = 108 \/ GetMsgSize(o) = 120
    BY <1>2, <1>5 DEF GetMsgSize, MsgSize, MinTlvSize
  <2> QED  BY <1>5, <2>1, SmoothSizes
<1>6. CASE o.useCSPTPstatus /\ o.useAltTimeScale
  <2>1. GetMsgSize(o) = 138 \/ GetMsgSize(o) = 150
    BY <1>2, <1>6 DEF GetMsgSize, MsgSize, MinTlvSize, MaxTzLen
  <2> QED  BY <1>6, <2>1, SmoothSizes
<1> QED  BY <1>1, <1>3, <1>4, <1>5, <1>6

\* A Follow_Up is padded to the size asked for.
LEMMA FollowUpMade ==
    ASSUME NEW s, s.ok = TRUE, NEW z \in Nat, s.buf.size = z, NEW F,
           NEW size \in Nat, size >= 96, size % 2 = 0, size <= z
    PROVE  Padded(FollowUp(s, size), z, "Follow_Up", size, {}, F)
<1>1. InitMsg(s, "Follow_Up") = Made(z, "Follow_Up", "host", 0, NoTlvs, F)
  <2>1. z >= MsgSize
    BY DEF MsgSize
  <2> QED  BY <2>1, InitMade
<1>2. /\ NoTlvs \in Layout /\ Total(NoTlvs) = 44 /\ Len(NoTlvs) < MaxTlvs
      /\ IdsOf(NoTlvs) = {}
  BY Empty DEF MsgSize, MaxTlvs
<1>3. size - Total(NoTlvs) \in TlvLens
  BY <1>2 DEF TlvLens, TlvHdr
<1>4. Padded(BuildDone(Made(z, "Follow_Up", "host", 0, NoTlvs, F), size), z, "Follow_Up", size,
             IdsOf(NoTlvs), F)
  BY <1>2, <1>3, BuildMade
<1> QED  BY <1>1, <1>2, <1>4 DEF FollowUp

\* _addCSPTPReqTlv adds a REQUEST TLV, with the flags given, for which there is
\* space.
LEMMA AddReqMade ==
    ASSUME NEW size \in Nat, NEW type, NEW length, NEW F \in SUBSET ReqFlags, NEW L \in Layout, Len(L) < MaxTlvs,
           Total(L) + 8 <= size
    PROVE  Extends(AddCSPTPReqTlv(Made(size, type, "host", length, L, F), F),
                   size, type, length, L, "REQUEST", 8, F)
<1> DEFINE s == Made(size, type, "host", length, L, F)
<1>1. 8 \in TlvLens /\ "REQUEST" \in TlvIds
  BY DEF TlvLens, TlvIds, TlvHdr
<1>2. Total(L) \in Nat /\ Total(L) # 0
  BY Totals
<1>3. CanStore(s, 8)
  BY <1>2 DEF CanStore, Made
<1>4. AddCSPTPReqTlv(s, F) = StoreTlv(s, "REQUEST", 8, F)
  <2>1. F \cap ReqFlags = F
    OBVIOUS
  <2> QED  BY <1>3, <2>1 DEF AddCSPTPReqTlv, MinTlvSize
<1>5. PICK K \in Layout :
          /\ K = Append(L, [id |-> "REQUEST", len |-> 8]) /\ Len(K) = Len(L) + 1
          /\ Total(K) = Total(L) + 8 /\ IdsOf(K) = IdsOf(L) \cup {"REQUEST"}
  BY <1>1, Longer
<1>6. StoreTlv(s, "REQUEST", 8, F) = Made(size, type, "host", length, K, F)
  BY <1>1, <1>5, StoreMade DEF FlagsOf
<1> HIDE DEF s
<1> QED  BY <1>4, <1>5, <1>6 DEF Extends, s

\* A request is built with its REQUEST TLV.
LEMMA ReqSyncMade ==
    ASSUME NEW s, s.ok = TRUE, NEW z \in Nat, s.buf.size = z, NEW F \in SUBSET ReqFlags,
           NEW size \in Nat, size >= 96, size % 2 = 0, size <= z
    PROVE  Padded(ReqSync(s, size, F), z, "Sync", size, {"REQUEST"}, F)
<1> DEFINE s1 == Made(z, "Sync", "host", 0, NoTlvs, F)
<1>1. InitMsg(s, "Sync") = s1
  <2>1. z >= MsgSize
    BY DEF MsgSize
  <2> QED  BY <2>1, InitMade
<1>2. /\ NoTlvs \in Layout /\ Total(NoTlvs) = 44 /\ Len(NoTlvs) = 0 /\ Len(NoTlvs) < MaxTlvs
      /\ IdsOf(NoTlvs) = {}
  BY Empty DEF MsgSize, MaxTlvs
<1>3. z >= 52
  OBVIOUS
<1>4. Total(NoTlvs) + 8 <= z
  BY <1>2, <1>3
<1>5. PICK L \in Layout :
          /\ Len(L) = Len(NoTlvs) + 1 /\ Total(L) = Total(NoTlvs) + 8
          /\ IdsOf(L) = IdsOf(NoTlvs) \cup {"REQUEST"}
          /\ AddCSPTPReqTlv(s1, F) = Made(z, "Sync", "host", 0, L, F)
  <2>1. Extends(AddCSPTPReqTlv(s1, F), z, "Sync", 0, NoTlvs, "REQUEST", 8, F)
    BY <1>2, <1>4, AddReqMade
  <2> HIDE DEF s1
  <2> QED  BY <2>1 DEF Extends
<1>6. size - Total(L) \in TlvLens /\ Len(L) < MaxTlvs
  BY <1>2, <1>5 DEF TlvLens, TlvHdr, MaxTlvs
<1>7. ReqSync(s, size, F) = BuildDone(Made(z, "Sync", "host", 0, L, F), size)
  BY <1>1, <1>5 DEF ReqSync
<1>8. Padded(BuildDone(Made(z, "Sync", "host", 0, L, F), size), z, "Sync", size, IdsOf(L), F)
  BY <1>6, BuildMade
<1>9. IdsOf(L) = {"REQUEST"}
  BY <1>2, <1>5
<1> QED  BY <1>7, <1>8, <1>9

\* The service asks for a place of need octets and adds a TLV of no more.
LEMMA ServedMade ==
    ASSUME NEW size \in Nat, NEW type, NEW length, NEW F, NEW L \in Layout, Len(L) < MaxTlvs,
           NEW id \in TlvIds \ {"REQUEST", "PAD"}, NEW add \in Nat, add % 2 = 0,
           id = "ALT_TIME" => add <= MaxTzLen,
           NEW need \in Nat, need % 2 = 0, MinTlvSize[id] + add <= need, Total(L) + need <= size
    PROVE  Extends(AddTlv(NextTlv(Made(size, type, "host", length, L, F), need), id, add),
                   size, type, length, L, id, MinTlvSize[id] + add, F)
<1>1. MinTlvSize[id] \in {8, 28, 32, 20}
  BY DEF MinTlvSize, TlvIds
<1>2. Total(L) \in Nat
  BY Totals
<1>3. Total(L) + (MinTlvSize[id] + add) <= size
  <2> DEFINE m == MinTlvSize[id]
             n == Total(L)
  <2>1. m \in Nat /\ n \in Nat /\ m + add <= need /\ n + need <= size
    BY <1>1, <1>2
  <2> HIDE DEF m, n
  <2>2. n + (m + add) <= size
    BY <2>1
  <2> QED  BY <2>2 DEF m, n
<1>4. NextTlv(Made(size, type, "host", length, L, F), need) = Made(size, type, "host", length, L, F)
  BY NextMade
<1>5. Extends(AddTlv(Made(size, type, "host", length, L, F), id, add),
              size, type, length, L, id, MinTlvSize[id] + add, F)
  BY <1>3, AddMade
<1> QED  BY <1>4, <1>5

\* The TLVs that a client of options o asks for.
Asked(o) == {"RESPONSE"} \union (IF o.useCSPTPstatus THEN {"STATUS"} ELSE {})
                        \union (IF o.useAltTimeScale THEN {"ALT_TIME"} ELSE {})

\* An answer of the size that the client chose is built, and has the TLVs that
\* the client asked for.
LEMMA RespSyncMade ==
    ASSUME NEW s, s.ok = TRUE, NEW z \in Nat, s.buf.size = z,
           clk.networkProtocol \in Protocols, clk.name \in NameLens,
           NEW o \in Options, SmoothSize(GetMsgSize(o)) <= z, NEW F
    PROVE  LET size == SmoothSize(GetMsgSize(o))
           IN  Padded(RespSync(s, size, TxFlags(o)), z, "Sync", size, Asked(o), F)
<1> DEFINE size == SmoothSize(GetMsgSize(o))
           s1 == Made(z, "Sync", "host", 0, NoTlvs, F)
           add == AddrLen[clk.networkProtocol]
           name == MakeEven(clk.name)
<1>1. /\ size \in Nat /\ size >= 96 /\ size % 2 = 0 /\ size <= z
      /\ o.useAltTimeScale => size >= 112
      /\ o.useCSPTPstatus => size >= 128
      /\ o.useCSPTPstatus /\ o.useAltTimeScale => size >= 160
  BY SizeSuffices
<1>2. /\ add \in {4, 16} /\ name \in 0..10 /\ name % 2 = 0
      /\ name <= MaxTzLen
  BY AddrLens, EvenNames DEF MaxTzLen
<1> HIDE DEF size, add, name
<1>3. /\ \A n : n = 1 \/ n = 2 => n + 1 = 2 \/ n + 1 = 3
      /\ \A n : n = 1 \/ n = 2 \/ n = 3 => n < MaxTlvs
  BY DEF MaxTlvs
<1>4. InitMsg(s, "Sync") = s1
  <2>1. z >= MsgSize
    BY <1>1 DEF MsgSize
  <2> QED  BY <2>1, InitMade
<1>5. /\ NoTlvs \in Layout /\ Len(NoTlvs) < MaxTlvs
      /\ Len(NoTlvs) = 0 /\ Total(NoTlvs) = 44 /\ IdsOf(NoTlvs) = {}
  BY Empty DEF MsgSize, MaxTlvs
<1>6. /\ MinTlvSize["RESPONSE"] = 28 /\ MinTlvSize["STATUS"] = 32 /\ MinTlvSize["ALT_TIME"] = 20
      /\ {"RESPONSE", "STATUS", "ALT_TIME"} \subseteq TlvIds \ {"REQUEST", "PAD"}
  BY DEF MinTlvSize, TlvIds
<1>7. PICK L1 \in Layout : /\ Len(L1) = 1 /\ Total(L1) = 72 /\ IdsOf(L1) = {"RESPONSE"}
                           /\ AddRespTlv(s1) = Made(z, "Sync", "host", 0, L1, F)
  <2>1. /\ "RESPONSE" \in TlvIds \ {"REQUEST", "PAD"} /\ 0 \in Nat /\ 0 % 2 = 0
        /\ "RESPONSE" = "ALT_TIME" => 0 <= MaxTzLen
        /\ 28 \in Nat /\ 28 % 2 = 0 /\ MinTlvSize["RESPONSE"] + 0 <= 28
        /\ Total(NoTlvs) + 28 <= z
    BY <1>1, <1>5, <1>6
  <2>2. Extends(AddTlv(NextTlv(s1, 28), "RESPONSE", 0), z, "Sync", 0, NoTlvs,
                "RESPONSE", MinTlvSize["RESPONSE"] + 0, F)
    <3>1. \A n, a \in Nat :
             /\ n % 2 = 0 /\ a % 2 = 0 /\ MinTlvSize["RESPONSE"] + a <= n /\ Total(NoTlvs) + n <= z
             => Extends(AddTlv(NextTlv(s1, n), "RESPONSE", a), z, "Sync", 0, NoTlvs,
                        "RESPONSE", MinTlvSize["RESPONSE"] + a, F)
      BY <1>5, <1>6, ServedMade
    <3> HIDE DEF s1
    <3> QED  BY <2>1, <3>1
  <2>3. AddRespTlv(s1) = AddTlv(NextTlv(s1, 28), "RESPONSE", 0)
    BY <1>6 DEF AddRespTlv
  <2> HIDE DEF s1
  <2> QED  BY <1>5, <1>6, <2>2, <2>3 DEF Extends
<1> DEFINE s2 == Made(z, "Sync", "host", 0, L1, F)
<1>8. PICK L2 \in Layout :
          /\ Len(L2) = 1 \/ Len(L2) = 2
          /\ Total(L2) = 72 + (IF o.useCSPTPstatus THEN 32 + add ELSE 0)
          /\ IdsOf(L2) = {"RESPONSE"} \union (IF o.useCSPTPstatus THEN {"STATUS"} ELSE {})
          /\ (IF o.useCSPTPstatus THEN AddStatusTlv(s2) ELSE s2) = Made(z, "Sync", "host", 0, L2, F)
  <2>1. CASE ~o.useCSPTPstatus
    BY <1>7, <2>1
  <2>2. CASE o.useCSPTPstatus
    <3>1. /\ "STATUS" \in TlvIds \ {"REQUEST", "PAD"} /\ add \in Nat /\ add % 2 = 0
          /\ "STATUS" = "ALT_TIME" => add <= MaxTzLen
          /\ 32 + add \in Nat /\ (32 + add) % 2 = 0 /\ MinTlvSize["STATUS"] + add <= 32 + add
          /\ Total(L1) + (32 + add) <= z /\ Len(L1) < MaxTlvs
      BY <1>1, <1>2, <1>6, <1>7, <2>2 DEF MaxTlvs
    <3>2. PICK K \in Layout :
              /\ Len(K) = Len(L1) + 1 /\ Total(K) = Total(L1) + (MinTlvSize["STATUS"] + add)
              /\ IdsOf(K) = IdsOf(L1) \cup {"STATUS"}
              /\ AddTlv(NextTlv(s2, 32 + add), "STATUS", add) = Made(z, "Sync", "host", 0, K, F)
      <4>1. Extends(AddTlv(NextTlv(s2, 32 + add), "STATUS", add), z, "Sync", 0, L1,
                    "STATUS", MinTlvSize["STATUS"] + add, F)
        BY <3>1, ServedMade
      <4> HIDE DEF s2
      <4> QED  BY <4>1 DEF Extends
    <3>3. AddStatusTlv(s2) = AddTlv(NextTlv(s2, 32 + add), "STATUS", add)
      BY <1>6 DEF AddStatusTlv, add
    <3> HIDE DEF s2
    <3>4. Total(K) = 72 + (32 + add) /\ Len(K) = 2
      BY <1>2, <1>6, <1>7, <3>2
    <3> QED  BY <1>7, <2>2, <3>2, <3>3, <3>4
  <2> QED  BY <2>1, <2>2
<1>9. /\ Total(L2) \in Nat /\ Total(L2) % 2 = 0 /\ Total(L2) + TlvHdr < size
      /\ o.useAltTimeScale => Total(L2) + 30 + TlvHdr < size
      /\ Len(L2) = 1 \/ Len(L2) = 2
  <2>1. CASE ~o.useCSPTPstatus
    BY <1>1, <1>8, <2>1 DEF TlvHdr
  <2>2. CASE o.useCSPTPstatus
    <3>1. Total(L2) = 108 \/ Total(L2) = 120
      BY <1>2, <1>8, <2>2
    <3> QED  BY <1>1, <1>8, <2>2, <3>1 DEF TlvHdr
  <2> QED  BY <2>1, <2>2
<1> DEFINE s3 == Made(z, "Sync", "host", 0, L2, F)
<1>10. PICK L3 \in Layout :
           /\ Len(L3) = 1 \/ Len(L3) = 2 \/ Len(L3) = 3
           /\ Total(L3) = Total(L2) + (IF o.useAltTimeScale THEN 20 + name ELSE 0)
           /\ IdsOf(L3) = IdsOf(L2) \union (IF o.useAltTimeScale THEN {"ALT_TIME"} ELSE {})
           /\ (IF o.useAltTimeScale THEN AddAltTimeTlv(s3) ELSE s3) = Made(z, "Sync", "host", 0, L3, F)
  <2>1. CASE ~o.useAltTimeScale
    BY <1>8, <1>9, <2>1
  <2>2. CASE o.useAltTimeScale
    <3>1. /\ "ALT_TIME" \in TlvIds \ {"REQUEST", "PAD"} /\ name \in Nat /\ name % 2 = 0
          /\ "ALT_TIME" = "ALT_TIME" => name <= MaxTzLen
          /\ 30 \in Nat /\ 30 % 2 = 0 /\ MinTlvSize["ALT_TIME"] + name <= 30
          /\ Total(L2) + 30 <= z /\ Len(L2) < MaxTlvs
      <4>1. Total(L2) + 30 <= z
        BY <1>1, <1>9, <2>2 DEF TlvHdr
      <4>2. 30 % 2 = 0 /\ 20 + name <= 30 /\ name \in Nat
        BY <1>2
      <4>3. MinTlvSize["ALT_TIME"] + name <= 30 /\ "ALT_TIME" \in TlvIds \ {"REQUEST", "PAD"}
        BY <1>6, <4>2
      <4>4. Len(L2) < MaxTlvs
        BY <1>9, <1>3, Zenon
      <4> QED  BY <1>2, <4>1, <4>2, <4>3, <4>4
    <3>2. PICK K \in Layout :
              /\ Len(K) = Len(L2) + 1 /\ Total(K) = Total(L2) + (MinTlvSize["ALT_TIME"] + name)
              /\ IdsOf(K) = IdsOf(L2) \cup {"ALT_TIME"}
              /\ AddTlv(NextTlv(s3, 30), "ALT_TIME", name) = Made(z, "Sync", "host", 0, K, F)
      <4>1. Extends(AddTlv(NextTlv(s3, 30), "ALT_TIME", name), z, "Sync", 0, L2,
                    "ALT_TIME", MinTlvSize["ALT_TIME"] + name, F)
        BY <3>1, ServedMade
      <4> HIDE DEF s3
      <4> QED  BY <4>1 DEF Extends
    <3>3. AddAltTimeTlv(s3) = AddTlv(NextTlv(s3, 30), "ALT_TIME", name)
      BY <1>6 DEF AddAltTimeTlv, name, MaxTzLen
    <3> HIDE DEF s3
    <3>4. Total(K) = Total(L2) + (20 + name) /\ (Len(K) = 2 \/ Len(K) = 3)
      <4>1. Total(K) = Total(L2) + (20 + name)
        BY <1>6, <3>2
      <4>2. Len(K) = 2 \/ Len(K) = 3
        BY <1>9, <1>3, <3>2, Zenon
      <4> QED  BY <4>1, <4>2
    <3>5. /\ Total(K) = Total(L2) + (IF o.useAltTimeScale THEN 20 + name ELSE 0)
          /\ IdsOf(K) = IdsOf(L2) \union (IF o.useAltTimeScale THEN {"ALT_TIME"} ELSE {})
          /\ (IF o.useAltTimeScale THEN AddAltTimeTlv(s3) ELSE s3) = Made(z, "Sync", "host", 0, K, F)
      <4>1. AddAltTimeTlv(s3) = Made(z, "Sync", "host", 0, K, F)
        BY <3>2, <3>3, Zenon
      <4>2. IdsOf(K) = IdsOf(L2) \cup {"ALT_TIME"} /\ Total(K) = Total(L2) + (20 + name)
        BY <3>2, <3>4, Zenon
      <4> QED  BY <2>2, <4>1, <4>2, Zenon
    <3> QED  BY <3>4, <3>5
  <2> QED  BY <2>1, <2>2
<1>11. size - Total(L3) \in TlvLens /\ Len(L3) < MaxTlvs
  <2>1. Total(L3) \in Nat /\ Total(L3) % 2 = 0 /\ Total(L3) + TlvHdr < size
    <3>1. CASE ~o.useAltTimeScale
      BY <1>9, <1>10, <3>1
    <3>2. CASE o.useAltTimeScale
      <4>1. Total(L3) = Total(L2) + (20 + name) /\ 20 + name \in Nat /\ 20 + name <= 30
        BY <1>2, <1>10, <3>2
      <4>2. (20 + name) % 2 = 0
        BY <1>2
      <4>3. Total(L3) \in Nat /\ Total(L3) + TlvHdr < size
        BY <1>1, <1>9, <3>2, <4>1 DEF TlvHdr
      <4>4. Total(L3) % 2 = 0
        BY <1>9, <4>1, <4>2, EvenSum
      <4> QED  BY <4>3, <4>4
    <3> QED  BY <3>1, <3>2
  <2>2. Len(L3) < MaxTlvs
    BY <1>10, <1>3, Zenon
  <2>3. size - Total(L3) \in TlvLens
    BY <1>1, <2>1, EvenRest
  <2> QED  BY <2>2, <2>3
<1>12. Padded(BuildDone(Made(z, "Sync", "host", 0, L3, F), size), z, "Sync", size, IdsOf(L3), F)
  BY <1>1, <1>11, BuildMade
<1>13. RespSync(s, size, TxFlags(o)) = BuildDone(Made(z, "Sync", "host", 0, L3, F), size)
  <2>1. /\ o.useCSPTPstatus \in BOOLEAN /\ o.useAltTimeScale \in BOOLEAN
        /\ "StatusTlv" \in TxFlags(o) <=> o.useCSPTPstatus
        /\ "AlternateTimeTlv" \in TxFlags(o) <=> o.useAltTimeScale
    BY DEF Options, TxFlags
  <2> HIDE DEF s1, s2, s3
  <2>2. (IF "StatusTlv" \in TxFlags(o) THEN AddStatusTlv(s2) ELSE s2) = s3
    BY <1>8, <2>1 DEF s3
  <2>3. (IF "AlternateTimeTlv" \in TxFlags(o) THEN AddAltTimeTlv(s3) ELSE s3)
           = Made(z, "Sync", "host", 0, L3, F)
    BY <1>10, <2>1
  <2>4. AddRespTlv(InitMsg(s, "Sync")) = s2
    BY <1>4, <1>7 DEF s2
  <2> QED  BY <2>2, <2>3, <2>4 DEF RespSync
<1>14. IdsOf(L3) = Asked(o)
  BY <1>8, <1>10 DEF Asked
<1> QED  BY <1>12, <1>13, <1>14 DEF size

-----------------------------------------------------------------------------

\* The types of the messages sent.
Types == {"Sync", "Follow_Up"}
\* A datagram of client c's exchange.
Letter(c, type, L, F) == [client |-> c, data |-> Posted(type, L, F)]

\* An && chain ends with a message built and sends at most a Sync and a Follow_Up.
Sends(steps, c, z, L, F) ==
    \E K \in Layout, type \in Types :
        /\ Total(K) = Total(L)
        /\ Last(steps) = Made(z, type, "net", Total(L), K, F)
        /\ Sent(c, steps) \in Seq({Letter(c, "Sync", L, F), Letter(c, "Follow_Up", K, F)})
        /\ Len(Sent(c, steps)) <= 2

\* A Sync that was built is sent, and a Follow_Up after it when there are two
\* steps.
LEMMA StepsMade ==
    ASSUME NEW c, NEW z \in Nat, NEW L \in Layout, NEW F, NEW two \in BOOLEAN,
           Total(L) \in Nat, Total(L) >= 96, Total(L) % 2 = 0, Total(L) <= z
    PROVE  Sends(Steps(Made(z, "Sync", "net", Total(L), L, F), two, Total(L)), c, z, L, F)
<1> DEFINE size == Total(L)
           sync == Made(z, "Sync", "net", size, L, F)
           steps == Steps(sync, two, size)
<1>1. sync.ok = TRUE /\ sync.buf.size = z
  BY DEF Made
<1>2. Datagram(sync) = Posted("Sync", L, F)
  BY PostMade
<1> HIDE DEF sync
<1>3. CASE two
  <2>1. PICK K \in Layout :
            Total(K) = size /\ FollowUp(sync, size) = Made(z, "Follow_Up", "net", size, K, F)
    <3>1. Padded(FollowUp(sync, size), z, "Follow_Up", size, {}, F)
      <4> HIDE DEF size
      <4> QED  BY <1>1, FollowUpMade DEF size
    <3> QED  BY <3>1 DEF Padded
  <2> DEFINE fu == Made(z, "Follow_Up", "net", size, K, F)
             a == Letter(c, "Sync", L, F)
             b == Letter(c, "Follow_Up", K, F)
  <2>2. steps = <<sync, fu>>
    BY <1>1, <1>3, <2>1 DEF Steps
  <2>3. fu.ok = TRUE
    BY DEF Made
  <2>4. Datagram(fu) = Posted("Follow_Up", K, F)
    BY <2>1, PostMade
  <2> HIDE DEF fu
  <2>5. Last(<<sync, fu>>) = fu /\ Len(<<sync, fu>>) = 2
    BY DEF Last
  <2>6. Sent(c, <<sync, fu>>) = <<a, b>>
    <3>1. Sent(c, <<sync, fu>>) = [i \in 1..2 |-> [client |-> c, data |-> Datagram(<<sync, fu>>[i])]]
      BY <2>3, <2>5 DEF Sent
    <3> QED  BY <1>2, <2>4, <3>1 DEF Letter
  <2> HIDE DEF a, b
  <2>7. <<a, b>> \in Seq({a, b}) /\ Len(<<a, b>>) <= 2
    OBVIOUS
  <2>8. Sent(c, steps) \in Seq({a, b}) /\ Len(Sent(c, steps)) <= 2 /\ Last(steps) = fu
    <3> HIDE DEF steps
    <3> QED  BY <2>2, <2>5, <2>6, <2>7
  <2> HIDE DEF steps
  <2> QED  BY <2>1, <2>8 DEF Sends, fu, a, b, Types, steps, sync
<1>4. CASE ~two
  <2> DEFINE a == Letter(c, "Sync", L, F)
             b == Letter(c, "Follow_Up", L, F)
  <2>2. steps = <<sync>>
    BY <1>4 DEF Steps
  <2>5. Last(<<sync>>) = sync /\ Len(<<sync>>) = 1
    BY DEF Last
  <2>6. Sent(c, <<sync>>) = <<a>>
    <3>1. Sent(c, <<sync>>) = [i \in 1..1 |-> [client |-> c, data |-> Datagram(<<sync>>[i])]]
      BY <1>1, <2>5 DEF Sent
    <3> QED  BY <1>2, <3>1 DEF Letter
  <2> HIDE DEF a, b
  <2>7. <<a>> \in Seq({a, b}) /\ Len(<<a>>) <= 2
    OBVIOUS
  <2>8. Sent(c, steps) \in Seq({a, b}) /\ Len(Sent(c, steps)) <= 2 /\ Last(steps) = sync
    <3> HIDE DEF steps
    <3> QED  BY <2>2, <2>5, <2>6, <2>7
  <2> HIDE DEF steps
  <2> QED  BY <2>8 DEF Sends, a, b, Types, steps, sync
<1> QED  BY <1>3, <1>4

-----------------------------------------------------------------------------

\* The size of p's buffer.
Size(o, p) == IF p = "service" THEN ServiceBuf ELSE SmoothSize(GetMsgSize(o[p]))

\* p's message object is new, or a message that was built or parsed is in it.
IsObject(o, p, s) ==
    \/ s = Alloc(Size(o, p))
    \/ LET L == s.msg.tlvs
           h == s.buf.header
       IN  /\ L \in Layout /\ Total(L) <= Size(o, p)
           /\ \E F \in SUBSET ReqFlags : s = Made(Size(o, p), h.type, h.order, h.length, L, F)

\* The contents of the datagrams.
Data == [len : Nat, header : [type : Types, order : {"net"}, length : Nat],
         tlvs : Seq([id : TlvIds, at : Nat, len : TlvLens, order : {"net"}, flags : SUBSET ReqFlags]),
         built : Layout]

\* A datagram of client c's exchange on its way to p has the client's size and
\* the TLVs that p looks for: a request the flags of the client's options.
Fits(o, p, c, type, L, F) ==
    /\ Total(L) = Size(o, c)
    /\ p = "service" \/ p = c
    /\ type = "Sync" => IF p = "service" THEN "REQUEST" \in IdsOf(L) /\ F = TxFlags(o[c])
                        ELSE IdsOf(L) = Asked(o[c]) \cup {"PAD"}

\* The datagrams that may be on their way to p.
Letters(o, p) ==
    {d \in [client : Clients, data : Data] :
        LET type == d.data.header.type
            L == d.data.built
        IN  \E F \in SUBSET ReqFlags :
                d = Letter(d.client, type, L, F) /\ Fits(o, p, d.client, type, L, F)}

\* The inductive invariant. The properties speak of numbers and places; it says
\* what they come from: every object and every datagram is a built message.
Inv ==
    /\ opt \in [Clients -> Options]
    /\ clk \in [useTxTwoSteps : BOOLEAN, networkProtocol : Protocols, name : NameLens]
    /\ st = [p \in Peers |-> st[p]] /\ wire = [p \in Peers |-> wire[p]]
    /\ \A p \in Peers : /\ IsObject(opt, p, st[p])
                        /\ wire[p] \in Seq(Letters(opt, p))
                        /\ Len(wire[p]) <= MaxWire

\* A message that fits in the buffer is an object's.
LEMMA MadeObject ==
    ASSUME NEW o, NEW p, NEW type, NEW order, NEW length,
           NEW L \in Layout, Total(L) <= Size(o, p), NEW F \in SUBSET ReqFlags
    PROVE  IsObject(o, p, Made(Size(o, p), type, order, length, L, F))
<1> DEFINE z == Size(o, p)
           s == Made(z, type, order, length, L, F)
<1>1. s.msg.tlvs = L /\ s.buf.header.type = type /\ s.buf.header.order = order
      /\ s.buf.header.length = length
  BY DEF Made
<1> HIDE DEF s
<1>2. s = Made(z, s.buf.header.type, s.buf.header.order, s.buf.header.length, s.msg.tlvs, F)
  BY <1>1 DEF s
<1> QED  BY <1>1, <1>2 DEF IsObject, s

\* No object has failed, and none lost its buffer's size.
LEMMA Objects ==
    ASSUME NEW o, NEW p, NEW s, IsObject(o, p, s)
    PROVE  /\ s.ok = TRUE /\ s.buf.size = Size(o, p)
           /\ [s EXCEPT !.ok = TRUE].ok = TRUE /\ [s EXCEPT !.ok = TRUE].buf.size = Size(o, p)
<1> DEFINE z == Size(o, p)
           Right(t) == t.ok = TRUE /\ t.buf.size = z
<1>1. CASE s = Alloc(z)
  <2>1. Right(Alloc(z)) /\ Right([Alloc(z) EXCEPT !.ok = TRUE])
    BY DEF Alloc
  <2> QED  BY <1>1, <2>1
<1>2. ASSUME NEW type, NEW order, NEW length, NEW L, NEW F, s = Made(z, type, order, length, L, F)
      PROVE  Right(s) /\ Right([s EXCEPT !.ok = TRUE])
  <2> DEFINE t == Made(z, type, order, length, L, F)
  <2>1. Right(t) /\ Right([t EXCEPT !.ok = TRUE])
    BY DEF Made
  <2> HIDE DEF t, Right
  <2> QED  BY <1>2, <2>1 DEF t
<1>3. \/ s = Alloc(z)
      \/ \E F : s = Made(z, s.buf.header.type, s.buf.header.order, s.buf.header.length, s.msg.tlvs, F)
  BY DEF IsObject
<1> HIDE DEF Right
<1>4. Right(s) /\ Right([s EXCEPT !.ok = TRUE])
  BY <1>1, <1>2, <1>3 DEF Right
<1> QED  BY <1>4 DEF Right

\* What is sent may be on the way.
LEMMA Posts ==
    ASSUME NEW o, NEW p, NEW c \in Clients, NEW type \in Types, NEW L \in Layout,
           NEW F \in SUBSET ReqFlags, Fits(o, p, c, type, L, F)
    PROVE  Letter(c, type, L, F) \in Letters(o, p)
<1> DEFINE N == Len(L)
           placed == Placed(L, "net", F)
           d == Letter(c, type, L, F)
<1>1. N \in Nat /\ \A i \in 1..N : L[i].id \in TlvIds /\ L[i].len \in TlvLens /\ At(L, i) \in Nat
  <2>1. N \in Nat /\ \A i \in 1..N : L[i] \in Tlvs
    BY LayoutItems
  <2>2. \A i \in 1..N : L[i].id \in TlvIds /\ L[i].len \in TlvLens
    BY <2>1 DEF Tlvs
  <2>3. ASSUME NEW i \in 1..N PROVE At(L, i) \in Nat
    <3>1. i - 1 \in 0..N
      BY <2>1
    <3>2. SumLen(L, i - 1) \in Nat
      BY <3>1, SumsGrow
    <3> QED  BY <3>2 DEF At, MsgSize
  <2> QED  BY <2>1, <2>2, <2>3
<1>2. Total(L) \in Nat
  BY Totals
<1>3. placed \in Seq([id : TlvIds, at : Nat, len : TlvLens, order : {"net"},
                       flags : SUBSET ReqFlags])
  <2>1. \A id : FlagsOf(id, F) \in SUBSET ReqFlags
    BY DEF FlagsOf
  <2> QED  BY <1>1, <2>1 DEF Placed
<1> HIDE DEF placed
<1>4. Posted(type, L, F) \in Data
  BY <1>2, <1>3 DEF Posted, Data, placed
<1>5. /\ d.client = c /\ d.data.header.type = type /\ d.data.built = L
      /\ d \in [client : Clients, data : Data]
  <2>1. Posted(type, L, F).header.type = type /\ Posted(type, L, F).built = L
    BY DEF Posted
  <2> QED  BY <1>4, <2>1 DEF Letter
<1> HIDE DEF d
<1>6. d = Letter(c, type, L, F)
  BY DEF d
<1> QED  BY <1>5, <1>6 DEF Letters

\* What is on the way was sent.
LEMMA Mail ==
    ASSUME NEW o, NEW p, NEW d \in Letters(o, p)
    PROVE  \E c \in Clients, type \in Types, L \in Layout, F \in SUBSET ReqFlags :
               /\ d = Letter(c, type, L, F) /\ d.client = c /\ d.data = Posted(type, L, F)
               /\ Fits(o, p, c, type, L, F)
<1> DEFINE c == d.client
           type == d.data.header.type
           L == d.data.built
<1>1. PICK F \in SUBSET ReqFlags : /\ d \in [client : Clients, data : Data]
                                   /\ d = Letter(c, type, L, F) /\ Fits(o, p, c, type, L, F)
  BY DEF Letters
<1>2. c \in Clients /\ type \in Types /\ L \in Layout
  BY <1>1 DEF Data
<1> HIDE DEF c, type, L
<1>3. d.client = c /\ d.data = Posted(type, L, F)
  BY <1>1 DEF Letter
<1> QED  BY <1>1, <1>2, <1>3

\* The buffers' sizes: even, enough for every message and no larger than the
\* service's.
LEMMA Sized ==
    ASSUME opt \in [Clients -> Options]
    PROVE  /\ \A c \in Clients : /\ c # "service" /\ opt[c] \in Options /\ opt[c].useTwoSteps \in BOOLEAN
                                /\ ClientSize(c) = Size(opt, c)
                                /\ Size(opt, c) = SmoothSize(GetMsgSize(opt[c]))
                                /\ Size(opt, c) \in Nat /\ Size(opt, c) >= 96 /\ Size(opt, c) % 2 = 0
                                /\ Size(opt, c) <= ServiceBuf
           /\ \A p \in Peers : Size(opt, p) \in Nat /\ Size(opt, p) >= 96
           /\ Size(opt, "service") = ServiceBuf
<1>1. ServiceBuf \in Nat /\ ServiceBuf >= 160 /\ "service" \notin Clients
  BY SizesAssumption
<1>2. ASSUME NEW c \in Clients
      PROVE  /\ c # "service" /\ opt[c] \in Options /\ opt[c].useTwoSteps \in BOOLEAN
             /\ ClientSize(c) = Size(opt, c)
             /\ Size(opt, c) = SmoothSize(GetMsgSize(opt[c]))
             /\ Size(opt, c) \in Nat /\ Size(opt, c) >= 96 /\ Size(opt, c) % 2 = 0
             /\ Size(opt, c) <= ServiceBuf
  <2>1. c # "service" /\ opt[c] \in Options /\ opt[c].useTwoSteps \in BOOLEAN
    BY <1>1 DEF Options
  <2> DEFINE n == SmoothSize(GetMsgSize(opt[c]))
  <2>2. n \in 96..160 /\ n % 2 = 0
    BY <2>1, SizeSuffices
  <2>3. ClientSize(c) = n /\ Size(opt, c) = n
    BY <2>1 DEF ClientSize, Size
  <2> HIDE DEF n
  <2>4. n \in Nat /\ n >= 96 /\ n <= ServiceBuf
    BY <1>1, <2>2
  <2> QED  BY <2>1, <2>2, <2>3, <2>4 DEF n
<1>3. Size(opt, "service") = ServiceBuf
  BY DEF Size
<1> QED  BY <1>1, <1>2, <1>3 DEF Peers

\* The invariant holds initially.
LEMMA InvInit == Init => Inv
<1> SUFFICES ASSUME Init PROVE Inv
  OBVIOUS
<1>1. opt \in [Clients -> Options]
      /\ clk \in [useTxTwoSteps : BOOLEAN, networkProtocol : Protocols, name : NameLens]
      /\ wire = [p \in Peers |-> NoTlvs]
      /\ st = [p \in Peers |-> Alloc(IF p = "service" THEN ServiceBuf ELSE ClientSize(p))]
  BY DEF Init, NoTlvs
<1>2. ASSUME NEW p \in Peers PROVE st[p] = Alloc(Size(opt, p))
  BY <1>1, <1>2 DEF Size, ClientSize
<1>3. ASSUME NEW p \in Peers PROVE IsObject(opt, p, st[p])
  BY <1>2 DEF IsObject
<1>4. ASSUME NEW p \in Peers PROVE wire[p] \in Seq(Letters(opt, p)) /\ Len(wire[p]) <= MaxWire
  <2>1. wire[p] = <<>>
    BY <1>1 DEF NoTlvs
  <2> QED  BY <2>1, SizesAssumption
<1> QED  BY <1>1, <1>3, <1>4 DEF Inv

\* A client's requests keep the invariant.
LEMMA InvSend ==
    ASSUME Inv, NEW c \in Clients, ClientSend(c)
    PROVE  Inv'
<1> DEFINE z == ClientSize(c)
           s == [st[c] EXCEPT !.ok = TRUE]
           F == TxFlags(opt[c])
           steps == Steps(ReqSync(s, z, F), opt[c].useTwoSteps, z)
           mail == Sent(c, steps)
<1>1. /\ opt \in [Clients -> Options]
      /\ clk \in [useTxTwoSteps : BOOLEAN, networkProtocol : Protocols, name : NameLens]
      /\ st = [p \in Peers |-> st[p]] /\ wire = [p \in Peers |-> wire[p]]
      /\ \A p \in Peers : /\ IsObject(opt, p, st[p]) /\ wire[p] \in Seq(Letters(opt, p))
                          /\ Len(wire[p]) <= MaxWire
  BY DEF Inv
<1>2. /\ Len(wire["service"]) + 2 <= MaxWire
      /\ st' = [st EXCEPT ![c] = Last(steps)]
      /\ wire' = [wire EXCEPT !["service"] = @ \o mail]
      /\ opt' = opt /\ clk' = clk
  BY DEF ClientSend
<1>3. c \in Peers /\ "service" \in Peers /\ c # "service"
  BY SizesAssumption DEF Peers
<1>4. /\ z = Size(opt, c) /\ z \in Nat /\ z >= 96 /\ z % 2 = 0 /\ opt[c].useTwoSteps \in BOOLEAN
  BY <1>1, Sized
<1>5. s.ok = TRUE /\ s.buf.size = z
  <2>1. IsObject(opt, c, st[c])
    BY <1>1, <1>3
  <2> HIDE DEF z
  <2> QED  BY <1>4, <2>1, Objects, Zenon
<1> HIDE DEF s, z
<1>0. F \in SUBSET ReqFlags
  BY DEF TxFlags, ReqFlags
<1>6. PICK L \in Layout : /\ Total(L) = z /\ IdsOf(L) = {"REQUEST", "PAD"}
                          /\ ReqSync(s, z, F) = Made(z, "Sync", "net", z, L, F)
  <2>1. z <= z
    BY <1>4
  <2>2. Padded(ReqSync(s, z, F), z, "Sync", z, {"REQUEST"}, F)
    <3> HIDE DEF F
    <3> QED  BY <1>4, <1>5, <1>0, <2>1, ReqSyncMade
  <2>3. {"REQUEST"} \cup {"PAD"} = {"REQUEST", "PAD"}
    OBVIOUS
  <2> QED  BY <2>2, <2>3 DEF Padded
<1>7. Sends(steps, c, z, L, F)
  <2>1. Total(L) \in Nat /\ Total(L) >= 96 /\ Total(L) % 2 = 0 /\ Total(L) <= z
    BY <1>4, <1>6
  <2>2. Sends(Steps(Made(z, "Sync", "net", Total(L), L, F), opt[c].useTwoSteps, Total(L)), c, z, L, F)
    BY <1>4, <2>1, StepsMade
  <2> QED  BY <1>6, <2>2
<1> HIDE DEF steps
<1>8. PICK K \in Layout, type \in Types :
          /\ Total(K) = Total(L)
          /\ Last(steps) = Made(z, type, "net", Total(L), K, F)
          /\ mail \in Seq({Letter(c, "Sync", L, F), Letter(c, "Follow_Up", K, F)})
          /\ Len(mail) <= 2
  BY <1>7 DEF Sends
<1>9. IsObject(opt, c, Last(steps))
  <2>1. Total(K) <= z
    BY <1>4, <1>6, <1>8
  <2> QED  BY <1>4, <1>8, <1>0, <2>1, MadeObject
<1>10. mail \in Seq(Letters(opt, "service"))
  <2>1. Letter(c, "Sync", L, F) \in Letters(opt, "service")
    <3>1. Fits(opt, "service", c, "Sync", L, F)
      BY <1>4, <1>6 DEF Fits
    <3> QED  BY <1>0, <3>1, Posts DEF Types
  <2>2. Letter(c, "Follow_Up", K, F) \in Letters(opt, "service")
    <3>1. Fits(opt, "service", c, "Follow_Up", K, F)
      BY <1>4, <1>6, <1>8 DEF Fits
    <3> QED  BY <1>0, <3>1, Posts DEF Types
  <2> HIDE DEF mail
  <2> QED  BY <1>8, <2>1, <2>2
<1> HIDE DEF mail
<1>11. ASSUME NEW p \in Peers
       PROVE  /\ IsObject(opt', p, st'[p])
              /\ wire'[p] \in Seq(Letters(opt', p)) /\ Len(wire'[p]) <= MaxWire
  <2>1. st'[p] = IF p = c THEN Last(steps) ELSE st[p]
    BY <1>1, <1>2, <1>3
  <2>2. IsObject(opt', p, st'[p])
    BY <1>1, <1>2, <1>9, <2>1
  <2>3. wire'[p] = IF p = "service" THEN wire[p] \o mail ELSE wire[p]
    BY <1>1, <1>2, <1>3
  <2>4. wire'[p] \in Seq(Letters(opt, p)) /\ Len(wire'[p]) <= MaxWire
    <3>1. CASE p # "service"
      BY <1>1, <2>3, <3>1
    <3>2. CASE p = "service"
      <4> DEFINE w == wire["service"]
                 S == Letters(opt, "service")
      <4>1. w \in Seq(S) /\ mail \in Seq(S) /\ Len(mail) <= 2 /\ Len(w) + 2 <= MaxWire /\ MaxWire \in Nat
        BY <1>1, <1>2, <1>3, <1>8, <1>10, SizesAssumption
      <4>2. wire'[p] = w \o mail
        BY <2>3, <3>2
      <4> HIDE DEF w, S
      <4>3. w \o mail \in Seq(S) /\ Len(w \o mail) <= MaxWire
        BY <4>1
      <4> QED  BY <3>2, <4>2, <4>3 DEF S
    <3> QED  BY <3>1, <3>2
  <2> QED  BY <1>2, <2>2, <2>4
<1>12. st' = [p \in Peers |-> st'[p]] /\ wire' = [p \in Peers |-> wire'[p]]
  BY <1>1, <1>2
<1> QED  BY <1>1, <1>2, <1>11, <1>12 DEF Inv

\* A TLV of the message is found.
LEMMA HasMade ==
    ASSUME NEW z, NEW type, NEW order, NEW length, NEW L, NEW F, NEW id \in IdsOf(L)
    PROVE  Has(Made(z, type, order, length, L, F), id)
<1> DEFINE s == Made(z, type, order, length, L, F)
<1>1. s.msg.tlvs = L
  BY DEF Made
<1> HIDE DEF s
<1> QED  BY <1>1 DEF Has, IdsOf, s

\* The flags of a message's REQUEST TLV are found.
LEMMA FlagsMade ==
    ASSUME NEW z, NEW type, NEW order, NEW length, NEW L \in Layout, NEW F, "REQUEST" \in IdsOf(L)
    PROVE  RcvReqSync(Made(z, type, order, length, L, F)) = F
<1> DEFINE s == Made(z, type, order, length, L, F)
           i == CHOOSE j \in DOMAIN s.msg.tlvs : s.msg.tlvs[j].id = "REQUEST"
<1>1. s.msg.tlvs = L /\ s.buf.tlvs = Placed(L, order, F) /\ DOMAIN L = 1..Len(L)
  BY LayoutItems DEF Made
<1>2. i \in DOMAIN L /\ L[i].id = "REQUEST"
  <2>1. \E j \in DOMAIN s.msg.tlvs : s.msg.tlvs[j].id = "REQUEST"
    BY <1>1 DEF IdsOf
  <2> HIDE DEF s
  <2>2. i \in DOMAIN s.msg.tlvs /\ s.msg.tlvs[i].id = "REQUEST"
    BY <2>1
  <2> QED  BY <1>1, <2>2
<1> HIDE DEF i
<1>3. Placed(L, order, F)[i].flags = F
  BY <1>1, <1>2 DEF Placed, FlagsOf
<1>4. RcvReqSync(s) = s.buf.tlvs[i].flags
  BY DEF RcvReqSync, i
<1> HIDE DEF s
<1>5. RcvReqSync(s) = F
  BY <1>1, <1>3, <1>4
<1> QED  BY <1>5 DEF s

\* A datagram on its way to p is received and parsed as it was built.
LEMMA Arrives ==
    ASSUME Inv, NEW p \in Peers, NEW d \in Letters(opt, p)
    PROVE  \E c \in Clients, type \in Types, L \in Layout, F \in SUBSET ReqFlags :
               /\ d.client = c /\ d.data = Posted(type, L, F) /\ Fits(opt, p, c, type, L, F)
               /\ Total(L) \in Nat /\ Total(L) >= 96 /\ Total(L) % 2 = 0
               /\ Total(L) = Size(opt, c) /\ Total(L) <= Size(opt, p)
               /\ Parse(Recv(st[p], d.data)) = Made(Size(opt, p), type, "host", Total(L), L, F)
<1>1. PICK c \in Clients, type \in Types, L \in Layout, F \in SUBSET ReqFlags :
          d.client = c /\ d.data = Posted(type, L, F) /\ Fits(opt, p, c, type, L, F)
  BY Mail
<1>2. Total(L) = Size(opt, c) /\ (p = "service" \/ p = c)
  BY <1>1 DEF Fits
<1>3. /\ Size(opt, c) \in Nat /\ Size(opt, c) >= 96 /\ Size(opt, c) % 2 = 0
      /\ Size(opt, c) <= ServiceBuf /\ Size(opt, "service") = ServiceBuf /\ Size(opt, p) \in Nat
  BY Sized DEF Inv
<1>4. Total(L) <= Size(opt, p)
  BY <1>2, <1>3
<1>5. IsObject(opt, p, st[p])
  BY DEF Inv
<1>6. st[p].buf.size = Size(opt, p)
  BY <1>5, Objects
<1>7. Parse(Recv(st[p], Posted(type, L, F))) = Made(Size(opt, p), type, "host", Total(L), L, F)
  BY <1>3, <1>4, <1>6, ParseMade
<1> QED  BY <1>1, <1>2, <1>3, <1>4, <1>7

\* Receiving keeps the invariant.
LEMMA InvReceive ==
    ASSUME Inv, NEW c \in Clients, ClientReceive(c)
    PROVE  Inv'
<1> DEFINE d == Head(wire[c])
           parsed == Parse(Recv(st[c], d.data))
           missing == parsed.buf.header.type = "Sync" /\ ~Has(parsed, "RESPONSE")
<1>1. /\ opt \in [Clients -> Options]
      /\ clk \in [useTxTwoSteps : BOOLEAN, networkProtocol : Protocols, name : NameLens]
      /\ st = [p \in Peers |-> st[p]] /\ wire = [p \in Peers |-> wire[p]]
      /\ \A p \in Peers : /\ IsObject(opt, p, st[p]) /\ wire[p] \in Seq(Letters(opt, p))
                          /\ Len(wire[p]) <= MaxWire
  BY DEF Inv
<1>2. /\ wire[c] # <<>>
      /\ st' = [st EXCEPT ![c] = IF missing THEN False(parsed) ELSE parsed]
      /\ wire' = [wire EXCEPT ![c] = Tail(@)]
      /\ opt' = opt /\ clk' = clk
  BY DEF ClientReceive
<1>3. c \in Peers /\ c # "service"
  BY SizesAssumption DEF Peers
<1>4. /\ d \in Letters(opt, c) /\ Tail(wire[c]) \in Seq(Letters(opt, c))
      /\ Len(Tail(wire[c])) <= MaxWire
  <2> DEFINE S == Letters(opt, c)
             w == wire[c]
  <2>1. w \in Seq(S) /\ w # <<>> /\ Len(w) <= MaxWire /\ MaxWire \in Nat
    BY <1>1, <1>2, <1>3, SizesAssumption
  <2> HIDE DEF S, w
  <2>2. Head(w) \in S /\ Tail(w) \in Seq(S) /\ Len(Tail(w)) <= MaxWire
    BY <2>1
  <2> QED  BY <2>2 DEF S, w
<1> HIDE DEF d
<1>5. PICK e \in Clients, type \in Types, L \in Layout, F \in SUBSET ReqFlags :
          /\ Fits(opt, c, e, type, L, F) /\ Total(L) <= Size(opt, c)
          /\ parsed = Made(Size(opt, c), type, "host", Total(L), L, F)
  BY <1>3, <1>4, Arrives
<1> HIDE DEF parsed
<1>6. ~missing
  <2>1. parsed.buf.header.type = type
    BY <1>5 DEF Made
  <2>2. type = "Sync" => "RESPONSE" \in IdsOf(L)
    BY <1>3, <1>5 DEF Fits, Asked
  <2>3. "RESPONSE" \in IdsOf(L) => Has(parsed, "RESPONSE")
    BY <1>5, HasMade
  <2> QED  BY <2>1, <2>2, <2>3
<1>7. IsObject(opt, c, parsed)
  BY <1>5, MadeObject
<1> HIDE DEF missing
<1>8. ASSUME NEW p \in Peers
      PROVE  /\ IsObject(opt', p, st'[p])
             /\ wire'[p] \in Seq(Letters(opt', p)) /\ Len(wire'[p]) <= MaxWire
  <2>1. CASE p = c
    <3>1. st'[p] = parsed /\ wire'[p] = Tail(wire[c])
      BY <1>1, <1>2, <1>3, <1>6, <2>1
    <3> QED  BY <1>2, <1>4, <1>7, <2>1, <3>1
  <2>2. CASE p # c
    <3>1. st'[p] = st[p] /\ wire'[p] = wire[p]
      BY <1>1, <1>2, <2>2
    <3> QED  BY <1>1, <1>2, <3>1
  <2> QED  BY <2>1, <2>2
<1>9. st' = [p \in Peers |-> st'[p]] /\ wire' = [p \in Peers |-> wire'[p]]
  BY <1>1, <1>2
<1> QED  BY <1>1, <1>2, <1>8, <1>9 DEF Inv

\* Answering keeps the invariant.
LEMMA InvService ==
    ASSUME Inv, ServiceFlow
    PROVE  Inv'
<1> DEFINE w == wire["service"]
           d == Head(w)
           request == Parse(Recv(st["service"], d.data))
           c == d.client
           size == request.buf.len
           steps == Steps(RespSync(request, size, RcvReqSync(request)), clk.useTxTwoSteps, size)
           mail == Sent(c, steps)
           Answer == /\ Len(wire[c]) + 2 <= MaxWire
                     /\ st' = [st EXCEPT !["service"] = Last(steps)]
                     /\ wire' = [wire EXCEPT !["service"] = Tail(@), ![c] = @ \o mail]
<1>1. /\ opt \in [Clients -> Options]
      /\ clk \in [useTxTwoSteps : BOOLEAN, networkProtocol : Protocols, name : NameLens]
      /\ st = [p \in Peers |-> st[p]] /\ wire = [p \in Peers |-> wire[p]]
      /\ \A p \in Peers : /\ IsObject(opt, p, st[p]) /\ wire[p] \in Seq(Letters(opt, p))
                          /\ Len(wire[p]) <= MaxWire
  BY DEF Inv
<1>2. /\ w # <<>> /\ opt' = opt /\ clk' = clk
      /\ \/ /\ ~request.ok \/ request.buf.header.type # "Sync"
            /\ st' = [st EXCEPT !["service"] = request]
            /\ wire' = [wire EXCEPT !["service"] = Tail(@)]
         \/ ~(~request.ok \/ request.buf.header.type # "Sync") /\ ~Has(request, "REQUEST")
         \/ ~(~request.ok \/ request.buf.header.type # "Sync") /\ Answer
  BY DEF ServiceFlow
<1>3. "service" \in Peers /\ Clients \subseteq Peers /\ "service" \notin Clients
  BY SizesAssumption DEF Peers
<1>4. /\ d \in Letters(opt, "service") /\ Tail(w) \in Seq(Letters(opt, "service"))
      /\ Len(Tail(w)) <= MaxWire
  <2> DEFINE S == Letters(opt, "service")
  <2>1. w \in Seq(S) /\ w # <<>> /\ Len(w) <= MaxWire /\ MaxWire \in Nat
    BY <1>1, <1>2, <1>3, SizesAssumption
  <2> HIDE DEF S, w
  <2>2. Head(w) \in S /\ Tail(w) \in Seq(S) /\ Len(Tail(w)) <= MaxWire
    BY <2>1
  <2> QED  BY <2>2 DEF S
<1> HIDE DEF d
<1>5. PICK e \in Clients, type \in Types, L \in Layout, F \in SUBSET ReqFlags :
          /\ c = e /\ Fits(opt, "service", e, type, L, F)
          /\ Total(L) \in Nat /\ Total(L) >= 96 /\ Total(L) % 2 = 0
          /\ Total(L) = Size(opt, e) /\ Total(L) <= Size(opt, "service")
          /\ request = Made(Size(opt, "service"), type, "host", Total(L), L, F)
  BY <1>3, <1>4, Arrives
<1> HIDE DEF c, request
<1>6. /\ request.ok = TRUE /\ request.buf.size = ServiceBuf /\ request.buf.header.type = type
      /\ size = Total(L)
  <2>1. Size(opt, "service") = ServiceBuf
    BY DEF Size
  <2> QED  BY <1>5, <2>1 DEF Made
<1>7. CASE /\ type # "Sync"
           /\ st' = [st EXCEPT !["service"] = request]
           /\ wire' = [wire EXCEPT !["service"] = Tail(@)]
  <2>1. IsObject(opt, "service", request)
    BY <1>5, MadeObject
  <2>2. ASSUME NEW p \in Peers
        PROVE  /\ IsObject(opt', p, st'[p])
               /\ wire'[p] \in Seq(Letters(opt', p)) /\ Len(wire'[p]) <= MaxWire
    <3>1. CASE p = "service"
      <4>1. st'[p] = request /\ wire'[p] = Tail(w)
        BY <1>1, <1>3, <1>7, <3>1
      <4> HIDE DEF w
      <4> QED  BY <1>2, <1>4, <2>1, <3>1, <4>1
    <3>2. CASE p # "service"
      <4>1. st'[p] = st[p] /\ wire'[p] = wire[p]
        BY <1>1, <1>7, <3>2
      <4> QED  BY <1>1, <1>2, <4>1
    <3> QED  BY <3>1, <3>2
  <2>3. st' = [p \in Peers |-> st'[p]] /\ wire' = [p \in Peers |-> wire'[p]]
    BY <1>1, <1>7
  <2> QED  BY <1>1, <1>2, <2>2, <2>3 DEF Inv
<1>8. CASE type = "Sync" /\ ~Has(request, "REQUEST")
  <2>1. "REQUEST" \in IdsOf(L)
    BY <1>5, <1>8 DEF Fits
  <2>2. Has(request, "REQUEST")
    BY <1>5, <2>1, HasMade
  <2> QED  BY <1>8, <2>2
<1>9. CASE type = "Sync" /\ Answer
  <2>1. /\ opt[c] \in Options /\ Size(opt, c) = SmoothSize(GetMsgSize(opt[c]))
        /\ ServiceBuf \in Nat /\ clk.networkProtocol \in Protocols /\ clk.name \in NameLens
        /\ clk.useTxTwoSteps \in BOOLEAN
    BY <1>1, <1>5, Sized, SizesAssumption
  <2>2. /\ size = SmoothSize(GetMsgSize(opt[c])) /\ size <= ServiceBuf /\ size = Size(opt, c)
        /\ size \in Nat /\ size >= 96 /\ size % 2 = 0
    <3>1. Size(opt, "service") = ServiceBuf
      BY DEF Size
    <3> QED  BY <1>5, <1>6, <2>1, <3>1
  <2> HIDE DEF size
  <2>3. PICK A \in Layout :
            /\ Total(A) = size /\ IdsOf(A) = Asked(opt[c]) \cup {"PAD"}
            /\ RespSync(request, size, RcvReqSync(request)) = Made(ServiceBuf, "Sync", "net", size, A, F)
    <3>1. SmoothSize(GetMsgSize(opt[c])) <= ServiceBuf
      BY <2>2
    <3>2. Padded(RespSync(request, size, TxFlags(opt[c])), ServiceBuf, "Sync", size, Asked(opt[c]), F)
      BY <1>6, <2>1, <2>2, <3>1, RespSyncMade
    <3>3. RcvReqSync(request) = TxFlags(opt[c])
      <4>1. "REQUEST" \in IdsOf(L) /\ F = TxFlags(opt[c])
        BY <1>5, <1>9 DEF Fits
      <4> QED  BY <1>5, <4>1, FlagsMade
    <3> QED  BY <3>2, <3>3 DEF Padded
  <2>4. Sends(steps, c, ServiceBuf, A, F)
    <3>1. Total(A) \in Nat /\ Total(A) >= 96 /\ Total(A) % 2 = 0 /\ Total(A) <= ServiceBuf
      BY <2>2, <2>3
    <3>2. Sends(Steps(Made(ServiceBuf, "Sync", "net", Total(A), A, F), clk.useTxTwoSteps, Total(A)),
                c, ServiceBuf, A, F)
      BY <2>1, <3>1, StepsMade
    <3> QED  BY <2>3, <3>2
  <2> HIDE DEF steps
  <2>5. PICK K \in Layout, t \in Types :
            /\ Total(K) = Total(A)
            /\ Last(steps) = Made(ServiceBuf, t, "net", Total(A), K, F)
            /\ mail \in Seq({Letter(c, "Sync", A, F), Letter(c, "Follow_Up", K, F)})
            /\ Len(mail) <= 2
    BY <2>4 DEF Sends
  <2>6. IsObject(opt, "service", Last(steps))
    <3>1. Size(opt, "service") = ServiceBuf
      BY DEF Size
    <3>2. Total(K) <= Size(opt, "service")
      BY <2>2, <2>3, <2>5, <3>1
    <3> QED  BY <2>5, <3>1, <3>2, MadeObject
  <2>7. mail \in Seq(Letters(opt, c))
    <3>0. c \in Clients /\ c # "service"
      BY <1>3, <1>5
    <3>1. Letter(c, "Sync", A, F) \in Letters(opt, c)
      <4>1. Fits(opt, c, c, "Sync", A, F)
        BY <2>2, <2>3, <3>0 DEF Fits
      <4> QED  BY <3>0, <4>1, Posts DEF Types
    <3>2. Letter(c, "Follow_Up", K, F) \in Letters(opt, c)
      <4>1. Fits(opt, c, c, "Follow_Up", K, F)
        BY <2>2, <2>3, <2>5 DEF Fits
      <4> QED  BY <3>0, <4>1, Posts DEF Types
    <3> HIDE DEF mail
    <3> QED  BY <2>5, <3>1, <3>2
  <2> HIDE DEF mail
  <2>8. wire[c] \o mail \in Seq(Letters(opt, c)) /\ Len(wire[c] \o mail) <= MaxWire
    <3> DEFINE v == wire[c]
               S == Letters(opt, c)
    <3>1. v \in Seq(S) /\ mail \in Seq(S) /\ Len(mail) <= 2 /\ Len(v) + 2 <= MaxWire /\ MaxWire \in Nat
      BY <1>1, <1>3, <1>5, <1>9, <2>5, <2>7, SizesAssumption
    <3> HIDE DEF v, S
    <3>2. v \o mail \in Seq(S) /\ Len(v \o mail) <= MaxWire
      BY <3>1
    <3> QED  BY <3>2 DEF v, S
  <2>9. ASSUME NEW p \in Peers
        PROVE  /\ IsObject(opt', p, st'[p])
               /\ wire'[p] \in Seq(Letters(opt', p)) /\ Len(wire'[p]) <= MaxWire
    <3>0. c \in Peers /\ c # "service"
      BY <1>3, <1>5
    <3>1. CASE p = "service"
      <4>1. st'[p] = Last(steps) /\ wire'[p] = Tail(w)
        BY <1>1, <1>3, <1>9, <3>0, <3>1
      <4> HIDE DEF w
      <4> QED  BY <1>2, <1>4, <2>6, <3>1, <4>1
    <3>2. CASE p = c
      <4>1. st'[p] = st[p] /\ wire'[p] = wire[c] \o mail
        BY <1>1, <1>3, <1>9, <3>0, <3>2
      <4> QED  BY <1>1, <1>2, <2>8, <3>2, <4>1
    <3>3. CASE p # "service" /\ p # c
      <4>1. st'[p] = st[p] /\ wire'[p] = wire[p]
        BY <1>1, <1>9, <3>0, <3>3
      <4> QED  BY <1>1, <1>2, <4>1
    <3> QED  BY <3>1, <3>2, <3>3
  <2>10. st' = [p \in Peers |-> st'[p]] /\ wire' = [p \in Peers |-> wire'[p]]
    BY <1>1, <1>9
  <2> QED  BY <1>1, <1>2, <2>9, <2>10 DEF Inv
<1> HIDE DEF Answer, w, size
<1> QED  BY <1>2, <1>6, <1>7, <1>8, <1>9

\* Losing a datagram keeps the invariant.
LEMMA InvLose ==
    ASSUME Inv, NEW q \in Peers, Lose(q)
    PROVE  Inv'
<1>1. /\ opt \in [Clients -> Options]
      /\ clk \in [useTxTwoSteps : BOOLEAN, networkProtocol : Protocols, name : NameLens]
      /\ st = [p \in Peers |-> st[p]] /\ wire = [p \in Peers |-> wire[p]]
      /\ \A p \in Peers : /\ IsObject(opt, p, st[p]) /\ wire[p] \in Seq(Letters(opt, p))
                          /\ Len(wire[p]) <= MaxWire
  BY DEF Inv
<1>2. /\ wire[q] # <<>> /\ wire' = [wire EXCEPT ![q] = Tail(@)]
      /\ opt' = opt /\ clk' = clk /\ st' = st
  BY DEF Lose
<1>3. Tail(wire[q]) \in Seq(Letters(opt, q)) /\ Len(Tail(wire[q])) <= MaxWire
  <2> DEFINE S == Letters(opt, q)
             w == wire[q]
  <2>1. w \in Seq(S) /\ w # <<>> /\ Len(w) <= MaxWire /\ MaxWire \in Nat
    BY <1>1, <1>2, SizesAssumption
  <2> HIDE DEF S, w
  <2>2. Tail(w) \in Seq(S) /\ Len(Tail(w)) <= MaxWire
    BY <2>1
  <2> QED  BY <2>2 DEF S, w
<1>4. ASSUME NEW p \in Peers
      PROVE  wire'[p] \in Seq(Letters(opt', p)) /\ Len(wire'[p]) <= MaxWire
  <2>1. CASE p = q
    BY <1>1, <1>2, <1>3, <2>1
  <2>2. CASE p # q
    BY <1>1, <1>2, <2>2
  <2> QED  BY <2>1, <2>2
<1>5. wire' = [p \in Peers |-> wire'[p]]
  BY <1>1, <1>2
<1> QED  BY <1>1, <1>2, <1>4, <1>5 DEF Inv

\* The invariant holds of every reachable state.
THEOREM MsgInvariant == Spec => []Inv
<1>1. Inv /\ [Next]_vars => Inv'
  <2> SUFFICES ASSUME Inv, [Next]_vars PROVE Inv'
    OBVIOUS
  <2>1. CASE UNCHANGED vars
    BY <2>1 DEF Inv, vars
  <2>2. ASSUME NEW c \in Clients, ClientSend(c) PROVE Inv'
    BY <2>2, InvSend
  <2>3. ASSUME NEW c \in Clients, ClientReceive(c) PROVE Inv'
    BY <2>3, InvReceive
  <2>4. CASE ServiceFlow
    BY <2>4, InvService
  <2>5. ASSUME NEW p \in Peers, Lose(p) PROVE Inv'
    BY <2>5, InvLose
  <2> QED  BY <2>1, <2>2, <2>3, <2>4, <2>5 DEF Next
<1> QED  BY <1>1, InvInit, PTL DEF Spec

-----------------------------------------------------------------------------

\* The invariant's two cases of an object.
LEMMA ObjectCases ==
    ASSUME Inv, NEW p \in Peers
    PROVE  /\ Size(opt, p) \in Nat /\ Size(opt, p) >= 96
           /\ \/ st[p] = Alloc(Size(opt, p))
              \/ \E type, order, length, F : \E L \in Layout :
                    Total(L) <= Size(opt, p) /\ st[p] = Made(Size(opt, p), type, order, length, L, F)
<1>1. IsObject(opt, p, st[p]) /\ Size(opt, p) \in Nat /\ Size(opt, p) >= 96
  BY Sized DEF Inv
<1>2. st[p] = Alloc(Size(opt, p)) \/
      LET L == st[p].msg.tlvs
          h == st[p].buf.header
      IN  L \in Layout /\ Total(L) <= Size(opt, p)
          /\ \E F : st[p] = Made(Size(opt, p), h.type, h.order, h.length, L, F)
  BY <1>1 DEF IsObject
<1> QED  BY <1>1, <1>2

\* The lengths of a message stay within its buffer, however often both are
\* reused (msg.c's unsigned _left never goes below zero).
THEOREM MsgTypeCorrect == Spec => []TypeOK
<1>1. Inv => TypeOK
  <2> SUFFICES ASSUME Inv, NEW p \in Peers
               PROVE  /\ st[p].ok \in BOOLEAN
                      /\ st[p].msg.left \in 0..(st[p].buf.size - MsgSize)
                      /\ st[p].msg.end \in 0..st[p].buf.size
                      /\ st[p].buf.len \in 0..st[p].buf.size
                      /\ Len(st[p].msg.tlvs) \in 0..MaxTlvs
                      /\ Len(wire[p]) <= MaxWire
    BY DEF TypeOK
  <2> DEFINE z == Size(opt, p)
             s == st[p]
  <2>1. z \in Nat /\ z >= 96
    BY ObjectCases
  <2>2. Len(wire[p]) <= MaxWire
    BY DEF Inv
  <2>3. CASE s = Alloc(z)
    <3>1. /\ s.ok = TRUE /\ s.msg.left = 0 /\ s.msg.end = 0 /\ s.msg.tlvs = NoTlvs
          /\ s.buf.len = 0 /\ s.buf.size = z
      BY <2>3 DEF Alloc, NoTlvs
    <3> HIDE DEF s, z
    <3>2. 0 \in 0..(z - MsgSize) /\ 0 \in 0..z /\ Len(NoTlvs) \in 0..MaxTlvs
      BY <2>1, Empty DEF MsgSize, MaxTlvs
    <3> QED  BY <2>2, <3>1, <3>2 DEF s
  <2>4. ASSUME NEW type, NEW order, NEW length, NEW F, NEW L \in Layout, Total(L) <= z,
               s = Made(z, type, order, length, L, F)
        PROVE  /\ s.ok \in BOOLEAN
               /\ s.msg.left \in 0..(s.buf.size - MsgSize)
               /\ s.msg.end \in 0..s.buf.size
               /\ s.buf.len \in 0..s.buf.size
               /\ Len(s.msg.tlvs) \in 0..MaxTlvs
    <3>1. /\ s.ok = TRUE /\ s.msg.left = z - Total(L) /\ s.msg.end = Total(L) /\ s.msg.tlvs = L
          /\ s.buf.len = Total(L) /\ s.buf.size = z
      BY <2>4 DEF Made
    <3>2. Total(L) \in Nat /\ Total(L) >= MsgSize /\ Len(L) \in 0..MaxTlvs
      BY Totals, LayoutItems
    <3> HIDE DEF s, z
    <3>3. z - Total(L) \in 0..(z - MsgSize) /\ Total(L) \in 0..z
      BY <2>1, <2>4, <3>2 DEF MsgSize
    <3> QED  BY <3>1, <3>2, <3>3
  <2> HIDE DEF s, z
  <2> QED  BY <2>2, <2>3, <2>4, ObjectCases DEF s, z
<1> QED  BY <1>1, MsgInvariant, PTL

\* _end, _len, _left and the buffer's length always tell of the same TLVs, one
\* behind the other at even places (msg.c).
THEOREM BufferAccounted == Spec => []Accounting
<1>1. Inv => Accounting
  <2> SUFFICES ASSUME Inv, NEW p \in Peers, st[p].msg.end # 0
               PROVE  LET m == st[p].msg IN
                      /\ m.end + m.left = st[p].buf.size
                      /\ m.end = MsgSize + SumLen(m.tlvs, Len(m.tlvs))
                      /\ m.len = m.end /\ st[p].buf.len = m.len
                      /\ \A i \in DOMAIN m.tlvs :
                            LET t == st[p].buf.tlvs[i]
                            IN  /\ t.id = m.tlvs[i].id /\ t.len = m.tlvs[i].len
                                /\ t.at = MsgSize + SumLen(m.tlvs, i - 1) /\ t.at % 2 = 0
    BY DEF Accounting
  <2> DEFINE z == Size(opt, p)
             s == st[p]
  <2>1. z \in Nat
    BY ObjectCases
  <2>2. s # Alloc(z)
    BY DEF Alloc
  <2>3. PICK type, order, length, F : \E L \in Layout :
            Total(L) <= z /\ s = Made(z, type, order, length, L, F)
    BY <2>2, ObjectCases
  <2>4. PICK L \in Layout : Total(L) <= z /\ s = Made(z, type, order, length, L, F)
    BY <2>3
  <2>5. /\ s.msg.end = Total(L) /\ s.msg.len = Total(L) /\ s.msg.left = z - Total(L)
        /\ s.msg.tlvs = L /\ s.buf.size = z /\ s.buf.len = Total(L)
        /\ s.buf.tlvs = Placed(L, order, F)
    BY <2>4 DEF Made
  <2>6. Total(L) \in Nat /\ Len(L) \in Nat /\ DOMAIN L = 1..Len(L)
    BY Totals
  <2>7. ASSUME NEW i \in 1..Len(L)
        PROVE  /\ Placed(L, order, F)[i].id = L[i].id /\ Placed(L, order, F)[i].len = L[i].len
               /\ Placed(L, order, F)[i].at = MsgSize + SumLen(L, i - 1)
               /\ Placed(L, order, F)[i].at % 2 = 0
    <3>1. SumLen(L, i - 1) \in Nat /\ SumLen(L, i - 1) % 2 = 0
      <4>1. i - 1 \in 0..Len(L)
        BY <2>6
      <4> QED  BY <4>1, SumsGrow
    <3>2. (MsgSize + SumLen(L, i - 1)) % 2 = 0
      BY <3>1 DEF MsgSize
    <3> QED  BY <3>2 DEF Placed, At
  <2> HIDE DEF z, s
  <2>8. Total(L) + (z - Total(L)) = z
    BY <2>1, <2>6
  <2> QED  BY <2>5, <2>6, <2>7, <2>8 DEF s, Total
<1> QED  BY <1>1, MsgInvariant, PTL

\* No request and no answer is ever given up: a service's buffer of 160 octets
\* and the size that the client chooses (main_client.c) suffice for all options.
THEOREM EveryRequestAnswered == Spec => []AlwaysAnswered
<1>1. Inv => AlwaysAnswered
  <2> SUFFICES ASSUME Inv, NEW p \in Peers PROVE st[p].ok = TRUE
    BY DEF AlwaysAnswered
  <2>1. IsObject(opt, p, st[p])
    BY DEF Inv
  <2> QED  BY <2>1, Objects
<1> QED  BY <1>1, MsgInvariant, PTL

\* Each datagram on its way, as the invariant has it.
LEMMA OnTheWay ==
    ASSUME Inv, NEW p \in Peers, NEW i \in DOMAIN wire[p]
    PROVE  wire[p][i] \in Letters(opt, p)
<1>1. wire[p] \in Seq(Letters(opt, p))
  BY DEF Inv
<1> QED  BY <1>1

\* Every datagram of an exchange has the even size that the client chose.
THEOREM SizesAgree == Spec => []SameSize
<1>1. Inv => SameSize
  <2> SUFFICES ASSUME Inv, NEW p \in Peers, NEW i \in DOMAIN wire[p]
               PROVE  LET d == wire[p][i]
                      IN  /\ d.data.len = ClientSize(d.client) /\ d.data.len % 2 = 0
                          /\ d.data.header.length = d.data.len
    BY DEF SameSize
  <2> DEFINE d == wire[p][i]
  <2>1. PICK c \in Clients, type \in Types, L \in Layout, F \in SUBSET ReqFlags :
            /\ d.client = c /\ d.data = Posted(type, L, F)
            /\ Total(L) % 2 = 0 /\ Total(L) = Size(opt, c)
    BY OnTheWay, Arrives
  <2>2. d.data.len = Total(L) /\ d.data.header.length = Total(L)
    BY <2>1 DEF Posted
  <2>3. ClientSize(c) = Size(opt, c)
    BY Sized DEF Inv
  <2> QED  BY <2>1, <2>2, <2>3
<1> QED  BY <1>1, MsgInvariant, PTL

\* Every datagram is parsed as the TLVs that its sender built, all in host order.
THEOREM ParsedAsBuilt == Spec => []ArrivesAsBuilt
<1>1. Inv => ArrivesAsBuilt
  <2> SUFFICES ASSUME Inv, NEW p \in Peers, NEW i \in DOMAIN wire[p]
               PROVE  LET d == wire[p][i].data
                          s == Parse(Recv(st[p], d))
                      IN  /\ s.ok /\ s.msg.tlvs = d.built
                          /\ s.buf.header.order = "host"
                          /\ \A j \in DOMAIN s.buf.tlvs : s.buf.tlvs[j].order = "host"
    BY DEF ArrivesAsBuilt
  <2> DEFINE d == wire[p][i].data
             s == Parse(Recv(st[p], d))
  <2>1. PICK c \in Clients, type \in Types, L \in Layout, F \in SUBSET ReqFlags :
            d = Posted(type, L, F) /\ s = Made(Size(opt, p), type, "host", Total(L), L, F)
    BY OnTheWay, Arrives
  <2> HIDE DEF s, d
  <2>2. /\ s.ok = TRUE /\ s.msg.tlvs = L /\ s.buf.header.order = "host"
        /\ s.buf.tlvs = Placed(L, "host", F)
    BY <2>1 DEF Made
  <2>3. d.built = L
    BY <2>1 DEF Posted
  <2>4. \A j \in DOMAIN Placed(L, "host", F) : Placed(L, "host", F)[j].order = "host"
    BY DEF Placed
  <2> QED  BY <2>2, <2>3, <2>4 DEF s, d
<1> QED  BY <1>1, MsgInvariant, PTL

\* A Sync answer has the TLVs its client asked for, and no others.
THEOREM AnswerAsAsked == Spec => []AnswersRequest
<1>1. Inv => AnswersRequest
  <2> SUFFICES ASSUME Inv, NEW c \in Clients, NEW i \in DOMAIN wire[c],
                      wire[c][i].data.header.type = "Sync"
               PROVE  LET d == wire[c][i].data
                      IN  {d.tlvs[j].id : j \in DOMAIN d.tlvs} \ {"PAD"} = Asked(opt[c])
    BY DEF AnswersRequest, Asked
  <2> DEFINE d == wire[c][i].data
  <2>1. c \in Peers /\ c # "service"
    BY SizesAssumption DEF Peers
  <2>2. PICK e \in Clients, type \in Types, L \in Layout, F \in SUBSET ReqFlags :
            d = Posted(type, L, F) /\ Fits(opt, c, e, type, L, F)
    BY <2>1, OnTheWay, Arrives
  <2> HIDE DEF d
  <2>3. d.header.type = type /\ d.tlvs = Placed(L, "net", F)
    BY <2>2 DEF Posted
  <2>4. type = "Sync" /\ e = c
    BY <2>1, <2>2, <2>3 DEF Fits, d
  <2>5. IdsOf(L) = Asked(opt[c]) \cup {"PAD"}
    BY <2>1, <2>2, <2>4 DEF Fits
  <2>6. "PAD" \notin Asked(opt[c])
    BY DEF Asked
  <2>7. {Placed(L, "net", F)[j].id : j \in DOMAIN Placed(L, "net", F)} = IdsOf(L)
    BY LayoutItems DEF IdsOf, Placed
  <2> QED  BY <2>3, <2>5, <2>6, <2>7 DEF d
<1> QED  BY <1>1, MsgInvariant, PTL
=============================================================================
