--------------------------- MODULE ProcessProofs ---------------------------
(***************************************************************************)
(* Theorems about the life of a csptp program (Process). The invariant has *)
(* a part for each thing that main keeps: the options object with what the *)
(* command line and the file have said so far, the objects of allocObjs,   *)
(* the structure of the options, the log, the descriptors, the addresses   *)
(* and the memory. The properties relate the first of these to the others, *)
(* so none of them is inductive alone.                                     *)
(***************************************************************************)
EXTENDS Process, TLAPS, FiniteSetTheorems

-----------------------------------------------------------------------------
(* The tables of options.                                                  *)

\* A record is this option.
Names(r, kind, key, sKey) == r.type = kind /\ r.key = key /\ r.sKey = sKey

\* The options of the three tables.
LEMMA BaseNames ==
    /\ BaseOptions = [i \in 1..5 |-> BaseOptions[i]]
    /\ Len(BaseOptions) = 5
    /\ Names(BaseOptions[1], "BOOL", "skip_syslog", "y")
    /\ Names(BaseOptions[2], "BOOL", "term_echo", "e")
    /\ Names(BaseOptions[3], "STR", "ifName", "i")
    /\ Names(BaseOptions[4], "ENUM", "log_level", "l")
    /\ Names(BaseOptions[5], "STR", NoKey, "f")
BY SMT DEF BaseOptions, Names, KeyBool, KeyStr, KeyEnum

LEMMA ClientNames ==
    /\ ClientOptions = [i \in 1..7 |-> ClientOptions[i]]
    /\ Len(ClientOptions) = 7
    /\ Names(ClientOptions[1], "BOOL", "oneStep", "t")
    /\ Names(ClientOptions[2], "BOOL", "reqStatTLV", "s")
    /\ Names(ClientOptions[3], "BOOL", "reqAltTLV", "a")
    /\ Names(ClientOptions[4], "STR", "serviceAddress", "d")
    /\ Names(ClientOptions[5], "BOOL", "ipv4", "4")
    /\ Names(ClientOptions[6], "BOOL", "ipv6", "6")
    /\ Names(ClientOptions[7], "INT", "domainNumber", "n")
BY SMT DEF ClientOptions, Names, KeyBool, KeyStr, KeyInt

LEMMA ServiceNames ==
    /\ ServiceOptions = [i \in 1..8 |-> ServiceOptions[i]]
    /\ Len(ServiceOptions) = 8
    /\ Names(ServiceOptions[1], "INT", "oneStepRx", "r")
    /\ Names(ServiceOptions[2], "INT", "oneStepTx", "t")
    /\ Names(ServiceOptions[3], "INT", "priority1", NoKey)
    /\ Names(ServiceOptions[4], "INT", "priority2", NoKey)
    /\ Names(ServiceOptions[5], "INT", "clockClass", NoKey)
    /\ Names(ServiceOptions[6], "INT", "clockAccuracy", NoKey)
    /\ Names(ServiceOptions[7], "INT", "offsetScaledLogVariance", NoKey)
    /\ Names(ServiceOptions[8], "BOOL", "ipv6", "6")
BY SMT DEF ServiceOptions, Names, KeyBool, KeyInt

\* The options whose range a property depends on.
LEMMA Ranges ==
    /\ \A i \in 1..5 : BaseOptions[i].type = "BOOL" => BaseOptions[i].def \in BOOLEAN
    /\ \A i \in 1..7 : ClientOptions[i].type = "BOOL" => ClientOptions[i].def \in BOOLEAN
    /\ \A i \in 1..8 : ServiceOptions[i].type = "BOOL" => ServiceOptions[i].def \in BOOLEAN
    /\ BaseOptions[4].def \in 0..7 /\ BaseOptions[4].min = 0 /\ BaseOptions[4].max = 7
    /\ ClientOptions[7].def \in 128..239 /\ ClientOptions[7].min = 128 /\ ClientOptions[7].max = 239
<1> DEFINE Bool(key, sKey) == KeyBool(key, sKey, FALSE)
<1>a. \A key, sKey : Bool(key, sKey).def \in BOOLEAN
  BY Zenon DEF KeyBool
<1> HIDE DEF Bool
<1>1. BaseOptions[1].def \in BOOLEAN /\ BaseOptions[2].def \in BOOLEAN
  <2>1. BaseOptions[1] = Bool("skip_syslog", "y") /\ BaseOptions[2] = Bool("term_echo", "e")
    BY DEF BaseOptions, Bool
  <2> QED  BY <1>a, <2>1, Zenon
<1>2. /\ ClientOptions[1].def \in BOOLEAN
      /\ ClientOptions[2].def \in BOOLEAN
      /\ ClientOptions[3].def \in BOOLEAN
      /\ ClientOptions[5].def \in BOOLEAN
      /\ ClientOptions[6].def \in BOOLEAN
  <2>1. /\ ClientOptions[1] = Bool("oneStep", "t")
        /\ ClientOptions[2] = Bool("reqStatTLV", "s")
        /\ ClientOptions[3] = Bool("reqAltTLV", "a")
        /\ ClientOptions[5] = Bool("ipv4", "4")
        /\ ClientOptions[6] = Bool("ipv6", "6")
    BY DEF ClientOptions, Bool
  <2> QED  BY <1>a, <2>1, Zenon
<1>3. ServiceOptions[8].def \in BOOLEAN
  <2>1. ServiceOptions[8] = Bool("ipv6", "6")
    BY DEF ServiceOptions, Bool
  <2> QED  BY <1>a, <2>1, Zenon
<1>4. BaseOptions[4].def \in 0..7 /\ BaseOptions[4].min = 0 /\ BaseOptions[4].max = 7
  BY SMT DEF BaseOptions, KeyBool, KeyStr, KeyEnum, LogWarning
<1>5. ClientOptions[7].def \in 128..239 /\ ClientOptions[7].min = 128 /\ ClientOptions[7].max = 239
  BY SMT DEF ClientOptions, KeyBool, KeyStr, KeyInt
<1> QED  BY SMT, <1>1, <1>2, <1>3, <1>4, <1>5, BaseNames, ClientNames, ServiceNames DEF Names

\* A function on 1..n is a sequence.
LEMMA Sequence ==
    ASSUME NEW n \in Nat, NEW s, s = [i \in 1..n |-> s[i]], NEW S, \A i \in 1..n : s[i] \in S
    PROVE  s \in Seq(S) /\ Len(s) = n
OBVIOUS

\* A table is a list of records, and a list of values of the same length.
LEMMA Concatenation ==
    ASSUME NEW S, NEW n \in Nat, NEW m \in Nat,
           NEW s \in Seq(S), Len(s) = n, NEW t \in Seq(S), Len(t) = m
    PROVE  /\ s \o t \in Seq(S) /\ Len(s \o t) = n + m /\ DOMAIN (s \o t) = 1..(n + m)
           /\ \A i \in 1..n : (s \o t)[i] = s[i]
           /\ \A i \in 1..m : (s \o t)[n + i] = t[i]
OBVIOUS

\* An options object of two tables, of n and m records, without values.
OfTables(o, s, n, t, m, k) ==
    /\ o = [recs |-> o.recs, vals |-> o.vals]
    /\ DOMAIN o.recs = 1..k /\ Len(o.recs) = k
    /\ DOMAIN o.vals = 1..k
    /\ \A i \in 1..n : o.recs[i] = s[i]
    /\ \A i \in 1..m : o.recs[n + i] = t[i]
    /\ \A i \in 1..k : o.vals[i] = NotSet

\* Two tables are added.
LEMMA TwoTables ==
    ASSUME NEW n \in Nat, NEW m \in Nat, NEW k, k = n + m, NEW s, NEW t,
           s = [i \in 1..n |-> s[i]], t = [i \in 1..m |-> t[i]],
           NEW o, o = AddRecords(AddRecords(OptAlloc, s), t)
    PROVE  OfTables(o, s, n, t, m, k)
<1> DEFINE S == {s[i] : i \in 1..n} \union {t[i] : i \in 1..m}
           N == {NotSet}
           sv == [i \in DOMAIN s |-> NotSet]
           tv == [i \in DOMAIN t |-> NotSet]
<1>1. s \in Seq(S) /\ Len(s) = n /\ t \in Seq(S) /\ Len(t) = m
  <2>1. \A i \in 1..n : s[i] \in S  OBVIOUS
  <2>2. \A i \in 1..m : t[i] \in S  OBVIOUS
  <2> HIDE DEF S
  <2> QED  BY <2>1, <2>2, Sequence
<1>2. sv \in Seq(N) /\ Len(sv) = n /\ tv \in Seq(N) /\ Len(tv) = m
  <2>1. /\ sv = [i \in 1..n |-> sv[i]] /\ \A i \in 1..n : sv[i] \in N
        /\ tv = [i \in 1..m |-> tv[i]] /\ \A i \in 1..m : tv[i] \in N
    OBVIOUS
  <2> HIDE DEF sv, tv, N
  <2> QED  BY <2>1, Sequence
<1> HIDE DEF S
<1>3. o.recs = (<<>> \o s) \o t /\ o.vals = (<<>> \o sv) \o tv /\ o = [recs |-> o.recs, vals |-> o.vals]
  BY DEF AddRecords, OptAlloc
<1> HIDE DEF sv, tv, N
<1>4. <<>> \o s = s /\ <<>> \o sv = sv
  BY <1>1, <1>2
<1>5. o.recs = s \o t /\ o.vals = sv \o tv
  BY <1>3, <1>4
<1>6. /\ DOMAIN (sv \o tv) = 1..(n + m)
      /\ \A i \in 1..(n + m) : (sv \o tv)[i] \in N
  <2>1. sv \o tv \in Seq(N) /\ Len(sv \o tv) = n + m
    BY <1>2, Concatenation
  <2> QED  BY <2>1
<1>7. /\ DOMAIN (s \o t) = 1..(n + m) /\ Len(s \o t) = n + m
      /\ \A i \in 1..n : (s \o t)[i] = s[i]
      /\ \A i \in 1..m : (s \o t)[n + i] = t[i]
  BY <1>1, Concatenation
<1>8. \A i \in 1..(n + m) : (sv \o tv)[i] = NotSet
  BY <1>6 DEF N
<1> QED  BY <1>3, <1>5, <1>6, <1>7, <1>8, Zenon DEF OfTables

\* The options objects of the two programs.
LEMMA ClientTable ==
    OfTables(Table("client"), BaseOptions, 5, ClientOptions, 7, 12)
<1>1. Table("client") = AddRecords(AddRecords(OptAlloc, BaseOptions), ClientOptions)
  BY DEF Table
<1>2. 12 = 5 + 7 /\ 5 \in Nat /\ 7 \in Nat
  OBVIOUS
<1> QED  BY <1>1, <1>2, TwoTables, BaseNames, ClientNames

LEMMA ServiceTable ==
    OfTables(Table("service"), BaseOptions, 5, ServiceOptions, 8, 13)
<1>1. Table("service") = AddRecords(AddRecords(OptAlloc, BaseOptions), ServiceOptions)
  BY DEF Table
<1>2. 13 = 5 + 8 /\ 5 \in Nat /\ 8 \in Nat
  OBVIOUS
<1> QED  BY <1>1, <1>2, TwoTables, BaseNames, ServiceNames

\* What the proofs use of a list of records.
WellMade(R) ==
    /\ \A i, j \in DOMAIN R : R[i].key = R[j].key => i = j
    /\ \A i, j \in DOMAIN R : R[i].sKey = R[j].sKey /\ R[i].sKey # NoKey => i = j
    /\ \A i \in DOMAIN R :
         /\ R[i].type \in {"BOOL", "STR", "INT", "ENUM"}
         /\ R[i].key # "unknown"
         /\ R[i].type = "STR" /\ R[i].key # NoKey => R[i].key \in Strings
         /\ R[i].type = "BOOL" => R[i].def \in BOOLEAN

\* The records of the two programs, one by one.
LEMMA ClientRecords ==
    ASSUME NEW R, R = Table("client").recs
    PROVE  /\ DOMAIN R = 1..12 /\ Len(R) = 12
           /\ Names(R[1], "BOOL", "skip_syslog", "y")
           /\ Names(R[2], "BOOL", "term_echo", "e")
           /\ Names(R[3], "STR", "ifName", "i")
           /\ Names(R[4], "ENUM", "log_level", "l")
           /\ Names(R[5], "STR", NoKey, "f")
           /\ Names(R[6], "BOOL", "oneStep", "t")
           /\ Names(R[7], "BOOL", "reqStatTLV", "s")
           /\ Names(R[8], "BOOL", "reqAltTLV", "a")
           /\ Names(R[9], "STR", "serviceAddress", "d")
           /\ Names(R[10], "BOOL", "ipv4", "4")
           /\ Names(R[11], "BOOL", "ipv6", "6")
           /\ Names(R[12], "INT", "domainNumber", "n")
           /\ R[4].def \in 0..7 /\ R[4].min = 0 /\ R[4].max = 7
           /\ R[12].def \in 128..239 /\ R[12].min = 128 /\ R[12].max = 239
           /\ \A i \in 1..12 : R[i].type = "BOOL" => R[i].def \in BOOLEAN
<1> USE ClientTable DEF OfTables
<1>1. DOMAIN R = 1..12 /\ Len(R) = 12
  BY Zenon
<1>2. /\ R[1] = BaseOptions[1] /\ R[2] = BaseOptions[2] /\ R[3] = BaseOptions[3]
      /\ R[4] = BaseOptions[4] /\ R[5] = BaseOptions[5]
  OBVIOUS
<1>3. \A i \in 1..7 : R[5 + i] = ClientOptions[i]
  OBVIOUS
<1>4. /\ R[6] = ClientOptions[1] /\ R[7] = ClientOptions[2] /\ R[8] = ClientOptions[3]
      /\ R[9] = ClientOptions[4] /\ R[10] = ClientOptions[5] /\ R[11] = ClientOptions[6]
      /\ R[12] = ClientOptions[7]
  BY <1>3
<1>5. \A i \in 1..12 : R[i].type = "BOOL" => R[i].def \in BOOLEAN
  <2> SUFFICES ASSUME NEW i \in 1..12 PROVE R[i].type = "BOOL" => R[i].def \in BOOLEAN
    OBVIOUS
  <2>1. CASE i \in 1..5
    <3>1. R[i] = BaseOptions[i]
      BY <2>1
    <3>2. BaseOptions[i].type = "BOOL" => BaseOptions[i].def \in BOOLEAN
      BY <2>1, Ranges
    <3> QED  BY <3>1, <3>2, Zenon
  <2>2. CASE i \in 6..12
    <3>1. i - 5 \in 1..7 /\ R[i] = ClientOptions[i - 5]
      BY <2>2, <1>3
    <3>2. ClientOptions[i - 5].type = "BOOL" => ClientOptions[i - 5].def \in BOOLEAN
      BY <3>1, Ranges
    <3> QED  BY <3>1, <3>2, Zenon
  <2> QED  BY <2>1, <2>2
<1>6. /\ R[4].def \in 0..7 /\ R[4].min = 0 /\ R[4].max = 7
      /\ R[12].def \in 128..239 /\ R[12].min = 128 /\ R[12].max = 239
  BY <1>2, <1>4, Ranges
<1>7. /\ Names(R[1], "BOOL", "skip_syslog", "y")
      /\ Names(R[2], "BOOL", "term_echo", "e")
      /\ Names(R[3], "STR", "ifName", "i")
      /\ Names(R[4], "ENUM", "log_level", "l")
      /\ Names(R[5], "STR", NoKey, "f")
  BY <1>2, BaseNames, Zenon
<1>8. /\ Names(R[6], "BOOL", "oneStep", "t")
      /\ Names(R[7], "BOOL", "reqStatTLV", "s")
      /\ Names(R[8], "BOOL", "reqAltTLV", "a")
      /\ Names(R[9], "STR", "serviceAddress", "d")
      /\ Names(R[10], "BOOL", "ipv4", "4")
      /\ Names(R[11], "BOOL", "ipv6", "6")
      /\ Names(R[12], "INT", "domainNumber", "n")
  BY <1>4, ClientNames, Zenon
<1> HIDE ClientTable DEF OfTables
<1> QED  BY <1>1, <1>5, <1>6, <1>7, <1>8, Zenon

LEMMA ServiceRecords ==
    ASSUME NEW R, R = Table("service").recs
    PROVE  /\ DOMAIN R = 1..13 /\ Len(R) = 13
           /\ Names(R[1], "BOOL", "skip_syslog", "y")
           /\ Names(R[2], "BOOL", "term_echo", "e")
           /\ Names(R[3], "STR", "ifName", "i")
           /\ Names(R[4], "ENUM", "log_level", "l")
           /\ Names(R[5], "STR", NoKey, "f")
           /\ Names(R[6], "INT", "oneStepRx", "r")
           /\ Names(R[7], "INT", "oneStepTx", "t")
           /\ Names(R[8], "INT", "priority1", NoKey)
           /\ Names(R[9], "INT", "priority2", NoKey)
           /\ Names(R[10], "INT", "clockClass", NoKey)
           /\ Names(R[11], "INT", "clockAccuracy", NoKey)
           /\ Names(R[12], "INT", "offsetScaledLogVariance", NoKey)
           /\ Names(R[13], "BOOL", "ipv6", "6")
           /\ R[4].def \in 0..7 /\ R[4].min = 0 /\ R[4].max = 7
           /\ \A i \in 1..13 : R[i].type = "BOOL" => R[i].def \in BOOLEAN
<1> USE ServiceTable DEF OfTables
<1>1. DOMAIN R = 1..13 /\ Len(R) = 13
  BY Zenon
<1>2. /\ R[1] = BaseOptions[1] /\ R[2] = BaseOptions[2] /\ R[3] = BaseOptions[3]
      /\ R[4] = BaseOptions[4] /\ R[5] = BaseOptions[5]
  OBVIOUS
<1>3. \A i \in 1..8 : R[5 + i] = ServiceOptions[i]
  OBVIOUS
<1>4. /\ R[6] = ServiceOptions[1] /\ R[7] = ServiceOptions[2] /\ R[8] = ServiceOptions[3]
      /\ R[9] = ServiceOptions[4] /\ R[10] = ServiceOptions[5] /\ R[11] = ServiceOptions[6]
      /\ R[12] = ServiceOptions[7] /\ R[13] = ServiceOptions[8]
  BY <1>3
<1>5. \A i \in 1..13 : R[i].type = "BOOL" => R[i].def \in BOOLEAN
  <2> SUFFICES ASSUME NEW i \in 1..13 PROVE R[i].type = "BOOL" => R[i].def \in BOOLEAN
    OBVIOUS
  <2>1. CASE i \in 1..5
    <3>1. R[i] = BaseOptions[i]
      BY <2>1
    <3>2. BaseOptions[i].type = "BOOL" => BaseOptions[i].def \in BOOLEAN
      BY <2>1, Ranges
    <3> QED  BY <3>1, <3>2, Zenon
  <2>2. CASE i \in 6..13
    <3>1. i - 5 \in 1..8 /\ R[i] = ServiceOptions[i - 5]
      BY <2>2, <1>3
    <3>2. ServiceOptions[i - 5].type = "BOOL" => ServiceOptions[i - 5].def \in BOOLEAN
      BY <3>1, Ranges
    <3> QED  BY <3>1, <3>2, Zenon
  <2> QED  BY <2>1, <2>2
<1>6. R[4].def \in 0..7 /\ R[4].min = 0 /\ R[4].max = 7
  BY <1>2, Ranges
<1>7. /\ Names(R[1], "BOOL", "skip_syslog", "y")
      /\ Names(R[2], "BOOL", "term_echo", "e")
      /\ Names(R[3], "STR", "ifName", "i")
      /\ Names(R[4], "ENUM", "log_level", "l")
      /\ Names(R[5], "STR", NoKey, "f")
  BY <1>2, BaseNames, Zenon
<1>8. /\ Names(R[6], "INT", "oneStepRx", "r")
      /\ Names(R[7], "INT", "oneStepTx", "t")
      /\ Names(R[8], "INT", "priority1", NoKey)
      /\ Names(R[9], "INT", "priority2", NoKey)
      /\ Names(R[10], "INT", "clockClass", NoKey)
      /\ Names(R[11], "INT", "clockAccuracy", NoKey)
      /\ Names(R[12], "INT", "offsetScaledLogVariance", NoKey)
      /\ Names(R[13], "BOOL", "ipv6", "6")
  BY <1>4, ServiceNames, Zenon
<1> HIDE ServiceTable DEF OfTables
<1> QED  BY <1>1, <1>5, <1>6, <1>7, <1>8, Zenon

\* No two records have one name; strings are the two that Strings lists.
LEMMA TablesWellMade ==
    ASSUME NEW p \in {"client", "service"}
    PROVE  WellMade(Table(p).recs)
<1>1. CASE p = "client"
  <2> DEFINE R == Table(p).recs
  <2>1. DOMAIN R = 1..12
    BY <1>1, ClientRecords
  <2>2. /\ R[1].type = "BOOL" /\ R[2].type = "BOOL" /\ R[3].type = "STR"
        /\ R[4].type = "ENUM" /\ R[5].type = "STR" /\ R[6].type = "BOOL"
        /\ R[7].type = "BOOL" /\ R[8].type = "BOOL" /\ R[9].type = "STR"
        /\ R[10].type = "BOOL" /\ R[11].type = "BOOL" /\ R[12].type = "INT"
    BY <1>1, ClientRecords DEF Names
  <2>3. /\ R[1].key = "skip_syslog" /\ R[2].key = "term_echo" /\ R[3].key = "ifName"
        /\ R[4].key = "log_level" /\ R[5].key = NoKey /\ R[6].key = "oneStep"
        /\ R[7].key = "reqStatTLV" /\ R[8].key = "reqAltTLV" /\ R[9].key = "serviceAddress"
        /\ R[10].key = "ipv4" /\ R[11].key = "ipv6" /\ R[12].key = "domainNumber"
    BY <1>1, ClientRecords DEF Names
  <2>4. /\ R[1].sKey = "y" /\ R[2].sKey = "e" /\ R[3].sKey = "i"
        /\ R[4].sKey = "l" /\ R[5].sKey = "f" /\ R[6].sKey = "t"
        /\ R[7].sKey = "s" /\ R[8].sKey = "a" /\ R[9].sKey = "d"
        /\ R[10].sKey = "4" /\ R[11].sKey = "6" /\ R[12].sKey = "n"
    BY <1>1, ClientRecords DEF Names
  <2>5. \A i \in DOMAIN R : R[i].type = "BOOL" => R[i].def \in BOOLEAN
    BY <1>1, ClientRecords
  <2> HIDE DEF R
  <2>6. \A i, j \in DOMAIN R : R[i].key = R[j].key => i = j
    BY <2>1, <2>3 DEF NoKey
  <2>7. \A i, j \in DOMAIN R : R[i].sKey = R[j].sKey /\ R[i].sKey # NoKey => i = j
    BY <2>1, <2>4 DEF NoKey
  <2>8. \A i \in DOMAIN R : R[i].type \in {"BOOL", "STR", "INT", "ENUM"}
    BY <2>1, <2>2
  <2>9. \A i \in DOMAIN R : R[i].key # "unknown"
    BY <2>1, <2>3 DEF NoKey
  <2>10. \A i \in DOMAIN R : R[i].type = "STR" /\ R[i].key # NoKey => R[i].key \in Strings
    BY <2>1, <2>2, <2>3 DEF Strings
  <2> QED  BY <2>5, <2>6, <2>7, <2>8, <2>9, <2>10 DEF WellMade, R
<1>2. CASE p = "service"
  <2> DEFINE R == Table(p).recs
  <2>1. DOMAIN R = 1..13
    BY <1>2, ServiceRecords
  <2>2. /\ R[1].type = "BOOL" /\ R[2].type = "BOOL" /\ R[3].type = "STR"
        /\ R[4].type = "ENUM" /\ R[5].type = "STR" /\ R[6].type = "INT"
        /\ R[7].type = "INT" /\ R[8].type = "INT" /\ R[9].type = "INT"
        /\ R[10].type = "INT" /\ R[11].type = "INT" /\ R[12].type = "INT"
        /\ R[13].type = "BOOL"
    BY <1>2, ServiceRecords DEF Names
  <2>3. /\ R[1].key = "skip_syslog" /\ R[2].key = "term_echo" /\ R[3].key = "ifName"
        /\ R[4].key = "log_level" /\ R[5].key = NoKey /\ R[6].key = "oneStepRx"
        /\ R[7].key = "oneStepTx" /\ R[8].key = "priority1" /\ R[9].key = "priority2"
        /\ R[10].key = "clockClass" /\ R[11].key = "clockAccuracy" /\ R[12].key = "offsetScaledLogVariance"
        /\ R[13].key = "ipv6"
    BY <1>2, ServiceRecords DEF Names
  <2>4. /\ R[1].sKey = "y" /\ R[2].sKey = "e" /\ R[3].sKey = "i"
        /\ R[4].sKey = "l" /\ R[5].sKey = "f" /\ R[6].sKey = "r"
        /\ R[7].sKey = "t" /\ R[8].sKey = NoKey /\ R[9].sKey = NoKey
        /\ R[10].sKey = NoKey /\ R[11].sKey = NoKey /\ R[12].sKey = NoKey
        /\ R[13].sKey = "6"
    BY <1>2, ServiceRecords DEF Names
  <2>5. \A i \in DOMAIN R : R[i].type = "BOOL" => R[i].def \in BOOLEAN
    BY <1>2, ServiceRecords
  <2> HIDE DEF R
  <2>6. \A i, j \in DOMAIN R : R[i].key = R[j].key => i = j
    BY <2>1, <2>3 DEF NoKey
  <2>7. \A i, j \in DOMAIN R : R[i].sKey = R[j].sKey /\ R[i].sKey # NoKey => i = j
    BY <2>1, <2>4 DEF NoKey
  <2>8. \A i \in DOMAIN R : R[i].type \in {"BOOL", "STR", "INT", "ENUM"}
    BY <2>1, <2>2
  <2>9. \A i \in DOMAIN R : R[i].key # "unknown"
    BY <2>1, <2>3 DEF NoKey
  <2>10. \A i \in DOMAIN R : R[i].type = "STR" /\ R[i].key # NoKey => R[i].key \in Strings
    BY <2>1, <2>2, <2>3 DEF Strings
  <2> QED  BY <2>5, <2>6, <2>7, <2>8, <2>9, <2>10 DEF WellMade, R
<1> QED  BY <1>1, <1>2

\* cmd_base starts without values.
LEMMA TableShape ==
    ASSUME NEW p \in {"client", "service"}, NEW o, o = Table(p)
    PROVE  /\ o = [recs |-> o.recs, vals |-> o.vals]
           /\ Len(o.recs) \in Nat /\ DOMAIN o.recs = 1..Len(o.recs)
           /\ DOMAIN o.vals = DOMAIN o.recs
           /\ \A i \in DOMAIN o.recs : o.vals[i] = NotSet
<1>1. CASE p = "client"
  <2>1. OfTables(o, BaseOptions, 5, ClientOptions, 7, 12)
    BY <1>1, ClientTable
  <2> QED  BY <2>1 DEF OfTables
<1>2. CASE p = "service"
  <2>1. OfTables(o, BaseOptions, 5, ServiceOptions, 8, 13)
    BY <1>2, ServiceTable
  <2> QED  BY <2>1 DEF OfTables
<1> QED  BY <1>1, <1>2

LEMMA MinOfOne ==
    ASSUME NEW i \in Int
    PROVE  Min({i}) = i
BY DEF Min

\* The first match is the only one.
LEMMA KeyFound ==
    ASSUME NEW R, WellMade(R), Len(R) \in Nat, DOMAIN R = 1..Len(R), NEW o, o.recs = R, NEW k
    PROVE  /\ ByKey(o, k) \in {0} \union DOMAIN R
           /\ ByKey(o, k) # 0 => R[ByKey(o, k)].key = k /\ k # NoKey
           /\ \A i \in DOMAIN R : R[i].key = k /\ k # NoKey => ByKey(o, k) = i
<1> DEFINE I == {i \in 1..Len(o.recs) : o.recs[i].key = k}
<1>1. ByKey(o, k) = IF k = NoKey THEN 0 ELSE IF I # {} THEN Min(I) ELSE 0
  BY DEF ByKey, SelectInSeq
<1>2. \A i \in DOMAIN R : R[i].key = k => I = {i}
  BY DEF WellMade
<1>3. \A i \in DOMAIN R : R[i].key = k => Min(I) = i
  BY <1>2, MinOfOne
<1>4. I # {} => \E i \in DOMAIN R : R[i].key = k
  OBVIOUS
<1>5. (\E i \in DOMAIN R : R[i].key = k) => I # {}
  OBVIOUS
<1> HIDE DEF I
<1> QED  BY <1>1, <1>3, <1>4, <1>5

LEMMA SkeyFound ==
    ASSUME NEW R, WellMade(R), Len(R) \in Nat, DOMAIN R = 1..Len(R), NEW o, o.recs = R, NEW k
    PROVE  /\ BySkey(o, k) \in {0} \union DOMAIN R
           /\ BySkey(o, k) # 0 => R[BySkey(o, k)].sKey = k /\ k # NoKey
           /\ \A i \in DOMAIN R : R[i].sKey = k /\ k # NoKey => BySkey(o, k) = i
<1> DEFINE I == {i \in 1..Len(o.recs) : o.recs[i].sKey = k}
<1>1. BySkey(o, k) = IF k = NoKey THEN 0 ELSE IF I # {} THEN Min(I) ELSE 0
  BY DEF BySkey, SelectInSeq
<1>2. \A i \in DOMAIN R : R[i].sKey = k /\ k # NoKey => I = {i}
  BY DEF WellMade
<1>3. \A i \in DOMAIN R : R[i].sKey = k /\ k # NoKey => Min(I) = i
  BY <1>2, MinOfOne
<1>4. I # {} => \E i \in DOMAIN R : R[i].sKey = k
  OBVIOUS
<1>5. (\E i \in DOMAIN R : R[i].sKey = k) => I # {}
  OBVIOUS
<1> HIDE DEF I
<1> QED  BY <1>1, <1>3, <1>4, <1>5

-----------------------------------------------------------------------------
(* The inductive invariant, one part for each part of the state.           *)

\* The records of the program that runs.
Recs == Table(prog).recs

\* There is an options object.
OptLive == phase \in {"args", "open", "lines", "take", "crashed"}

\* A text with a value was given for the option, on the command line or in
\* the file.
Says(source, key) == key \in topic \union {NoKey} /\ given[source][key] # <<>>

\* A value that the option may have.
InRange(r, x) ==
    /\ r.type = "BOOL" => x \in BOOLEAN
    /\ r.type \in {"INT", "ENUM"} => x \in r.min .. r.max

\* An option's value is the first that the command line gave, else the first
\* of the file, or NULL where there was no memory to duplicate the file's.
ValueFollows(r, v) ==
    /\ v.isSet \in BOOLEAN /\ v.isAlloc \in BOOLEAN
    /\ v.isSet <=> (Says("args", r.key) \/ Says("file", r.key))
    /\ Says("args", r.key) => v.val = given["args"][r.key][1] /\ ~v.isAlloc
    /\ Says("file", r.key) /\ ~Says("args", r.key) =>
          (v.val = given["file"][r.key][1] \/ (r.type = "STR" /\ v.val = Null /\ ~v.isAlloc))
    /\ v.isAlloc => v.isSet /\ r.type = "STR" /\ r.key # NoKey
    /\ v.isSet => InRange(r, v.val)

\* The history has all options of the execution, and the values follow it.
OptInv ==
    /\ prog \in {"client", "service"}
    /\ DOMAIN given = {"args", "file"}
    /\ \A s \in {"args", "file"} : DOMAIN given[s] = topic \union {NoKey}
    /\ phase \in {"main", "args", "open"} => \A key \in topic \union {NoKey} : given["file"][key] = <<>>
    /\ phase = "main" => \A key \in topic \union {NoKey} : given["args"][key] = <<>>
    /\ OptLive => /\ opt = [recs |-> Recs, vals |-> opt.vals]
                  /\ DOMAIN opt.vals = DOMAIN Recs
                  /\ \A i \in DOMAIN Recs : ValueFollows(Recs[i], opt.vals[i])

\* The objects are those of the first steps of allocObjs, all of them while
\* the program runs.
StageInv ==
    /\ IsFiniteSet(st) /\ Cardinality(st) \in 0..Len(Stages)
    /\ st = {Stages[i] : i \in 1..Cardinality(st)}
    /\ ~Working /\ ~Ended => st = {}
    /\ phase = "alloc" => Cardinality(st) < Len(Stages)
    /\ phase \in {"signal", "run"} => Cardinality(st) = Len(Stages)

\* The blocks that are in use: of the options object with the strings it
\* owns, of the file, of the objects.
Alive ==
    IF OptLive THEN OptBlocks \union OwnedStrings(opt)
                    \union {b \in CfgBlocks : phase = "lines"}
    ELSE IF Working THEN Held(st)
    ELSE {}

\* Each is allocated once, and nothing else is.
HeapInv == heap = [b \in Blocks |-> IF b \in Alive THEN 1 ELSE 0]

\* Descriptor 0 is the file while it is read and the socket while there is
\* one; nothing else is open.
FdInv ==
    /\ DOMAIN fds = Fds
    /\ phase = "lines" => fds[0] = [kind |-> "file"] /\ \A n \in Fds \ {0} : fds[n] = Free
    /\ Working /\ "socket" \in st =>
         /\ sock.fd = 0 /\ sock.type \in Protocols
         /\ fds[0].kind = "udp" /\ fds[0].fam = sock.type
         /\ \A n \in Fds \ {0} : fds[n] = Free
    /\ phase # "lines" /\ ~(Working /\ "socket" \in st) => \A n \in Fds : fds[n] = Free

\* An address object whose sockaddr is of the family of its type.
IsAddr(a, t) ==
    /\ t \in Protocols
    /\ a = [type |-> t, fam |-> t, host |-> a.host, port |-> a.port, str |-> a.str]
    /\ a.str \in BOOLEAN

\* The addresses, the socket and the type that is asked for are of one family.
AddrInv ==
    /\ IF "address" \in st THEN IsAddr(addr, addr.type) /\ (prog = "client" => type = addr.type)
       ELSE addr = NoAddr /\ type = "none"
    /\ IF "RxAddress" \in st THEN IsAddr(rxAddr, type) ELSE rxAddr = NoAddr
    /\ IF "socket" \in st THEN sock.fd = 0 /\ sock.type = addr.type ELSE sock = NoSock
    /\ prog = "service" => type = "none"
    /\ Working /\ "address" \in st /\ opts.type \in Protocols => addr.type = opts.type

\* The structure is what was given; -4 and -6 exclude each other.
StructInv ==
    /\ CommandLineWins
    /\ Working /\ prog = "client" => opts.domainNumber \in 128..239
                                  /\ ~(Effective("ipv4") /\ Effective("ipv6"))

\* The log is what was given from its last setting on, and syslog is open
\* when it is used.
LogInv ==
    /\ log = [level |-> log.level, echo |-> log.echo, sys |-> log.sys, open |-> log.open]
    /\ log.level \in 0..7 /\ log.echo \in BOOLEAN /\ log.sys \in BOOLEAN /\ log.open \in BOOLEAN
    /\ ~Ended => log.open = log.sys
    /\ phase = "take" \/ Working => /\ log.level = Effective("log_level")
                  /\ log.echo = Effective("term_echo")
                  /\ log.sys = ~Effective("skip_syslog")

-----------------------------------------------------------------------------
(* The values of the options.                                              *)

\* The table of the program that runs.
LEMMA RecsMade ==
    ASSUME prog \in {"client", "service"}
    PROVE  WellMade(Recs) /\ Len(Recs) \in Nat /\ DOMAIN Recs = 1..Len(Recs)
BY TablesWellMade, TableShape DEF Recs

\* What is read for an option is in its range.
LEMMA ValuesInRange ==
    ASSUME NEW r, r.type \in {"BOOL", "STR", "INT", "ENUM"}, NEW s, NEW x \in Values(r, s)
    PROVE  InRange(r, x)
<1>1. CASE r.type = "BOOL"
  BY <1>1 DEF Values, InRange
<1>2. CASE r.type = "INT"
  BY <1>2 DEF Values, InRange
<1>3. CASE r.type = "ENUM"
  BY <1>3 DEF Values, InRange
<1>4. CASE r.type = "STR"
  BY <1>4 DEF InRange
<1> QED  BY <1>1, <1>2, <1>3, <1>4

\* What a mention changes in the history.
LEMMA MentionChanges ==
    ASSUME NEW source \in {"args", "file"}, NEW r, NEW values,
           r.key \in topic \union {NoKey},
           DOMAIN given = {"args", "file"},
           \A s \in {"args", "file"} : DOMAIN given[s] = topic \union {NoKey},
           given' = Mention(source, r, values)
    PROVE  /\ DOMAIN given' = {"args", "file"}
           /\ \A s \in {"args", "file"} : DOMAIN given'[s] = topic \union {NoKey}
           /\ \A s \in {"args", "file"} : \A k \in topic \union {NoKey} :
                s # source \/ k # r.key \/ given[s][k] # <<>> => given'[s][k] = given[s][k]
           /\ values = {} => given' = given
           /\ given[source][r.key] = <<>> /\ values # {} =>
                /\ given'[source][r.key] # <<>>
                /\ given'[source][r.key][1] = CHOOSE x \in values : TRUE
<1>1. CASE given[source][r.key] # <<>> \/ values = {}
  BY <1>1 DEF Mention
<1>2. CASE given[source][r.key] = <<>> /\ values # {}
  <2> DEFINE new == <<CHOOSE x \in values : TRUE>>
  <2>1. given' = [given EXCEPT ![source][r.key] = new]
    BY <1>2 DEF Mention
  <2>2. new # <<>> /\ new[1] = CHOOSE x \in values : TRUE
    OBVIOUS
  <2> HIDE DEF new
  <2> QED  BY <1>2, <2>1, <2>2
<1> QED  BY <1>1, <1>2

\* One value is stored, the other options stay.
LEMMA OneValue ==
    ASSUME NEW R, NEW o, o = [recs |-> R, vals |-> o.vals], DOMAIN o.vals = DOMAIN R,
           NEW i \in DOMAIN R, NEW v, NEW p, p = [o EXCEPT !.vals[i] = v]
    PROVE  /\ p = [recs |-> R, vals |-> p.vals] /\ DOMAIN p.vals = DOMAIN R
           /\ p.vals[i] = v
           /\ \A j \in DOMAIN R \ {i} : p.vals[j] = o.vals[j]
OBVIOUS

\* A value follows what was given if nothing new was said of it.
LEMMA SameSaid ==
    ASSUME NEW r, NEW v, ValueFollows(r, v), topic' = topic,
           r.key \in topic \union {NoKey} =>
             \A s \in {"args", "file"} : given'[s][r.key] = given[s][r.key]
    PROVE  ValueFollows(r, v)'
<1>1. \A s \in {"args", "file"} : Says(s, r.key)' <=> Says(s, r.key)
  BY DEF Says
<1>2. CASE r.key \in topic \union {NoKey}
  <2>1. given'["args"][r.key] = given["args"][r.key] /\ given'["file"][r.key] = given["file"][r.key]
    BY <1>2
  <2> QED  BY <1>1, <2>1 DEF ValueFollows
<1>3. CASE r.key \notin topic \union {NoKey}
  <2>1. ~Says("args", r.key) /\ ~Says("file", r.key) /\ ~Says("args", r.key)' /\ ~Says("file", r.key)'
    BY <1>3, <1>1 DEF Says
  <2> QED  BY <2>1 DEF ValueFollows
<1> QED  BY <1>2, <1>3

\* An option of the command line.
LEMMA ArgOptionOpt ==
    ASSUME OptInv, ArgOption
    PROVE  OptInv'
<1>1. /\ prog \in {"client", "service"} /\ phase = "args"
      /\ prog' = prog /\ topic' = topic /\ phase' = phase
      /\ DOMAIN given = {"args", "file"}
      /\ \A s \in {"args", "file"} : DOMAIN given[s] = topic \union {NoKey}
      /\ \A key \in topic \union {NoKey} : given["file"][key] = <<>>
      /\ opt = [recs |-> Recs, vals |-> opt.vals]
      /\ DOMAIN opt.vals = DOMAIN Recs
      /\ \A i \in DOMAIN Recs : ValueFollows(Recs[i], opt.vals[i])
  BY DEF OptInv, ArgOption, OptLive
<1>2. PICK r \in {x \in Mentioned : IsSkey(opt, x.sKey)} : \E s :
        /\ ParseSkey(opt, r.sKey, s, {"BOOL_DEF"}).ok
        /\ opt' = ParseSkey(opt, r.sKey, s, {"BOOL_DEF"}).opt
        /\ given' = Mention("args", r, IF r.type = "BOOL" THEN {~r.def} ELSE Values(r, s))
  BY DEF ArgOption
<1>2a. PICK s :
        /\ ParseSkey(opt, r.sKey, s, {"BOOL_DEF"}).ok
        /\ opt' = ParseSkey(opt, r.sKey, s, {"BOOL_DEF"}).opt
        /\ given' = Mention("args", r, IF r.type = "BOOL" THEN {~r.def} ELSE Values(r, s))
  BY <1>2
<1> DEFINE values == IF r.type = "BOOL" THEN {~r.def} ELSE Values(r, s)
<1>i. PICK i : i = BySkey(opt, r.sKey)
  OBVIOUS
<1>v. PICK v : v = opt.vals[i]
  OBVIOUS
<1>p. PICK p : p = ParseVal(r, v, s, {"BOOL_DEF"}, TRUE)
  OBVIOUS
<1>w. PICK w : w = p.v
  OBVIOUS
<1>3. /\ WellMade(Recs) /\ Len(Recs) \in Nat /\ DOMAIN Recs = 1..Len(Recs)
      /\ Recs' = Recs
  BY <1>1, RecsMade DEF Recs
<1>4. i \in DOMAIN Recs /\ Recs[i] = r
  <2>1. PICK j \in DOMAIN Recs : Recs[j] = r
    BY <1>1, <1>2 DEF Mentioned, ToSet
  <2>2. i # 0
    BY <1>2, <1>i DEF IsSkey
  <2> QED  BY <1>1, <1>3, <1>i, <2>1, <2>2, SkeyFound
<1>5. r.key \in topic \union {NoKey}
  BY <1>2 DEF Mentioned
<1>6. p.ok /\ opt' = [opt EXCEPT !.vals[i] = w]
  <2>1. i # 0 /\ opt.recs[i] = r
    BY <1>1, <1>3, <1>4
  <2> QED  BY <1>2a, <1>i, <1>v, <1>p, <1>w, <2>1 DEF ParseSkey, ParseAt
<1>7. given' = Mention("args", r, values)
  BY <1>2a
<1> HIDE DEF values
<1>8. /\ DOMAIN given' = {"args", "file"}
      /\ \A src \in {"args", "file"} : DOMAIN given'[src] = topic \union {NoKey}
      /\ \A src \in {"args", "file"} : \A k \in topic \union {NoKey} :
           src # "args" \/ k # r.key \/ given[src][k] # <<>> => given'[src][k] = given[src][k]
      /\ values = {} => given' = given
      /\ given["args"][r.key] = <<>> /\ values # {} =>
           /\ given'["args"][r.key] # <<>>
           /\ given'["args"][r.key][1] = CHOOSE x \in values : TRUE
  BY <1>1, <1>5, <1>7, MentionChanges
<1>9. /\ opt' = [recs |-> Recs, vals |-> opt'.vals] /\ DOMAIN opt'.vals = DOMAIN Recs
      /\ opt'.vals[i] = w
      /\ \A j \in DOMAIN Recs \ {i} : opt'.vals[j] = opt.vals[j]
  BY <1>1, <1>4, <1>6, OneValue
<1>10. ASSUME NEW j \in DOMAIN Recs \ {i}
       PROVE  ValueFollows(Recs[j], opt.vals[j])'
  <2>1. Recs[j].key # r.key
    BY <1>3, <1>4 DEF WellMade
  <2> QED  BY <1>1, <1>3, <1>8, <1>9, <2>1, SameSaid
<1>11. ValueFollows(r, w)'
  <2>1. ValueFollows(r, v)
    BY <1>1, <1>4, <1>v
  <2>2. CASE v.isSet
    <3>1. w = v
      BY <2>2, <1>p, <1>w DEF ParseVal, Kept
    <3>2. given["args"][r.key] # <<>>
      BY <1>1, <2>1, <2>2 DEF ValueFollows, Says
    <3> QED  BY <1>1, <1>5, <1>8, <2>1, <3>1, <3>2, SameSaid
  <2>3. CASE ~v.isSet
    <3>1. ~v.isAlloc /\ given["args"][r.key] = <<>>
      BY <1>5, <2>1, <2>3 DEF ValueFollows, Says
    <3>2. r.type \in {"BOOL", "STR", "INT", "ENUM"} /\ (r.type = "BOOL" => r.def \in BOOLEAN)
      BY <1>3, <1>4 DEF WellMade
    <3>3. values # {} /\ w = Store(v, CHOOSE x \in values : TRUE, FALSE) /\ InRange(r, CHOOSE x \in values : TRUE)
      <4>1. CASE r.type = "BOOL"
        <5>1. values = {~r.def} /\ w = Store(v, ~r.def, v.isAlloc)
          BY <2>3, <4>1, <1>p, <1>w DEF values, ParseVal
        <5>2. values # {} /\ (CHOOSE x \in values : TRUE) = ~r.def
          BY <5>1
        <5>3. v.isAlloc = FALSE
          BY <2>1, <3>1 DEF ValueFollows
        <5>4. InRange(r, ~r.def)
          BY <4>1, <3>2 DEF InRange
        <5> QED  BY <5>1, <5>2, <5>3, <5>4, Zenon
      <4>2. CASE r.type # "BOOL"
        <5>1. /\ values = Values(r, s) /\ values # {}
              /\ w = Store(v, CHOOSE x \in values : TRUE, FALSE)
          BY <1>6, <2>3, <4>2, <1>p, <1>w DEF values, ParseVal
        <5>2. (CHOOSE x \in values : TRUE) \in Values(r, s)
          BY <5>1
        <5> QED  BY <3>2, <5>1, <5>2, ValuesInRange
      <4> QED BY <4>1, <4>2
    <3>x. PICK x : x = CHOOSE y \in values : TRUE
      OBVIOUS
    <3>y. w = Store(v, x, FALSE)
      BY <3>3, <3>x
    <3>4. w.isSet = TRUE /\ w.isAlloc = FALSE /\ w.val = x
      BY <3>y, Zenon DEF Store
    <3>5. given'["args"][r.key] # <<>> /\ given'["args"][r.key][1] = w.val
      BY <1>8, <3>1, <3>3, <3>4, <3>x
    <3> QED  BY <1>1, <1>5, <3>3, <3>x, <3>4, <3>5 DEF ValueFollows, Says, InRange
  <2> QED  BY <2>2, <2>3
<1> QED  BY <1>1, <1>3, <1>4, <1>8, <1>9, <1>10, <1>11 DEF OptInv

\* A line of the file.
LineTaken(line, dup) ==
    LET i == IF line.kind = "pair" THEN ByKey(opt, line.key) ELSE 0
    IN  /\ ParseLine(opt, line, dup).ok
        /\ opt' = ParseLine(opt, line, dup).opt
        /\ given' = IF i = 0 THEN given
                    ELSE Mention("file", opt.recs[i], Values(opt.recs[i], LineText(opt, line)))

\* A line keeps the invariant; no string is given up.
LEMMA LineOpt ==
    ASSUME OptInv, phase = "lines", NEW line \in Lines, NEW dup \in BOOLEAN, LineTaken(line, dup),
           UNCHANGED <<prog, topic, phase>>
    PROVE  /\ OptInv'
           /\ \A j \in DOMAIN Recs : opt.vals[j].isAlloc => opt'.vals[j].isAlloc
<1>1. /\ prog \in {"client", "service"} /\ phase = "lines"
      /\ prog' = prog /\ topic' = topic /\ phase' = phase
      /\ DOMAIN given = {"args", "file"}
      /\ \A s \in {"args", "file"} : DOMAIN given[s] = topic \union {NoKey}
      /\ opt = [recs |-> Recs, vals |-> opt.vals]
      /\ DOMAIN opt.vals = DOMAIN Recs
      /\ \A i \in DOMAIN Recs : ValueFollows(Recs[i], opt.vals[i])
  BY DEF OptInv, OptLive
<1>2. /\ WellMade(Recs) /\ Len(Recs) \in Nat /\ DOMAIN Recs = 1..Len(Recs)
      /\ Recs' = Recs
  BY <1>1, RecsMade DEF Recs
<1>3. CASE line.kind = "blank"
  <2>1. opt' = opt /\ given' = given
    BY <1>3 DEF LineTaken, ParseLine
  <2>2. \A i \in DOMAIN Recs : ValueFollows(Recs[i], opt.vals[i])'
    BY <1>1, <1>2, <2>1, SameSaid
  <2> QED  BY <1>1, <1>2, <2>1, <2>2 DEF OptInv
<1>4. CASE line.kind # "blank"
  <2>1. line.kind = "pair"
    BY <1>4 DEF LineTaken, ParseLine
  <2>i. PICK i : i = ByKey(opt, line.key)
    OBVIOUS
  <2>r. PICK r : r = opt.recs[i]
    OBVIOUS
  <2>v. PICK v : v = opt.vals[i]
    OBVIOUS
  <2>s. PICK s : s = LineText(opt, line)
    OBVIOUS
  <2>p. PICK p : p = ParseVal(r, v, s, {"STR_DUP"}, dup)
    OBVIOUS
  <2>w. PICK w : w = p.v
    OBVIOUS
  <2> DEFINE values == Values(r, s)
  <2>2. i # 0 /\ p.ok /\ opt' = [opt EXCEPT !.vals[i] = w] /\ given' = Mention("file", r, values)
    <3>1. ParseLine(opt, line, dup) = ParseAt(opt, i, s, {"STR_DUP"}, dup)
      BY <1>4, <2>1, <2>i, <2>s DEF ParseLine, ParseKey
    <3>2. i # 0
      BY <3>1 DEF LineTaken, ParseAt
    <3> QED  BY <3>1, <3>2, <2>1, <2>i, <2>r, <2>v, <2>s, <2>p, <2>w DEF LineTaken, ParseAt
  <2> HIDE DEF values
  <2>3. i \in DOMAIN Recs /\ Recs[i] = r /\ r.key = line.key /\ r.key # NoKey
    BY <1>1, <1>2, <2>2, <2>i, <2>r, KeyFound
  <2>4. r.key \in topic \union {NoKey}
    <3>1. r.key # "unknown"
      BY <1>2, <2>3 DEF WellMade
    <3>2. line.key = "unknown" \/ \E x \in Mentioned : line.key = x.key
      BY <2>1 DEF Lines, Blank, Section, Broken, Pair
    <3> QED  BY <2>3, <3>1, <3>2 DEF Mentioned
  <2>5. /\ DOMAIN given' = {"args", "file"}
        /\ \A src \in {"args", "file"} : DOMAIN given'[src] = topic \union {NoKey}
        /\ \A src \in {"args", "file"} : \A k \in topic \union {NoKey} :
             src # "file" \/ k # r.key \/ given[src][k] # <<>> => given'[src][k] = given[src][k]
        /\ values = {} => given' = given
        /\ given["file"][r.key] = <<>> /\ values # {} =>
             /\ given'["file"][r.key] # <<>>
             /\ given'["file"][r.key][1] = CHOOSE x \in values : TRUE
    BY <1>1, <2>2, <2>4, MentionChanges
  <2>6. /\ opt' = [recs |-> Recs, vals |-> opt'.vals] /\ DOMAIN opt'.vals = DOMAIN Recs
        /\ opt'.vals[i] = w
        /\ \A j \in DOMAIN Recs \ {i} : opt'.vals[j] = opt.vals[j]
    BY <1>1, <2>2, <2>3, OneValue
  <2>7. ASSUME NEW j \in DOMAIN Recs \ {i}
        PROVE  ValueFollows(Recs[j], opt.vals[j])'
    <3>1. Recs[j].key # r.key
      BY <1>2, <2>3 DEF WellMade
    <3> QED  BY <1>1, <1>2, <2>5, <2>6, <3>1, SameSaid
  <2>8. ValueFollows(r, v)
    BY <1>1, <2>3, <2>v
  <2>9. v.isSet => w = v
    BY <2>p, <2>w DEF ParseVal, Kept
  <2>10. ValueFollows(r, w)'
    <3>1. CASE v.isSet /\ given["args"][r.key] # <<>>
      <4>1. Says("args", r.key) /\ Says("args", r.key)' /\ given'["args"][r.key] = given["args"][r.key]
        BY <1>1, <2>4, <2>5, <3>1 DEF Says
      <4> QED  BY <2>8, <2>9, <3>1, <4>1 DEF ValueFollows, InRange
    <3>2. CASE v.isSet /\ given["args"][r.key] = <<>>
      <4>1. given["file"][r.key] # <<>>
        BY <2>8, <3>2 DEF ValueFollows, Says
      <4> QED  BY <1>1, <2>4, <2>5, <2>8, <2>9, <3>2, <4>1, SameSaid
    <3>3. CASE ~v.isSet
      <4>1. given["args"][r.key] = <<>> /\ given["file"][r.key] = <<>>
        BY <2>4, <2>8, <3>3 DEF ValueFollows, Says
      <4>2. values # {}
        BY <2>2, <2>p, <3>3 DEF ParseVal, values
      <4>x. PICK x : x = CHOOSE y \in values : TRUE
        OBVIOUS
      <4>3. given'["file"][r.key] # <<>> /\ given'["file"][r.key][1] = x /\ given'["args"][r.key] = <<>>
        BY <2>4, <2>5, <4>1, <4>2, <4>x
      <4>4. r.type \in {"BOOL", "STR", "INT", "ENUM"}
        BY <1>2, <2>3 DEF WellMade
      <4>5. InRange(r, x)
        <5>1. x \in Values(r, s)
          BY <4>2, <4>x DEF values
        <5> QED  BY <4>4, <5>1, ValuesInRange
      <4>6. CASE r.type = "STR" /\ dup
        <5>1. w = Store(v, x, TRUE)
          BY <2>p, <2>w, <3>3, <4>2, <4>x, <4>6 DEF ParseVal, values
        <5>2. w.isSet = TRUE /\ w.isAlloc = TRUE /\ w.val = x
          BY <5>1, Zenon DEF Store
        <5> QED  BY <1>1, <2>3, <2>4, <4>3, <4>5, <4>6, <5>2 DEF ValueFollows, Says, InRange
      <4>7. CASE r.type = "STR" /\ ~dup
        <5>1. w = Store(v, Null, FALSE)
          BY <2>p, <2>w, <3>3, <4>2, <4>x, <4>7 DEF ParseVal, values
        <5>2. w.isSet = TRUE /\ w.isAlloc = FALSE /\ w.val = Null
          BY <5>1, Zenon DEF Store
        <5> QED  BY <1>1, <2>4, <4>3, <4>5, <4>7, <5>2 DEF ValueFollows, Says, InRange
      <4>8. CASE r.type # "STR"
        <5>1. w = Store(v, x, FALSE)
          BY <2>p, <2>w, <3>3, <4>2, <4>x, <4>8 DEF ParseVal, values
        <5>2. w.isSet = TRUE /\ w.isAlloc = FALSE /\ w.val = x
          BY <5>1, Zenon DEF Store
        <5> QED  BY <1>1, <2>4, <4>3, <4>5, <5>2 DEF ValueFollows, Says, InRange
      <4> QED  BY <4>6, <4>7, <4>8
    <3> QED  BY <2>8, <3>1, <3>2, <3>3 DEF ValueFollows
  <2>11. \A j \in DOMAIN Recs : opt.vals[j].isAlloc => opt'.vals[j].isAlloc
    BY <2>6, <2>8, <2>9, <2>v DEF ValueFollows
  <2> QED  BY <1>1, <1>2, <2>3, <2>5, <2>6, <2>7, <2>10, <2>11 DEF OptInv
<1> QED  BY <1>3, <1>4

\* The options object: the invariant holds initially and is kept.
LEMMA OptInit == Init => OptInv
<1> SUFFICES ASSUME Init PROVE OptInv
  OBVIOUS
<1>1. \A s \in {"args", "file"} : DOMAIN given[s] = topic \union {NoKey}
                                  /\ \A key \in topic \union {NoKey} : given[s][key] = <<>>
  BY DEF Init
<1> QED  BY <1>1 DEF Init, OptInv, OptLive

\* The options object stays, or is not used any more.
LEMMA OptKept ==
    ASSUME OptInv, UNCHANGED <<prog, topic, given>>, phase' \notin {"main", "args"},
           phase' = "open" => phase = "args",
           OptLive' => OptLive /\ opt' = opt
    PROVE  OptInv'
<1>1. Recs' = Recs
  BY DEF Recs
<1>2. ASSUME OptLive', NEW i \in DOMAIN Recs
      PROVE  ValueFollows(Recs[i], opt.vals[i])'
  <2>1. ValueFollows(Recs[i], opt.vals[i])
    BY <1>2 DEF OptInv
  <2> QED  BY <1>1, <1>2, <2>1, SameSaid
<1> QED  BY <1>1, <1>2 DEF OptInv

LEMMA OptNext ==
    ASSUME OptInv, [Next]_vars
    PROVE  OptInv'
<1>1. CASE CmdBase
  <2>1. CASE phase' = "failure"
    BY <1>1, <2>1, OptKept DEF CmdBase, OptLive
  <2>2. CASE phase' # "failure"
    <3>1. phase = "main" /\ phase' = "args" /\ opt' = Table(prog) /\ UNCHANGED <<prog, topic, given>>
      BY <1>1, <2>2 DEF CmdBase
    <3>2. opt' = [recs |-> opt'.recs, vals |-> opt'.vals] /\ DOMAIN opt'.vals = DOMAIN opt'.recs
          /\ \A i \in DOMAIN opt'.recs : opt'.vals[i] = NotSet
      BY <3>1, TableShape DEF OptInv
    <3>3. opt'.recs = Recs /\ Recs' = Recs
      BY <3>1 DEF Recs
    <3>4. ASSUME NEW i \in DOMAIN Recs
          PROVE  ValueFollows(Recs[i], opt.vals[i])'
      <4>v. PICK v : v = opt'.vals[i]
        OBVIOUS
      <4>1. v = NotSet
        BY <3>2, <3>3, <4>v
      <4>2. v.isSet = FALSE /\ v.isAlloc = FALSE
        BY <4>1, Zenon DEF NotSet
      <4>3. ~Says("args", Recs[i].key)' /\ ~Says("file", Recs[i].key)'
        BY <3>1 DEF OptInv, Says
      <4> QED  BY <3>3, <4>v, <4>2, <4>3 DEF ValueFollows
    <3> QED  BY <3>1, <3>2, <3>3, <3>4 DEF OptInv
  <2> QED  BY <2>1, <2>2
<1>2. CASE ArgMessage \/ ArgWrong
  BY <1>2, OptKept DEF ArgMessage, ArgWrong, Leave, OptLive, optVars
<1>3. CASE ArgOption
  BY <1>3, ArgOptionOpt
<1>4. CASE ArgsEnd
  BY <1>4, OptKept DEF ArgsEnd, OptLive, optVars
<1>5. CASE OpenFile
  BY <1>5, OptKept DEF OpenFile, OptLive
<1>6. CASE Line
  <2>1. PICK line \in Lines, dup \in BOOLEAN :
          \/ LineTaken(line, dup) /\ UNCHANGED phase
          \/ phase' = "failure" /\ UNCHANGED <<opt, given>>
    BY <1>6 DEF Line, LineTaken
  <2>2. phase = "lines" /\ UNCHANGED <<prog, topic>>
    BY <1>6 DEF Line
  <2> QED  BY <2>1, <2>2, LineOpt, OptKept DEF OptLive
<1>7. CASE LinesEnd
  BY <1>7, OptKept DEF LinesEnd, OptLive, optVars
<1>8. CASE TakeClient
  BY <1>8, OptKept DEF TakeClient, Take, Leave, OptLive, optVars
<1>9. CASE TakeService
  BY <1>9, OptKept DEF TakeService, Take, OptLive
<1>10. CASE AllocFails \/ AllocAddress \/ AllocRxAddress \/ AllocServiceAddress \/ AllocSocket \/ AllocObject
  BY <1>10, OptKept DEF AllocFails, AllocAddress, AllocRxAddress, AllocServiceAddress, AllocSocket, AllocObject,
                        Allocated, OptLive, optVars
<1>11. CASE Capture \/ Receive \/ Fail \/ Interrupt
  BY <1>11, OptKept DEF Capture, Receive, Fail, Interrupt, CleanUp, OptLive, optVars
<1>12. CASE UNCHANGED vars
  <2>1. UNCHANGED <<prog, topic, given, opt, phase>>
    BY <1>12 DEF vars, optVars
  <2>2. Recs' = Recs
    BY <2>1 DEF Recs
  <2>3. ASSUME OptLive', NEW i \in DOMAIN Recs
        PROVE  ValueFollows(Recs[i], opt.vals[i])'
    BY <2>1, <2>2, <2>3, SameSaid DEF OptInv, OptLive
  <2> QED  BY <2>1, <2>2, <2>3 DEF OptInv, OptLive
<1> QED  BY <1>1, <1>2, <1>3, <1>4, <1>5, <1>6, <1>7, <1>8, <1>9, <1>10, <1>11, <1>12 DEF Next

-----------------------------------------------------------------------------
(* The objects.                                                            *)

\* The objects of allocObjs are different.
LEMMA StagesList ==
    ASSUME prog \in {"client", "service"}
    PROVE  /\ Len(Stages) \in Nat \ {0} /\ DOMAIN Stages = 1..Len(Stages)
           /\ \A i, j \in 1..Len(Stages) : Stages[i] = Stages[j] => i = j
           /\ \A i \in 1..Len(Stages) :
                Stages[i] \in AddrBlocks \union (OtherBlocks \ {"addressStr", "bufferData"})
           /\ Stages[1] = "address"
           /\ prog = "client" => Len(Stages) = 10 /\ Stages[2] = "RxAddress" /\ Stages[3] = "socket"
           /\ prog = "service" => Len(Stages) = 6 /\ Stages[2] = "socket"
           /\ prog = "service" => \A i \in 1..Len(Stages) : Stages[i] # "RxAddress"
<1>1. CASE prog = "client"
  <2> DEFINE S == <<"address", "RxAddress", "socket", "message", "buffer", "tmpTs", "t1", "r1", "t2", "r2">>
  <2>1. Stages = S
    BY <1>1 DEF Stages
  <2>2. Len(S) = 10 /\ DOMAIN S = 1..10
    OBVIOUS
  <2>3. \A i, j \in 1..10 : S[i] = S[j] => i = j
    OBVIOUS
  <2>4. \A i \in 1..10 : S[i] \in AddrBlocks \union (OtherBlocks \ {"addressStr", "bufferData"})
    BY DEF AddrBlocks, OtherBlocks
  <2>5. S[1] = "address" /\ S[2] = "RxAddress" /\ S[3] = "socket"
    OBVIOUS
  <2> HIDE DEF S
  <2> QED  BY <1>1, <2>1, <2>2, <2>3, <2>4, <2>5
<1>2. CASE prog = "service"
  <2> DEFINE S == <<"address", "socket", "message", "rxTs", "t2", "buffer">>
  <2>1. Stages = S
    BY <1>2 DEF Stages
  <2>2. Len(S) = 6 /\ DOMAIN S = 1..6
    OBVIOUS
  <2>3. \A i, j \in 1..6 : S[i] = S[j] => i = j
    OBVIOUS
  <2>4. \A i \in 1..6 : S[i] \in AddrBlocks \union (OtherBlocks \ {"addressStr", "bufferData"}) /\ S[i] # "RxAddress"
    BY DEF AddrBlocks, OtherBlocks
  <2>5. S[1] = "address" /\ S[2] = "socket"
    OBVIOUS
  <2> HIDE DEF S
  <2> QED  BY <1>2, <2>1, <2>2, <2>3, <2>4, <2>5
<1> QED  BY <1>1, <1>2

\* The object that is allocated next is a new one.
LEMMA NextIsNew ==
    ASSUME prog \in {"client", "service"}, StageInv, phase = "alloc"
    PROVE  /\ NextObject \notin st
           /\ NextObject \in AddrBlocks \union (OtherBlocks \ {"addressStr", "bufferData"})
           /\ IsFiniteSet(st \union {NextObject})
           /\ Cardinality(st \union {NextObject}) = Cardinality(st) + 1
           /\ st \union {NextObject} = {Stages[i] : i \in 1..(Cardinality(st) + 1)}
<1> DEFINE n == Cardinality(st)
<1>1. /\ n \in Nat /\ n < Len(Stages) /\ Len(Stages) \in Nat
      /\ st = {Stages[i] : i \in 1..n} /\ IsFiniteSet(st) /\ NextObject = Stages[n + 1]
  BY StagesList DEF StageInv, NextObject
<1> HIDE DEF n
<1>2. NextObject \notin st
  BY <1>1, StagesList
<1>3. NextObject \in AddrBlocks \union (OtherBlocks \ {"addressStr", "bufferData"})
  BY <1>1, StagesList
<1>4. IsFiniteSet(st \union {NextObject}) /\ Cardinality(st \union {NextObject}) = n + 1
  BY <1>1, <1>2, FS_AddElement DEF n
<1>5. st \union {NextObject} = {Stages[i] : i \in 1..(n + 1)}
  <2>1. 1..(n + 1) = (1..n) \union {n + 1}
    BY <1>1
  <2> QED  BY <1>1, <2>1
<1> QED  BY <1>2, <1>3, <1>4, <1>5 DEF n

\* The objects: the invariant holds initially and is kept.
LEMMA StageInit == Init => StageInv
<1> SUFFICES ASSUME Init PROVE StageInv
  OBVIOUS
<1>1. st = {} /\ phase = "main" /\ prog \in {"client", "service"}
  BY DEF Init
<1>2. IsFiniteSet(st) /\ Cardinality(st) = 0
  BY <1>1, FS_EmptySet
<1>3. st = {Stages[i] : i \in 1..0}
  BY <1>1
<1> QED  BY <1>1, <1>2, <1>3, StagesList DEF StageInv, Working, Ended

\* allocObjs gets one object further.
LEMMA StageAllocated ==
    ASSUME prog \in {"client", "service"}, StageInv, phase = "alloc", Allocated
    PROVE  StageInv'
<1>1. prog' = prog /\ Stages' = Stages /\ st' = st \union {NextObject}
      /\ phase' = IF Cardinality(st') = Len(Stages) THEN "signal" ELSE "alloc"
  BY DEF Allocated, Stages
<1>2. /\ IsFiniteSet(st') /\ Cardinality(st') = Cardinality(st) + 1
      /\ st' = {Stages[i] : i \in 1..Cardinality(st')}
  BY <1>1, NextIsNew
<1>3. Cardinality(st) \in 0..Len(Stages) /\ Cardinality(st) < Len(Stages) /\ Len(Stages) \in Nat
  BY StagesList DEF StageInv
<1>4. Cardinality(st') \in 0..Len(Stages) /\ (Cardinality(st') # Len(Stages) => Cardinality(st') < Len(Stages))
  BY <1>2, <1>3
<1>5. Working' /\ phase' \in {"alloc", "signal"}
  BY <1>1 DEF Working
<1> QED  BY <1>1, <1>2, <1>4, <1>5 DEF StageInv

\* The objects stay.
LEMMA StageKept ==
    ASSUME prog \in {"client", "service"}, StageInv, UNCHANGED <<prog, st>>,
           phase' = "alloc" => ~Working /\ ~Ended,
           phase' \in {"signal", "run"} => phase \in {"signal", "run"},
           Working' \/ Ended' \/ (~Working /\ ~Ended)
    PROVE  StageInv'
<1>1. Stages' = Stages
  BY DEF Stages
<1>2. phase' = "alloc" => Cardinality(st) < Len(Stages)
  <2> SUFFICES ASSUME phase' = "alloc" PROVE Cardinality(st) < Len(Stages)
    OBVIOUS
  <2>1. st = {}
    BY DEF StageInv
  <2>2. Cardinality(st) = 0
    BY <2>1, FS_EmptySet
  <2> QED  BY <2>2, StagesList
<1> QED  BY <1>1, <1>2 DEF StageInv

LEMMA StageNext ==
    ASSUME prog \in {"client", "service"}, StageInv, [Next]_vars
    PROVE  StageInv'
<1> USE DEF Working, Ended
<1>1. CASE CmdBase \/ ArgMessage \/ ArgOption \/ ArgWrong \/ ArgsEnd
  BY <1>1, StageKept DEF CmdBase, ArgMessage, ArgOption, ArgWrong, ArgsEnd, Leave, stVars
<1>2. CASE OpenFile \/ Line \/ LinesEnd
  BY <1>2, StageKept DEF OpenFile, Line, LinesEnd, stVars
<1>3. CASE TakeClient
  BY <1>3, StageKept DEF TakeClient, Take, Leave, stVars
<1>4. CASE TakeService
  BY <1>4, StageKept DEF TakeService, Take, stVars
<1>5. CASE AllocFails
  BY <1>5, StageKept DEF AllocFails, stVars
<1>6. CASE AllocAddress \/ AllocRxAddress \/ AllocServiceAddress \/ AllocSocket \/ AllocObject
  BY <1>6, StageAllocated DEF AllocAddress, AllocRxAddress, AllocServiceAddress, AllocSocket, AllocObject
<1>7. CASE Capture \/ Receive \/ Fail \/ Interrupt
  BY <1>7, StageKept DEF Capture, Receive, Fail, Interrupt, CleanUp, stVars
<1>8. CASE UNCHANGED vars
  <2>1. UNCHANGED <<prog, st, phase>> /\ Stages' = Stages
    BY <1>8 DEF vars, stVars, Stages
  <2> QED  BY <2>1 DEF StageInv
<1> QED  BY <1>1, <1>2, <1>3, <1>4, <1>5, <1>6, <1>7, <1>8 DEF Next

-----------------------------------------------------------------------------
(* Descriptors.                                                            *)

\* Where allocObjs stands tells what there is.
LEMMA Before ==
    ASSUME prog \in {"client", "service"}, StageInv, phase = "alloc"
    PROVE  /\ NextObject = "address" => st = {}
           /\ NextObject = "RxAddress" => prog = "client" /\ "address" \in st
           /\ NextObject = "socket" => "address" \in st /\ (prog = "client" => "RxAddress" \in st)
<1> DEFINE n == Cardinality(st)
<1>1. /\ n \in Nat /\ n < Len(Stages) /\ Len(Stages) \in Nat
      /\ st = {Stages[i] : i \in 1..n} /\ NextObject = Stages[n + 1]
  BY StagesList DEF StageInv, NextObject
<1> HIDE DEF n
<1>a. n + 1 \in 1..Len(Stages)
  BY <1>1
<1>b. \A i \in 1..Len(Stages) : NextObject = Stages[i] => i = n + 1
  BY <1>1, <1>a, StagesList
<1>2. NextObject = "address" => n = 0
  <2>1. 1 \in 1..Len(Stages) /\ Stages[1] = "address"
    BY StagesList
  <2> QED  BY <1>1, <1>b, <2>1
<1>3. NextObject = "RxAddress" => prog = "client" /\ n = 1
  <2>1. CASE prog = "client"
    <3>1. 2 \in 1..Len(Stages) /\ Stages[2] = "RxAddress"
      <4>1. Len(Stages) = 10 /\ Stages[2] = "RxAddress"
        BY <2>1, StagesList, Zenon
      <4> QED  BY <4>1
    <3> QED  BY <1>1, <1>b, <2>1, <3>1
  <2>2. CASE prog = "service"
    BY <1>1, <1>a, <2>2, StagesList
  <2> QED  BY <2>1, <2>2
<1>4. NextObject = "socket" => (prog = "client" => n = 2) /\ (prog = "service" => n = 1)
  <2>1. CASE prog = "client"
    <3>1. 3 \in 1..Len(Stages) /\ Stages[3] = "socket"
      <4>1. Len(Stages) = 10 /\ Stages[3] = "socket"
        BY <2>1, StagesList, Zenon
      <4> QED  BY <4>1
    <3> QED  BY <1>1, <1>b, <2>1, <3>1
  <2>2. CASE prog = "service"
    <3>1. 2 \in 1..Len(Stages) /\ Stages[2] = "socket"
      <4>1. Len(Stages) = 6 /\ Stages[2] = "socket"
        BY <2>2, StagesList, Zenon
      <4> QED  BY <4>1
    <3> QED  BY <1>1, <1>b, <2>2, <3>1
  <2> QED  BY <2>1, <2>2
<1>5. n = 0 => st = {}
  BY <1>1
<1>6. n >= 1 => "address" \in st
  BY <1>1, StagesList
<1>7. n = 2 /\ prog = "client" => "RxAddress" \in st
  BY <1>1, StagesList
<1> QED  BY <1>2, <1>3, <1>4, <1>5, <1>6, <1>7

\* While nothing is open the kernel gives descriptor 0.
LEMMA FirstFd ==
    ASSUME NEW f, \A n \in Fds : f[n] = Free
    PROVE  NextFd(f) = 0 /\ ~Full(f) /\ 0 \in Fds
<1>1. {n \in Fds : f[n] = Free} = Fds /\ 0 \in Fds /\ \A n \in Fds : 0 <= n /\ n \in Int
  BY SockAssumption DEF Fds
<1>2. Min(Fds) = 0
  BY <1>1 DEF Min
<1> QED  BY <1>1, <1>2 DEF NextFd, Full

\* The descriptors: the invariant holds initially and is kept (FdNext).
LEMMA FdInit == Init => FdInv
BY DEF Init, FdInv, Working

\* Descriptors stay as they are.
LEMMA FdKept ==
    ASSUME FdInv, UNCHANGED <<st, sock, fds>>, phase' = "lines" <=> phase = "lines",
           "socket" \in st => (Working' <=> Working)
    PROVE  FdInv'
BY DEF FdInv

\* The file is closed, nothing is open.
LEMMA FileClosed ==
    ASSUME FdInv, phase = "lines", CloseFile, phase' # "lines", Working' => "socket" \notin st'
    PROVE  FdInv'
<1>1. /\ DOMAIN fds = Fds /\ fds[0].kind = "file" /\ 0 \in Fds
      /\ \A n \in Fds \ {0} : fds[n] = Free
  BY SockAssumption DEF FdInv, Fds
<1>2. \A n \in Fds : fds[n].kind = "file" => n = 0
  BY <1>1 DEF Free
<1>3. (CHOOSE n \in Fds : fds[n].kind = "file") = 0
  BY <1>1, <1>2
<1>4. fds' = [fds EXCEPT ![0] = Free]
  BY <1>3 DEF CloseFile, Close
<1>5. DOMAIN fds' = Fds /\ \A n \in Fds : fds'[n] = Free
  BY <1>1, <1>4
<1> QED  BY <1>5 DEF FdInv

\* The file is opened, it has descriptor 0.
LEMMA FileOpened ==
    ASSUME FdInv, phase = "open", fds' = Open(fds, [kind |-> "file"]), phase' = "lines"
    PROVE  FdInv'
<1>1. DOMAIN fds = Fds /\ \A n \in Fds : fds[n] = Free
  BY DEF FdInv, Working
<1>2. fds' = [fds EXCEPT ![0] = [kind |-> "file"]]
  BY <1>1, FirstFd DEF Open
<1>3. DOMAIN fds' = Fds /\ fds'[0] = [kind |-> "file"] /\ \A n \in Fds \ {0} : fds'[n] = Free
  BY <1>1, <1>2, FirstFd
<1> QED  BY <1>3 DEF FdInv, Working

-----------------------------------------------------------------------------
(* What the programs get of their options.                                 *)

\* The value of an option is what was said of it first.
LEMMA ValueIs ==
    ASSUME OptInv, OptLive, NEW i \in DOMAIN Recs, NEW key, NEW sKey, NEW ty,
           Names(Recs[i], ty, key, sKey), key # NoKey, sKey # NoKey
    PROVE  /\ ty # "STR" => GetValSkey(opt, sKey) = Effective(key)
           /\ ty = "STR" => IsString(Taken(sKey), key)
           /\ ty = "BOOL" => GetValSkey(opt, sKey) \in BOOLEAN
           /\ ty \in {"INT", "ENUM"} /\ Recs[i].def \in Recs[i].min .. Recs[i].max =>
                GetValSkey(opt, sKey) \in Recs[i].min .. Recs[i].max
<1>1. /\ prog \in {"client", "service"}
      /\ opt.recs = Recs /\ ValueFollows(Recs[i], opt.vals[i])
  BY DEF OptInv
<1>2. WellMade(Recs) /\ Len(Recs) \in Nat /\ DOMAIN Recs = 1..Len(Recs)
  BY <1>1, RecsMade
<1>3. BySkey(opt, sKey) = i /\ ByKey(Table(prog), key) = i
  <2>1. Table(prog).recs = Recs /\ Recs[i].sKey = sKey /\ Recs[i].key = key
    BY DEF Recs, Names
  <2> QED  BY <1>1, <1>2, <2>1, KeyFound, SkeyFound
<1>r. PICK r : r = Recs[i]
  OBVIOUS
<1>v. PICK v : v = opt.vals[i]
  OBVIOUS
<1>x. PICK x : x = IF v.isSet THEN v.val ELSE r.def
  OBVIOUS
<1>4. GetValSkey(opt, sKey) = x /\ OwnedSkey(opt, sKey) = v.isAlloc /\ Default(key) = r.def
  BY <1>1, <1>3, <1>r, <1>v, <1>x DEF GetValSkey, OwnedSkey, Default, Recs
<1>5. ValueFollows(r, v) /\ r.type = ty /\ r.key = key
  BY <1>1, <1>r, <1>v DEF Names
<1>6. /\ ty # "STR" => x = Effective(key)
      /\ Says("args", key) \/ ~Says("file", key) => x = Effective(key) /\ v.isAlloc = FALSE
  <2>1. CASE Says("args", key)
    BY <1>5, <1>x, <2>1 DEF ValueFollows, Says, Effective
  <2>2. CASE ~Says("args", key) /\ Says("file", key)
    BY <1>5, <1>x, <2>2 DEF ValueFollows, Says, Effective
  <2>3. CASE ~Says("args", key) /\ ~Says("file", key)
    BY <1>4, <1>5, <1>x, <2>3 DEF ValueFollows, Says, Effective
  <2> QED  BY <2>1, <2>2, <2>3
<1>7. ty = "STR" => IsString(Taken(sKey), key)
  <2>1. Taken(sKey) = [text |-> x, freed |-> v.isAlloc]
    BY <1>4 DEF Taken
  <2>2. key \notin topic \/ given["args"][key] # <<>> \/ given["file"][key] = <<>> =>
          Says("args", key) \/ ~Says("file", key)
    BY DEF Says
  <2> QED  BY <1>6, <2>1, <2>2, Zenon DEF IsString
<1>8. ty = "BOOL" => x \in BOOLEAN
  <2>1. ty = "BOOL" => r.def \in BOOLEAN
    BY <1>2, <1>5, <1>r DEF WellMade
  <2> QED  BY <1>5, <1>x, <2>1 DEF ValueFollows, InRange
<1>9. ty \in {"INT", "ENUM"} /\ r.def \in r.min .. r.max => x \in r.min .. r.max
  BY <1>5, <1>x DEF ValueFollows, InRange
<1> QED  BY <1>4, <1>6, <1>7, <1>8, <1>9, <1>r

\* What was given comes to the same.
LEMMA EffectiveKept ==
    ASSUME UNCHANGED <<prog, topic, given>>
    PROVE  \A key : Effective(key)' = Effective(key)
BY DEF Effective, Default

\* What the log is set to.
LEMMA LogValues ==
    ASSUME OptInv, OptLive
    PROVE  /\ GetValSkey(opt, "l") = Effective("log_level") /\ GetValSkey(opt, "l") \in 0..7
           /\ GetValSkey(opt, "e") = Effective("term_echo") /\ GetValSkey(opt, "e") \in BOOLEAN
           /\ GetValSkey(opt, "y") = Effective("skip_syslog") /\ GetValSkey(opt, "y") \in BOOLEAN
<1>1. /\ {1, 2, 4} \subseteq DOMAIN Recs
      /\ Names(Recs[1], "BOOL", "skip_syslog", "y")
      /\ Names(Recs[2], "BOOL", "term_echo", "e")
      /\ Names(Recs[4], "ENUM", "log_level", "l")
      /\ Recs[4].def \in 0..7 /\ Recs[4].min = 0 /\ Recs[4].max = 7
  <2>1. CASE prog = "client"
    BY <2>1, ClientRecords DEF Recs
  <2>2. CASE prog = "service"
    BY <2>2, ServiceRecords DEF Recs
  <2> QED  BY <2>1, <2>2 DEF OptInv
<1>2. \A k \in {"skip_syslog", "y", "term_echo", "e", "log_level", "l"} : k # NoKey
  BY DEF NoKey
<1>3. 1 \in DOMAIN Recs /\ 2 \in DOMAIN Recs /\ 4 \in DOMAIN Recs
  BY <1>1
<1>4. GetValSkey(opt, "y") = Effective("skip_syslog") /\ GetValSkey(opt, "y") \in BOOLEAN
  BY <1>1, <1>2, <1>3, ValueIs
<1>5. GetValSkey(opt, "e") = Effective("term_echo") /\ GetValSkey(opt, "e") \in BOOLEAN
  BY <1>1, <1>2, <1>3, ValueIs
<1>6. GetValSkey(opt, "l") = Effective("log_level") /\ GetValSkey(opt, "l") \in 0..7
  BY <1>1, <1>2, <1>3, ValueIs
<1> QED  BY <1>4, <1>5, <1>6

\* The values of the options, by their letters.
LEMMA NameValue ==
    ASSUME OptInv, OptLive
    PROVE  IsString(Taken("i"), "ifName")
<1>1. 3 \in DOMAIN Recs /\ Names(Recs[3], "STR", "ifName", "i")
  <2>1. CASE prog = "client"
    BY <2>1, ClientRecords DEF Recs
  <2>2. CASE prog = "service"
    BY <2>2, ServiceRecords DEF Recs
  <2> QED  BY <2>1, <2>2 DEF OptInv
<1>2. "ifName" # NoKey /\ "i" # NoKey
  BY DEF NoKey
<1> QED  BY <1>1, <1>2, ValueIs

LEMMA ClientValues ==
    ASSUME OptInv, OptLive, prog = "client"
    PROVE  /\ GetValSkey(opt, "t") = Effective("oneStep") /\ GetValSkey(opt, "t") \in BOOLEAN
           /\ GetValSkey(opt, "s") = Effective("reqStatTLV")
           /\ GetValSkey(opt, "a") = Effective("reqAltTLV")
           /\ IsString(Taken("d"), "serviceAddress")
           /\ GetValSkey(opt, "4") = Effective("ipv4") /\ GetValSkey(opt, "4") \in BOOLEAN
           /\ GetValSkey(opt, "6") = Effective("ipv6") /\ GetValSkey(opt, "6") \in BOOLEAN
           /\ GetValSkey(opt, "n") = Effective("domainNumber") /\ GetValSkey(opt, "n") \in 128..239
<1>1. /\ 6 \in DOMAIN Recs /\ 7 \in DOMAIN Recs /\ 8 \in DOMAIN Recs /\ 9 \in DOMAIN Recs
      /\ 10 \in DOMAIN Recs /\ 11 \in DOMAIN Recs /\ 12 \in DOMAIN Recs
      /\ Names(Recs[6], "BOOL", "oneStep", "t")
      /\ Names(Recs[7], "BOOL", "reqStatTLV", "s")
      /\ Names(Recs[8], "BOOL", "reqAltTLV", "a")
      /\ Names(Recs[9], "STR", "serviceAddress", "d")
      /\ Names(Recs[10], "BOOL", "ipv4", "4")
      /\ Names(Recs[11], "BOOL", "ipv6", "6")
      /\ Names(Recs[12], "INT", "domainNumber", "n")
      /\ Recs[12].def \in 128..239 /\ Recs[12].min = 128 /\ Recs[12].max = 239
  BY ClientRecords DEF Recs
<1>2. \A k \in {"oneStep", "t", "reqStatTLV", "s", "reqAltTLV", "a", "serviceAddress", "d",
                "ipv4", "4", "ipv6", "6", "domainNumber", "n"} : k # NoKey
  BY DEF NoKey
<1>3. GetValSkey(opt, "t") = Effective("oneStep") /\ GetValSkey(opt, "t") \in BOOLEAN
  BY <1>1, <1>2, ValueIs
<1>4. GetValSkey(opt, "s") = Effective("reqStatTLV")
  BY <1>1, <1>2, ValueIs
<1>5. GetValSkey(opt, "a") = Effective("reqAltTLV")
  BY <1>1, <1>2, ValueIs
<1>6. IsString(Taken("d"), "serviceAddress")
  BY <1>1, <1>2, ValueIs
<1>7. GetValSkey(opt, "4") = Effective("ipv4") /\ GetValSkey(opt, "4") \in BOOLEAN
  BY <1>1, <1>2, ValueIs
<1>8. GetValSkey(opt, "6") = Effective("ipv6") /\ GetValSkey(opt, "6") \in BOOLEAN
  BY <1>1, <1>2, ValueIs
<1>9. GetValSkey(opt, "n") = Effective("domainNumber") /\ GetValSkey(opt, "n") \in 128..239
  BY <1>1, <1>2, ValueIs
<1> QED  BY <1>3, <1>4, <1>5, <1>6, <1>7, <1>8, <1>9

LEMMA ServiceValues ==
    ASSUME OptInv, OptLive, prog = "service"
    PROVE  /\ GetValSkey(opt, "r") = Effective("oneStepRx")
           /\ GetValSkey(opt, "t") = Effective("oneStepTx")
           /\ GetValSkey(opt, "6") = Effective("ipv6") /\ GetValSkey(opt, "6") \in BOOLEAN
<1>1. /\ 6 \in DOMAIN Recs /\ 7 \in DOMAIN Recs /\ 13 \in DOMAIN Recs
      /\ Names(Recs[6], "INT", "oneStepRx", "r")
      /\ Names(Recs[7], "INT", "oneStepTx", "t")
      /\ Names(Recs[13], "BOOL", "ipv6", "6")
  BY ServiceRecords DEF Recs
<1>2. \A k \in {"oneStepRx", "r", "oneStepTx", "t", "ipv6", "6"} : k # NoKey
  BY DEF NoKey
<1>3. GetValSkey(opt, "r") = Effective("oneStepRx")
  BY <1>1, <1>2, ValueIs
<1>4. GetValSkey(opt, "t") = Effective("oneStepTx")
  BY <1>1, <1>2, ValueIs
<1>5. GetValSkey(opt, "6") = Effective("ipv6") /\ GetValSkey(opt, "6") \in BOOLEAN
  BY <1>1, <1>2, ValueIs
<1> QED  BY <1>3, <1>4, <1>5

\* The structure: the invariant holds initially and is kept (StructNext).
LEMMA StructInit == Init => StructInv
BY DEF Init, StructInv, CommandLineWins, Working

\* The structure stays.
LEMMA StructKept ==
    ASSUME StructInv, UNCHANGED <<prog, topic, given, opts>>, Working' => Working
    PROVE  StructInv'
<1>1. \A key : Effective(key)' = Effective(key)
  BY EffectiveKept
<1>2. \A taken, key : IsString(taken, key) => IsString(taken, key)'
  BY <1>1 DEF IsString
<1> QED  BY <1>1, <1>2 DEF StructInv, CommandLineWins

\* Before and after its work a program has no structure.
LEMMA StructGone ==
    ASSUME ~Working'
    PROVE  StructInv'
BY DEF StructInv, CommandLineWins

\* The ends of cmd_client and cmd_service make the structure.
LEMMA StructClient ==
    ASSUME OptInv, TakeClient
    PROVE  StructInv'
<1> DEFINE h4 == GetValSkey(opt, "4")
           h6 == GetValSkey(opt, "6")
<1>1. CASE h4 /\ h6
  BY <1>1, StructGone DEF TakeClient, Leave, Working
<1>2. CASE ~(h4 /\ h6)
  <2>1. OptLive /\ prog = "client" /\ UNCHANGED <<prog, topic, given>>
    BY <1>2 DEF TakeClient, Take, OptLive
  <2>2. \A key : Effective(key)' = Effective(key)
    BY <2>1, EffectiveKept
  <2>3. opts' = [type |-> IF h4 THEN "UDP_IPv4" ELSE IF h6 THEN "UDP_IPv6" ELSE "Invalid_PROTO",
                 ifName |-> Taken("i"),
                 useTwoSteps |-> ~GetValSkey(opt, "t"),
                 useCSPTPstatus |-> GetValSkey(opt, "s"),
                 useAltTimeScale |-> GetValSkey(opt, "a"),
                 ip |-> Taken("d"),
                 domainNumber |-> GetValSkey(opt, "n")]
    BY <1>2 DEF TakeClient, Take
  <2>4. /\ opts'.type = IF h4 THEN "UDP_IPv4" ELSE IF h6 THEN "UDP_IPv6" ELSE "Invalid_PROTO"
        /\ opts'.ifName = Taken("i")
        /\ opts'.useTwoSteps = ~GetValSkey(opt, "t")
        /\ opts'.useCSPTPstatus = GetValSkey(opt, "s")
        /\ opts'.useAltTimeScale = GetValSkey(opt, "a")
        /\ opts'.ip = Taken("d")
        /\ opts'.domainNumber = GetValSkey(opt, "n")
    BY <2>3, Zenon
  <2>5. h4 = Effective("ipv4") /\ h4 \in BOOLEAN /\ h6 = Effective("ipv6") /\ h6 \in BOOLEAN
    BY <2>1, ClientValues
  <2>6. /\ opts'.useTwoSteps = ~Effective("oneStep")'
        /\ opts'.useCSPTPstatus = Effective("reqStatTLV")'
        /\ opts'.useAltTimeScale = Effective("reqAltTLV")'
        /\ opts'.domainNumber = Effective("domainNumber")' /\ opts'.domainNumber \in 128..239
    BY <2>1, <2>2, <2>4, ClientValues, Zenon
  <2>7. IsString(opts.ip, "serviceAddress")' /\ IsString(opts.ifName, "ifName")'
    <3>1. IsString(Taken("d"), "serviceAddress") /\ IsString(Taken("i"), "ifName")
      BY <2>1, ClientValues, NameValue
    <3> QED  BY <2>1, <2>2, <2>4, <3>1 DEF IsString
  <2> HIDE DEF h4, h6
  <2>8. opts'.type = CASE Effective("ipv4")' -> "UDP_IPv4"
                       [] Effective("ipv6")' -> "UDP_IPv6"
                       [] OTHER -> "Invalid_PROTO"
    <3>1. CASE h4
      BY <3>1, <2>2, <2>4, <2>5, <1>2
    <3>2. CASE ~h4
      BY <3>2, <2>2, <2>4, <2>5
    <3> QED  BY <3>1, <3>2
  <2>9. ~(Effective("ipv4")' /\ Effective("ipv6")')
    BY <1>2, <2>2, <2>5
  <2> QED  BY <2>1, <2>6, <2>7, <2>8, <2>9 DEF StructInv, CommandLineWins
<1> QED  BY <1>1, <1>2

LEMMA StructService ==
    ASSUME OptInv, TakeService
    PROVE  StructInv'
<1>1. OptLive /\ prog = "service" /\ UNCHANGED <<prog, topic, given>>
  BY DEF TakeService, Take, OptLive
<1>2. \A key : Effective(key)' = Effective(key)
  BY <1>1, EffectiveKept
<1>3. /\ opts'.type = IF GetValSkey(opt, "6") THEN "UDP_IPv6" ELSE "UDP_IPv4"
      /\ opts'.ifName = Taken("i")
      /\ opts'.useRxTwoSteps = (GetValSkey(opt, "r") = 2)
      /\ opts'.useTxTwoSteps = (GetValSkey(opt, "t") = 2)
  BY Zenon DEF TakeService, Take
<1>4. /\ opts'.useRxTwoSteps = (Effective("oneStepRx")' = 2)
      /\ opts'.useTxTwoSteps = (Effective("oneStepTx")' = 2)
      /\ opts'.type = IF Effective("ipv6")' THEN "UDP_IPv6" ELSE "UDP_IPv4"
  BY <1>1, <1>2, <1>3, ServiceValues, Zenon
<1>5. IsString(opts.ifName, "ifName")'
  BY <1>1, <1>2, <1>3, NameValue DEF IsString
<1> QED  BY <1>1, <1>4, <1>5 DEF StructInv, CommandLineWins

LEMMA StructNext ==
    ASSUME OptInv, StructInv, [Next]_vars
    PROVE  StructInv'
<1> USE DEF Working
<1>1. CASE CmdBase \/ ArgMessage \/ ArgOption \/ ArgWrong \/ ArgsEnd
  BY <1>1, StructGone DEF CmdBase, ArgMessage, ArgOption, ArgWrong, ArgsEnd, Leave
<1>2. CASE OpenFile \/ Line \/ LinesEnd
  BY <1>2, StructGone DEF OpenFile, Line, LinesEnd
<1>3. CASE TakeClient
  BY <1>3, StructClient
<1>4. CASE TakeService
  BY <1>4, StructService
<1>5. CASE AllocFails \/ AllocAddress \/ AllocRxAddress \/ AllocServiceAddress \/ AllocSocket \/ AllocObject
  BY <1>5, StructKept DEF AllocFails, AllocAddress, AllocRxAddress, AllocServiceAddress, AllocSocket, AllocObject,
                          Allocated, optVars
<1>6. CASE Capture \/ Receive \/ Fail \/ Interrupt
  BY <1>6, StructKept DEF Capture, Receive, Fail, Interrupt, CleanUp, optVars
<1>7. CASE UNCHANGED vars
  BY <1>7, StructKept DEF vars, optVars
<1> QED  BY <1>1, <1>2, <1>3, <1>4, <1>5, <1>6, <1>7 DEF Next

-----------------------------------------------------------------------------
(* The log.                                                                *)

\* The fields of the log.
LEMMA LogFields ==
    ASSUME NEW l, NEW level, NEW echo, NEW sys, NEW open,
           l = [level |-> level, echo |-> echo, sys |-> sys, open |-> open]
    PROVE  /\ l.level = level /\ l.echo = echo /\ l.sys = sys /\ l.open = open
           /\ l = [level |-> l.level, echo |-> l.echo, sys |-> l.sys, open |-> l.open]
OBVIOUS

\* The log: the invariant holds initially and is kept (LogNext).
LEMMA LogInit == Init => LogInv
<1> SUFFICES ASSUME Init PROVE LogInv
  OBVIOUS
<1>1. log = [level |-> 7, echo |-> TRUE, sys |-> FALSE, open |-> FALSE] /\ phase = "main"
  BY DEF Init, LogDebug
<1>2. log.level = 7 /\ log.echo = TRUE /\ log.sys = FALSE /\ log.open = FALSE
  BY <1>1, Zenon
<1> QED  BY <1>1, <1>2 DEF LogInv, Working

\* setLog, from any of its calls.
LEMMA LogSet ==
    ASSUME OptInv, OptLive, LogInv, phase \in {"args", "lines"}, log' = SetLog(log, opt),
           phase' \in {"take", "open"}, UNCHANGED <<prog, topic, given>>
    PROVE  LogInv'
<1>y. PICK y : y = GetValSkey(opt, "y")
  OBVIOUS
<1>1. /\ log.open = log.sys /\ log.sys \in BOOLEAN /\ log.open \in BOOLEAN
  BY DEF LogInv, Ended
<1>2. y = Effective("skip_syslog") /\ y \in BOOLEAN
  BY <1>y, LogValues
<1>s. PICK s \in BOOLEAN : s = ~y
  BY <1>2
<1>o. PICK o : o = IF s = log.sys THEN log.open ELSE s
  OBVIOUS
<1>3. o = s
  BY <1>1, <1>o
<1>4. log' = [level |-> GetValSkey(opt, "l"), echo |-> GetValSkey(opt, "e"), sys |-> s, open |-> o]
  BY <1>y, <1>s, <1>o DEF SetLog
<1>5. /\ log'.level = GetValSkey(opt, "l") /\ log'.echo = GetValSkey(opt, "e") /\ log'.sys = s /\ log'.open = o
      /\ log' = [level |-> log'.level, echo |-> log'.echo, sys |-> log'.sys, open |-> log'.open]
  BY <1>4, LogFields
<1>6. \A key : Effective(key)' = Effective(key)
  BY EffectiveKept
<1> QED  BY <1>2, <1>s, <1>3, <1>5, <1>6, LogValues DEF LogInv

\* The log stays.
LEMMA LogKept ==
    ASSUME LogInv, UNCHANGED <<prog, topic, given, log>>,
           phase' = "take" \/ Working' => phase = "take" \/ Working,
           Ended => Ended'
    PROVE  LogInv'
<1>1. \A key : Effective(key)' = Effective(key)
  BY EffectiveKept
<1> QED  BY <1>1 DEF LogInv

\* Options that are read before the log is set.
LEMMA LogWaits ==
    ASSUME LogInv, log' = log, phase \in {"args", "lines"}, phase' = phase
    PROVE  LogInv'
BY DEF LogInv, Working, Ended

\* The end of the program closes syslog.
LEMMA LogClosed ==
    ASSUME LogInv, phase' \in {"success", "failure"},
           log' = [log EXCEPT !.open = IF log.sys THEN FALSE ELSE @]
    PROVE  LogInv'
<1>o. PICK o : o = IF log.sys THEN FALSE ELSE log.open
  OBVIOUS
<1>b. o \in BOOLEAN
  BY <1>o DEF LogInv
<1>f. PICK level, echo, sys : level = log.level /\ echo = log.echo /\ sys = log.sys
  OBVIOUS
<1>n. PICK new : new = log'
  OBVIOUS
<1>1. new = [level |-> level, echo |-> echo, sys |-> sys, open |-> o]
  BY <1>o, <1>f, <1>n DEF LogInv
<1>2. /\ new.level = level /\ new.echo = echo /\ new.sys = sys /\ new.open = o
      /\ new = [level |-> new.level, echo |-> new.echo, sys |-> new.sys, open |-> new.open]
  BY <1>1, LogFields
<1> QED  BY <1>f, <1>b, <1>n, <1>2 DEF LogInv, Working, Ended

LEMMA LogNext ==
    ASSUME OptInv, LogInv, [Next]_vars
    PROVE  LogInv'
<1>1. CASE CmdBase \/ ArgMessage \/ ArgWrong
  BY <1>1, LogKept DEF CmdBase, ArgMessage, ArgWrong, Leave, optVars, Working, Ended
<1>2. CASE ArgOption
  BY <1>2, LogWaits DEF ArgOption
<1>3. CASE ArgsEnd
  BY <1>3, LogSet DEF ArgsEnd, OptLive, optVars
<1>4. CASE OpenFile
  BY <1>4, LogKept DEF OpenFile, Working, Ended
<1>5. CASE Line
  <2>1. phase = "lines" /\ phase' \in {"lines", "failure"} /\ UNCHANGED <<prog, topic, log>>
        /\ (phase' = "failure" => given' = given)
    BY <1>5 DEF Line
  <2> QED  BY <2>1, LogWaits, LogKept DEF Working, Ended
<1>6. CASE LinesEnd
  BY <1>6, LogSet DEF LinesEnd, OptLive, optVars
<1>7. CASE TakeClient
  BY <1>7, LogKept DEF TakeClient, Take, Leave, Working, Ended, optVars
<1>8. CASE TakeService
  BY <1>8, LogKept DEF TakeService, Take, Working, Ended, optVars
<1>9. CASE AllocFails \/ AllocAddress \/ AllocRxAddress \/ AllocServiceAddress \/ AllocSocket \/ AllocObject
  BY <1>9, LogKept DEF AllocFails, AllocAddress, AllocRxAddress, AllocServiceAddress, AllocSocket, AllocObject,
                       Allocated, optVars, Working, Ended
<1>10. CASE Capture \/ Receive
  BY <1>10, LogKept DEF Capture, Receive, optVars, Working, Ended
<1>11. CASE Fail \/ Interrupt
  BY <1>11, LogClosed DEF Fail, Interrupt, CleanUp
<1>12. CASE UNCHANGED vars
  BY <1>12, LogKept DEF vars, optVars, Working, Ended
<1> QED  BY <1>1, <1>2, <1>3, <1>4, <1>5, <1>6, <1>7, <1>8, <1>9, <1>10, <1>11, <1>12 DEF Next

-----------------------------------------------------------------------------
(* Descriptors and addresses.                                              *)

\* s_init and s_initSrv take the lowest descriptor, for the address's family.
LEMMA SocketAllocated ==
    ASSUME prog \in {"client", "service"}, StageInv, FdInv, AddrInv, AllocSocket
    PROVE  /\ "socket" \notin st /\ st' = st \union {"socket"} /\ addr.type \in Protocols
           /\ sock'.fd = 0 /\ sock'.type = addr.type
           /\ DOMAIN fds' = Fds /\ fds'[0].kind = "udp" /\ fds'[0].fam = addr.type
           /\ \A n \in Fds \ {0} : fds'[n] = Free
<1>1. phase = "alloc" /\ NextObject = "socket" /\ st' = st \union {NextObject}
  BY DEF AllocSocket, Allocated
<1>2. "socket" \notin st /\ "address" \in st
  BY <1>1, Before, NextIsNew
<1>3. addr.type \in Protocols /\ addr # NoAddr /\ (prog = "client" => type = addr.type)
  BY <1>2 DEF AddrInv, IsAddr, NoAddr, Protocols
<1>4. DOMAIN fds = Fds /\ \A n \in Fds : fds[n] = Free
  BY <1>1, <1>2 DEF FdInv
<1>5. NextFd(fds) = 0 /\ ~Full(fds) /\ 0 \in Fds
  BY <1>4, FirstFd
<1>t. PICK t : t = addr.type
  OBVIOUS
<1>6. \E w : /\ w.kind = "udp" /\ w.fam = t
             /\ sock' = [fd |-> 0, type |-> t] /\ fds' = [fds EXCEPT ![0] = w]
  <2>1. CASE prog = "client"
    <3>1. PICK calls \in 0..3 : /\ SockInit(SockAlloc, type, fds, calls).ok
                                /\ sock' = SockInit(SockAlloc, type, fds, calls).sock
                                /\ fds' = SockInit(SockAlloc, type, fds, calls).fds
      BY <2>1 DEF AllocSocket
    <3>2. /\ sock' = [fd |-> 0, type |-> t] /\ fds' = Open(fds, Udp(t))
      BY <1>3, <1>5, <1>t, <2>1, <3>1 DEF SockInit, Refused
    <3>3. Udp(t).kind = "udp" /\ Udp(t).fam = t
      BY DEF Udp
    <3> QED  BY <1>5, <3>2, <3>3 DEF Open
  <2>2. CASE prog = "service"
    <3>1. PICK calls \in 0..3 : /\ SockInitSrv(SockAlloc, addr, fds, calls).ok
                                /\ sock' = SockInitSrv(SockAlloc, addr, fds, calls).sock
                                /\ fds' = SockInitSrv(SockAlloc, addr, fds, calls).fds
      BY <2>2 DEF AllocSocket
    <3>w. PICK w : w = [Udp(t) EXCEPT !.bound = (calls = 3)]
      OBVIOUS
    <3>2. /\ sock' = [fd |-> 0, type |-> t] /\ fds' = Open(fds, w)
      BY <1>5, <1>t, <3>1, <3>w DEF SockInitSrv, Refused
    <3>3. w.kind = "udp" /\ w.fam = t
      BY <3>w DEF Udp
    <3> QED  BY <1>5, <3>2, <3>3 DEF Open
  <2> QED  BY <2>1, <2>2
<1> QED  BY <1>1, <1>2, <1>3, <1>4, <1>5, <1>6, <1>t

\* The end of the program closes the socket.
LEMMA FdClean ==
    ASSUME FdInv, Working, phase' \in {"success", "failure"},
           fds' = IF "socket" \in st THEN SockClose(sock, fds).fds ELSE fds
    PROVE  FdInv'
<1>1. DOMAIN fds' = Fds /\ \A n \in Fds : fds'[n] = Free
  <2>1. CASE "socket" \in st
    <3>1. /\ sock.fd = 0 /\ DOMAIN fds = Fds
          /\ \A n \in Fds \ {0} : fds[n] = Free
      BY <2>1 DEF FdInv
    <3>2. fds' = [fds EXCEPT ![0] = Free]
      BY <2>1, <3>1 DEF SockClose, Close
    <3> QED  BY <3>1, <3>2
  <2>2. CASE "socket" \notin st
    BY <2>2 DEF FdInv, Working
  <2> QED  BY <2>1, <2>2
<1> QED  BY <1>1 DEF FdInv, Working

LEMMA FdNext ==
    ASSUME prog \in {"client", "service"}, StageInv, FdInv, AddrInv, [Next]_vars
    PROVE  FdInv'
<1>0. ~Working /\ ~Ended => "socket" \notin st
  BY DEF StageInv
<1> USE DEF Working, Ended
<1>1. CASE CmdBase \/ ArgMessage \/ ArgOption \/ ArgWrong \/ ArgsEnd
  BY <1>0, <1>1, FdKept DEF CmdBase, ArgMessage, ArgOption, ArgWrong, ArgsEnd, Leave, stVars
<1>2. CASE OpenFile
  BY <1>0, <1>2, FdKept, FileOpened DEF OpenFile, stVars
<1>3. CASE Line
  <2>1. /\ phase = "lines" /\ UNCHANGED <<st, sock>>
        /\ \/ phase' = "lines" /\ fds' = fds
           \/ phase' = "failure" /\ CloseFile
    BY <1>3 DEF Line, stVars
  <2> QED  BY <1>0, <2>1, FdKept, FileClosed
<1>4. CASE LinesEnd
  BY <1>0, <1>4, FileClosed DEF LinesEnd, stVars
<1>5. CASE TakeClient
  BY <1>0, <1>5, FdKept DEF TakeClient, Take, Leave, stVars
<1>6. CASE TakeService
  BY <1>0, <1>6, FdKept DEF TakeService, Take, stVars
<1>7. CASE AllocFails
  BY <1>7, FdKept DEF AllocFails, stVars
<1>8. CASE AllocAddress \/ AllocRxAddress \/ AllocServiceAddress \/ AllocObject
  <2>1. phase = "alloc" /\ NextObject # "socket" /\ UNCHANGED <<sock, fds>>
        /\ phase' \in {"alloc", "signal"} /\ st' = st \union {NextObject}
    BY <1>8 DEF AllocAddress, AllocRxAddress, AllocServiceAddress, AllocObject, Allocated
  <2> QED  BY <2>1 DEF FdInv
<1>9. CASE AllocSocket
  <2>1. phase' \in {"alloc", "signal"} /\ phase = "alloc"
    BY <1>9 DEF AllocSocket, Allocated
  <2> QED  BY <1>9, <2>1, SocketAllocated DEF FdInv
<1>10. CASE Capture \/ Receive
  BY <1>10, FdKept DEF Capture, Receive, stVars
<1>11. CASE Fail \/ Interrupt
  BY <1>11, FdClean DEF Fail, Interrupt, CleanUp
<1>12. CASE UNCHANGED vars
  BY <1>12, FdKept DEF vars, stVars
<1> QED  BY <1>1, <1>2, <1>3, <1>4, <1>5, <1>6, <1>7, <1>8, <1>9, <1>10, <1>11, <1>12 DEF Next

\* Addresses that are made.
LEMMA AddrMade ==
    ASSUME NEW t \in Protocols, NEW h, NEW p, NEW s, s \in BOOLEAN,
           NEW a, a = [type |-> t, fam |-> t, host |-> h, port |-> p, str |-> s]
    PROVE  IsAddr(a, t) /\ a.type = t /\ a.fam = t /\ a.str = s
<1>1. a.type = t /\ a.fam = t /\ a.host = h /\ a.port = p /\ a.str = s
  OBVIOUS
<1> QED  BY <1>1 DEF IsAddr

\* An address is allocated.
LEMMA AddrAllocated ==
    ASSUME NEW t \in Protocols, NEW a, a = AddrAlloc(t)
    PROVE  IsAddr(a, t) /\ a.type = t /\ a.str = FALSE
<1>s. PICK s : s = FALSE
  OBVIOUS
<1>b. s \in BOOLEAN
  BY <1>s
<1>1. a = [type |-> t, fam |-> t, host |-> "any", port |-> PtpUdpPort, str |-> s]
  BY <1>s DEF AddrAlloc
<1> QED  BY <1>s, <1>b, <1>1, AddrMade

\* Its host changes, as setIP does it.
LEMMA AddrHost ==
    ASSUME NEW t, NEW a, IsAddr(a, t), NEW h, NEW b, b = SetIP(a, t, h).addr
    PROVE  IsAddr(b, t) /\ b.type = t /\ b.str = a.str
<1>1. a.type = t /\ t \in Protocols /\ a.str \in BOOLEAN
  BY DEF IsAddr
<1>r. PICK p, s : p = a.port /\ s = a.str
  OBVIOUS
<1>2. b = [a EXCEPT !.host = h]
  BY <1>1 DEF SetIP
<1>3. b = [type |-> t, fam |-> t, host |-> h, port |-> p, str |-> s]
  BY <1>2, <1>r DEF IsAddr
<1> QED  BY <1>1, <1>r, <1>3, AddrMade

\* Its printed form is asked for.
LEMMA AddrPrinted ==
    ASSUME NEW t, NEW a, IsAddr(a, t), NEW b, b = GetIPStr(a, a.type)
    PROVE  IsAddr(b, t) /\ b.type = t
<1>1. a.type = t /\ t \in Protocols
  BY DEF IsAddr
<1>s. PICK s : s = TRUE
  OBVIOUS
<1>b. s \in BOOLEAN
  BY <1>s
<1>r. PICK h, p : h = a.host /\ p = a.port
  OBVIOUS
<1>2. b = [a EXCEPT !.str = s]
  BY <1>s DEF GetIPStr
<1>3. b = [type |-> t, fam |-> t, host |-> h, port |-> p, str |-> s]
  BY <1>2, <1>r DEF IsAddr
<1> QED  BY <1>1, <1>b, <1>3, AddrMade

\* s_recv fills it with an address of its own family.
LEMMA AddrReceived ==
    ASSUME NEW t, NEW a, IsAddr(a, t), NEW h, NEW p, NEW e, NEW b, b = SockRecv(a, t, h, p, e).addr
    PROVE  IsAddr(b, t) /\ b.type = a.type /\ b.str = a.str
<1>1. a.type = t /\ t \in Protocols /\ a.str \in BOOLEAN
  BY DEF IsAddr
<1>2. AddrSize(a) = SockaddrSize(t)
  BY <1>1 DEF AddrSize
<1>s. PICK host, port, s : host = a.host /\ port = a.port /\ s = a.str
  OBVIOUS
<1>a. a = [type |-> t, fam |-> t, host |-> host, port |-> port, str |-> s]
  BY <1>s DEF IsAddr
<1>3. b = [a EXCEPT !.fam = t, !.port = p, !.host = h]
  BY <1>2 DEF SockRecv
<1>4. b = [type |-> t, fam |-> t, host |-> h, port |-> p, str |-> s]
  BY <1>a, <1>3
<1> QED  BY <1>1, <1>s, <1>4, AddrMade

\* What a text is found to be the address of: an IP address, of the type that
\* was asked for.
LEMMA FoundType ==
    ASSUME NEW text, NEW want, NEW lookup \in Lookups(want),
           NEW f, f = AddressStringToBinary(text, want, lookup), f.ok
    PROVE  f.type \in Protocols /\ (want \in Protocols => f.type = want)
<1> DEFINE I == {i \in 1..Len(lookup) : lookup[i].fam \in Protocols}
<1> DEFINE first == IF I # {} THEN Min(I) ELSE 0
<1>1. SelectInSeq(lookup, LAMBDA r : r.fam \in Protocols) = first
  BY DEF SelectInSeq
<1>2. CASE Numeric(text, want)
  <2>1. f = [ok |-> TRUE, type |-> text.form, host |-> text.host]
    BY <1>2 DEF AddressStringToBinary
  <2>2. f.type = text.form
    <3>1. PICK ok : ok = TRUE
      OBVIOUS
    <3>2. f = [ok |-> ok, type |-> text.form, host |-> text.host]
      BY <2>1, <3>1
    <3> QED  BY <3>2
  <2> QED  BY <1>2, <2>2 DEF Numeric, Protocols
<1>3. CASE ~Numeric(text, want) /\ (first = 0 \/ lookup[first].host = "any")
  <2>1. f = NotFound(want)
    BY <1>1, <1>3 DEF AddressStringToBinary
  <2>2. f.ok = FALSE
    <3>1. PICK ok : ok = FALSE
      OBVIOUS
    <3>2. f = [ok |-> ok, type |-> want, host |-> "NULL"]
      BY <2>1, <3>1 DEF NotFound
    <3>3. f.ok = ok
      BY <3>2
    <3> QED  BY <3>1, <3>3
  <2> QED  BY <2>2
<1>4. CASE ~Numeric(text, want) /\ first # 0 /\ lookup[first].host # "any"
  <2>1. f = [ok |-> TRUE, type |-> lookup[first].fam, host |-> lookup[first].host]
    BY <1>1, <1>4 DEF AddressStringToBinary
  <2>2. f.type = lookup[first].fam
    <3>1. PICK ok : ok = TRUE
      OBVIOUS
    <3>2. f = [ok |-> ok, type |-> lookup[first].fam, host |-> lookup[first].host]
      BY <2>1, <3>1
    <3> QED  BY <3>2
  <2>3. /\ Len(lookup) \in 0..2
        /\ want \in Protocols => \A i \in 1..Len(lookup) : lookup[i].fam = want
    BY DEF Lookups
  <2>4. I \subseteq {1, 2} /\ I # {}
    BY <1>4, <2>3
  <2>5. Min(I) \in I
    <3>1. \E x \in I : \A y \in I : x <= y
      BY <2>4
    <3> QED  BY <3>1 DEF Min
  <2> QED  BY <2>2, <2>3, <2>4, <2>5
<1> QED  BY <1>2, <1>3, <1>4

\* The programs run with all their objects.
LEMMA AllThere ==
    ASSUME prog \in {"client", "service"}, StageInv, phase = "run"
    PROVE  /\ "address" \in st /\ "socket" \in st
           /\ prog = "client" => "RxAddress" \in st
<1> DEFINE n == Cardinality(st)
<1>1. n = Len(Stages) /\ st = {Stages[i] : i \in 1..n}
  BY DEF StageInv
<1> HIDE DEF n
<1>2. CASE prog = "client"
  <2>1. n = 10 /\ Stages[1] = "address" /\ Stages[2] = "RxAddress" /\ Stages[3] = "socket"
    BY <1>1, <1>2, StagesList, Zenon
  <2>2. 1 \in 1..n /\ 2 \in 1..n /\ 3 \in 1..n
    BY <2>1
  <2> QED  BY <1>1, <2>1, <2>2
<1>3. CASE prog = "service"
  <2>1. n = 6 /\ Stages[1] = "address" /\ Stages[2] = "socket"
    BY <1>1, <1>3, StagesList
  <2>2. 1 \in 1..n /\ 2 \in 1..n
    BY <2>1
  <2> QED  BY <1>1, <1>3, <2>1, <2>2
<1> QED  BY <1>2, <1>3

\* The addresses: the invariant holds initially and is kept (AddrNext).
LEMMA AddrInit == Init => AddrInv
BY DEF Init, AddrInv, Working

\* The addresses stay.
LEMMA AddrKept ==
    ASSUME AddrInv, UNCHANGED <<prog, stVars>>,
           Working' /\ "address" \in st => Working /\ opts' = opts
    PROVE  AddrInv'
BY DEF AddrInv, stVars, IsAddr

\* client_main_create_address: the type is the one asked for, if any was.
LEMMA AddrOfClient ==
    ASSUME StageInv, AddrInv, AllocAddress
    PROVE  AddrInv'
<1>1. /\ phase = "alloc" /\ prog = "client" /\ NextObject = "address" /\ prog' = prog /\ opts' = opts
      /\ st' = st \union {"address"} /\ UNCHANGED <<rxAddr, sock>>
  BY DEF AllocAddress, Allocated
<1>2. st = {}
  BY <1>1, Before
<1>3. PICK text \in IF opts.ip.freed THEN HostTexts ELSE {opts.ip.text} \ {Null, Empty} :
       \E lookup \in Lookups(opts.type), str \in BOOLEAN :
         LET found == AddressStringToBinary(text, opts.type, lookup)
             a     == SetIP(AddrAlloc(found.type), found.type, found.host).addr
         IN  /\ found.ok
             /\ type' = found.type
             /\ addr' = IF log.level = LogDebug /\ str THEN GetIPStr(a, a.type) ELSE a
             /\ heap' = Malloc(heap, {"address"} \union {b \in {"addressStr"} : addr'.str})
  BY Zenon DEF AllocAddress
<1>4. PICK lookup \in Lookups(opts.type), str \in BOOLEAN :
         LET found == AddressStringToBinary(text, opts.type, lookup)
             a     == SetIP(AddrAlloc(found.type), found.type, found.host).addr
         IN  /\ found.ok
             /\ type' = found.type
             /\ addr' = IF log.level = LogDebug /\ str THEN GetIPStr(a, a.type) ELSE a
             /\ heap' = Malloc(heap, {"address"} \union {b \in {"addressStr"} : addr'.str})
  BY <1>3, Zenon
<1>f. PICK found : found = AddressStringToBinary(text, opts.type, lookup)
  OBVIOUS
<1>a. PICK fresh : fresh = AddrAlloc(found.type)
  OBVIOUS
<1>b. PICK a : a = SetIP(fresh, found.type, found.host).addr
  OBVIOUS
<1>5. found.ok /\ type' = found.type /\ (addr' = a \/ addr' = GetIPStr(a, a.type))
  BY <1>4, <1>f, <1>a, <1>b
<1>6. found.type \in Protocols /\ (opts.type \in Protocols => found.type = opts.type)
  BY <1>f, <1>5, FoundType
<1>7. IsAddr(a, found.type) /\ a.type = found.type
  <2>1. IsAddr(fresh, found.type)
    BY <1>a, <1>6, AddrAllocated
  <2> QED  BY <1>b, <2>1, AddrHost
<1>8. IsAddr(addr', found.type) /\ addr'.type = found.type
  BY <1>5, <1>7, AddrPrinted
<1>9. IsAddr(addr, addr.type)'
  BY <1>8 DEF IsAddr
<1> QED  BY <1>1, <1>2, <1>5, <1>6, <1>8, <1>9 DEF AddrInv

\* The service's address is of the type its options give.
LEMMA AddrOfService ==
    ASSUME StageInv, AddrInv, StructInv, AllocServiceAddress
    PROVE  AddrInv'
<1>1. /\ phase = "alloc" /\ prog = "service" /\ NextObject = "address" /\ prog' = prog /\ opts' = opts
      /\ st' = st \union {"address"} /\ UNCHANGED <<type, rxAddr, sock>> /\ addr' = AddrAlloc(opts.type)
  BY DEF AllocServiceAddress, Allocated
<1>2. st = {}
  BY <1>1, Before
<1>3. opts.type \in Protocols
  BY <1>1 DEF StructInv, CommandLineWins, Working, Protocols
<1>4. IsAddr(addr', opts.type) /\ addr'.type = opts.type
  BY <1>1, <1>3, AddrAllocated
<1>5. IsAddr(addr, addr.type)'
  BY <1>4 DEF IsAddr
<1> QED  BY <1>1, <1>2, <1>4, <1>5 DEF AddrInv

\* The address of the sender is made for the client's type.
LEMMA AddrOfSender ==
    ASSUME prog \in {"client", "service"}, StageInv, AddrInv, AllocRxAddress
    PROVE  AddrInv'
<1>1. /\ phase = "alloc" /\ NextObject = "RxAddress" /\ prog' = prog /\ opts' = opts
      /\ st' = st \union {"RxAddress"} /\ UNCHANGED <<type, addr, sock>> /\ rxAddr' = AddrAlloc(type)
  BY DEF AllocRxAddress, Allocated
<1>2. prog = "client" /\ "address" \in st
  BY <1>1, Before
<1>3. type \in Protocols
  BY <1>2 DEF AddrInv, IsAddr
<1>4. IsAddr(rxAddr', type')
  BY <1>1, <1>3, AddrAllocated
<1>5. IsAddr(rxAddr, type)'
  BY <1>4 DEF IsAddr
<1>6. IsAddr(addr, addr.type)'
  BY <1>1, <1>2 DEF AddrInv, IsAddr
<1>7. Working
  BY <1>1 DEF Working
<1> QED  BY <1>1, <1>2, <1>5, <1>6, <1>7 DEF AddrInv

\* The socket is of the address's family.
LEMMA AddrOfSocket ==
    ASSUME prog \in {"client", "service"}, StageInv, FdInv, AddrInv, AllocSocket
    PROVE  AddrInv'
<1>1. /\ phase = "alloc" /\ NextObject = "socket" /\ prog' = prog /\ opts' = opts
      /\ st' = st \union {"socket"} /\ UNCHANGED <<type, addr, rxAddr>>
  BY DEF AllocSocket, Allocated
<1>2. "address" \in st /\ sock'.fd = 0 /\ sock'.type = addr.type
  BY <1>1, Before, SocketAllocated
<1>3. Working
  BY <1>1 DEF Working
<1> QED  BY <1>1, <1>2, <1>3 DEF AddrInv, IsAddr

\* A datagram's sender is of the socket's family. The address keeps its buffer.
LEMMA AddrOfDatagram ==
    ASSUME prog \in {"client", "service"}, StageInv, FdInv, AddrInv, Receive
    PROVE  AddrInv' /\ addr'.str = addr.str
<1>1. /\ phase = "run" /\ UNCHANGED <<prog, phase, opts, type, st, sock>>
  BY DEF Receive
<1>2. /\ "address" \in st /\ "socket" \in st
      /\ prog = "client" => "RxAddress" \in st
  BY <1>1, AllThere
<1>3. sock.fd = 0 /\ fds[sock.fd].fam = addr.type /\ IsAddr(addr, addr.type)
  BY <1>1, <1>2 DEF FdInv, AddrInv, Working
<1>4. CASE prog = "client"
  <2>1. IsAddr(rxAddr, type) /\ type = addr.type /\ addr' = addr
    BY <1>2, <1>4 DEF AddrInv, Receive
  <2>2. PICK host \in Hosts, empty \in BOOLEAN :
           rxAddr' = SockRecv(rxAddr, fds[sock.fd].fam, host, PtpUdpPort, empty).addr
    BY <1>4 DEF Receive
  <2>3. IsAddr(rxAddr', type')
    BY <1>1, <1>3, <2>1, <2>2, AddrReceived
  <2>4. IsAddr(rxAddr, type)'
    BY <2>3 DEF IsAddr
  <2>5. IsAddr(addr, addr.type)'
    BY <1>3, <2>1 DEF IsAddr
  <2>6. Working
    BY <1>1 DEF Working
  <2>7. sock.fd = 0 /\ sock.type = addr.type
    BY <1>2 DEF AddrInv
  <2>8. opts.type \in Protocols => addr.type = opts.type
    BY <1>2, <2>6 DEF AddrInv
  <2> QED  BY <1>1, <1>2, <1>4, <2>1, <2>4, <2>5, <2>7, <2>8 DEF AddrInv
<1>5. CASE prog = "service"
  <2>1. rxAddr' = rxAddr
    BY <1>5 DEF Receive
  <2>2. PICK host \in Hosts, empty \in BOOLEAN :
           addr' = SockRecv(addr, fds[sock.fd].fam, host, PtpUdpPort, empty).addr
    BY <1>5 DEF Receive
  <2>3. IsAddr(addr', addr.type) /\ addr'.type = addr.type /\ addr'.str = addr.str
    BY <1>3, <2>2, AddrReceived
  <2>4. IsAddr(addr, addr.type)'
    BY <2>3 DEF IsAddr
  <2>5. Working
    BY <1>1 DEF Working
  <2>6. (IF "RxAddress" \in st THEN IsAddr(rxAddr, type) ELSE rxAddr = NoAddr)'
    BY <1>1, <2>1 DEF AddrInv, IsAddr
  <2>7. sock.fd = 0 /\ sock.type = addr.type
    BY <1>2 DEF AddrInv
  <2>8. opts.type \in Protocols => addr.type = opts.type
    BY <1>2, <2>5 DEF AddrInv
  <2>9. prog = "service" => type = "none"
    BY DEF AddrInv
  <2> QED  BY <1>1, <1>2, <1>5, <2>3, <2>4, <2>6, <2>7, <2>8, <2>9 DEF AddrInv
<1> QED  BY <1>4, <1>5

LEMMA AddrNext ==
    ASSUME prog \in {"client", "service"}, StageInv, StructInv, FdInv, AddrInv, [Next]_vars
    PROVE  AddrInv'
<1>0. ~Working /\ ~Ended => "address" \notin st
  BY DEF StageInv
<1> USE DEF Working, Ended
<1>1. CASE CmdBase \/ ArgMessage \/ ArgOption \/ ArgWrong \/ ArgsEnd
  BY <1>1, AddrKept DEF CmdBase, ArgMessage, ArgOption, ArgWrong, ArgsEnd, Leave
<1>2. CASE OpenFile \/ LinesEnd
  BY <1>2, AddrKept DEF OpenFile, LinesEnd
<1>3. CASE Line
  <2>1. phase = "lines" /\ UNCHANGED <<prog, stVars>> /\ phase' \in {"lines", "failure"}
    BY <1>3 DEF Line
  <2> QED  BY <2>1, AddrKept
<1>4. CASE TakeClient
  BY <1>0, <1>4, AddrKept DEF TakeClient, Take, Leave
<1>5. CASE TakeService
  BY <1>0, <1>5, AddrKept DEF TakeService, Take
<1>6. CASE AllocFails
  BY <1>6, AddrKept DEF AllocFails
<1>7. CASE AllocAddress
  BY <1>7, AddrOfClient
<1>8. CASE AllocServiceAddress
  BY <1>8, AddrOfService
<1>9. CASE AllocRxAddress
  BY <1>9, AddrOfSender
<1>10. CASE AllocSocket
  BY <1>10, AddrOfSocket
<1>11. CASE AllocObject
  <2>1. /\ phase = "alloc" /\ NextObject \notin {"address", "RxAddress", "socket"}
        /\ UNCHANGED <<prog, opts, type, addr, rxAddr, sock>> /\ st' = st \union {NextObject}
    BY <1>11 DEF AllocObject, Allocated
  <2>2. \A o \in {"address", "RxAddress", "socket"} : o \in st' <=> o \in st
    BY <2>1
  <2> QED  BY <2>1, <2>2 DEF AddrInv, IsAddr
<1>12. CASE Receive
  BY <1>12, AddrOfDatagram
<1>13. CASE Capture
  BY <1>13, AddrKept DEF Capture
<1>14. CASE Fail \/ Interrupt
  BY <1>14, AddrKept DEF Fail, Interrupt, CleanUp
<1>15. CASE UNCHANGED vars
  BY <1>15, AddrKept DEF vars
<1> QED  BY <1>1, <1>2, <1>3, <1>4, <1>5, <1>6, <1>7, <1>8, <1>9, <1>10, <1>11, <1>12, <1>13, <1>14, <1>15 DEF Next

-----------------------------------------------------------------------------
(* Memory.                                                                 *)

\* The heap on which the blocks of "alive" are allocated, each once.
Once(alive) == [b \in Blocks |-> IF b \in alive THEN 1 ELSE 0]

\* New blocks, and blocks that were in use.
LEMMA MallocOnce ==
    ASSUME NEW S, NEW T, NEW U, U = S \union T, \A b \in T : b \notin S
    PROVE  Malloc(Once(S), T) = Once(U)
BY DEF Malloc, Once

LEMMA ReleaseOnce ==
    ASSUME NEW S, NEW T, NEW U, U = S \ T, \A b \in T : b \in S
    PROVE  Release(Once(S), T) = Once(U)
BY DEF Release, Once

\* A string that the options object owns is one of the two.
LEMMA OwnedIn == OptInv /\ OptLive => OwnedStrings(opt) \subseteq Strings
<1> SUFFICES ASSUME OptInv, OptLive, NEW i \in DOMAIN opt.vals, opt.vals[i].isAlloc
             PROVE  opt.recs[i].key \in Strings
  BY DEF OwnedStrings
<1>1. prog \in {"client", "service"} /\ opt.recs = Recs /\ i \in DOMAIN Recs /\ ValueFollows(Recs[i], opt.vals[i])
  BY DEF OptInv
<1>2. Recs[i].type = "STR" /\ Recs[i].key # NoKey
  BY <1>1 DEF ValueFollows
<1> QED  BY <1>1, <1>2, RecsMade DEF WellMade

\* What the command line gives is not duplicated.
LEMMA NoneOwned == OptInv /\ phase \in {"args", "open"} => OwnedStrings(opt) = {}
<1> SUFFICES ASSUME OptInv, phase \in {"args", "open"}, NEW i \in DOMAIN opt.vals
             PROVE  ~opt.vals[i].isAlloc
  BY DEF OwnedStrings
<1>1. i \in DOMAIN Recs /\ ValueFollows(Recs[i], opt.vals[i])
  BY DEF OptInv, OptLive
<1>2. ~Says("file", Recs[i].key)
  BY DEF OptInv, Says
<1> QED  BY <1>1, <1>2 DEF ValueFollows

\* The same of the next state.
LEMMA OwnedNext ==
    /\ (OptInv /\ OptLive => OwnedStrings(opt) \subseteq Strings)'
    /\ (OptInv /\ phase \in {"args", "open"} => OwnedStrings(opt) = {})'
BY OwnedIn, NoneOwned, PTL

\* Memory: the invariant holds initially and is kept (HeapNext).
LEMMA HeapInit == Init => HeapInv
BY DEF Init, HeapInv, Alive, OptLive, Working

\* All is freed: nothing is left.
LEMMA HeapGone ==
    ASSUME heap' = Release(Once(Alive), Alive), phase' \in {"success", "failure"}
    PROVE  HeapInv'
<1>1. Alive' = {}
  BY DEF Alive, OptLive, Working
<1>2. heap' = Once({})
  BY ReleaseOnce
<1> QED  BY <1>1, <1>2 DEF HeapInv, Once

\* The options object is freed where there is nothing else.
LEMMA HeapLeft ==
    ASSUME HeapInv, OptLive, phase # "lines", heap' = FreeOpt(heap, opt), phase' \in {"success", "failure"}
    PROVE  HeapInv'
<1>1. Alive = OptBlocks \union OwnedStrings(opt)
  BY DEF Alive
<1>2. heap' = Release(Once(Alive), Alive)
  BY <1>1 DEF HeapInv, Once, FreeOpt
<1> QED  BY <1>2, HeapGone

\* It is freed, and there are no other objects yet.
LEMMA HeapTaken ==
    ASSUME HeapInv, StageInv, phase = "take", heap' = FreeOpt(heap, opt), phase' = "alloc", st' = st
    PROVE  HeapInv'
<1>1. Alive = OptBlocks \union OwnedStrings(opt)
  BY DEF Alive, OptLive
<1>2. st = {}
  BY DEF StageInv, Working, Ended
<1>3. Alive' = {}
  BY <1>2 DEF Alive, OptLive, Working, Held
<1>4. heap = Once(Alive)
  BY DEF HeapInv, Once
<1>5. heap' = Release(Once(Alive), Alive)
  BY <1>1, <1>4 DEF FreeOpt
<1>6. heap' = Once({})
  BY <1>5, ReleaseOnce
<1> QED  BY <1>3, <1>6 DEF HeapInv, Once

\* Memory stays as it is.
LEMMA HeapKept ==
    ASSUME HeapInv, heap' = heap, Alive' = Alive
    PROVE  HeapInv'
BY DEF HeapInv

\* The configuration file is opened.
LEMMA HeapOpened ==
    ASSUME OptInv, OptInv', HeapInv, OpenFile
    PROVE  HeapInv'
<1>1. phase = "open" /\ opt' = opt /\ OptLive
  BY DEF OpenFile, OptLive
<1>2. Alive = OptBlocks \union OwnedStrings(opt) /\ OwnedStrings(opt) = {} /\ heap = Once(Alive)
  BY <1>1, NoneOwned DEF Alive, HeapInv, Once
<1>3. CASE phase' = "crashed"
  <2>1. heap' = heap
    BY <1>3 DEF OpenFile
  <2>2. Alive' = Alive
    BY <1>1, <1>3 DEF Alive, OptLive
  <2> QED  BY <2>1, <2>2, HeapKept
<1>4. CASE phase' = "failure"
  <2>1. heap' = FreeOpt(heap, opt)
    BY <1>4 DEF OpenFile
  <2> QED  BY <1>1, <1>4, <2>1, HeapLeft
<1>5. CASE phase' = "lines"
  <2>1. heap' = Malloc(heap, CfgBlocks)
    BY <1>5 DEF OpenFile
  <2>2. Alive' = Alive \union CfgBlocks
    BY <1>1, <1>5 DEF Alive, OptLive
  <2>3. \A b \in CfgBlocks : b \notin Alive
    BY <1>2 DEF CfgBlocks, OptBlocks
  <2>4. heap' = Once(Alive')
    BY <1>2, <2>1, <2>2, <2>3, MallocOnce
  <2> QED  BY <2>4 DEF HeapInv, Once
<1> QED  BY <1>3, <1>4, <1>5 DEF OpenFile

\* A line may duplicate a string; one that is wrong frees all.
LEMMA HeapLine ==
    ASSUME OptInv, OptInv', HeapInv, Line
    PROVE  HeapInv'
<1>1. phase = "lines" /\ OptLive /\ UNCHANGED <<prog, topic>> /\ heap = Once(Alive)
      /\ Alive = OptBlocks \union OwnedStrings(opt) \union CfgBlocks
      /\ OwnedStrings(opt) \subseteq Strings
  BY OwnedIn DEF Line, OptLive, Alive, HeapInv, Once
<1>2. PICK line \in Lines, dup \in BOOLEAN :
        \/ /\ LineTaken(line, dup) /\ UNCHANGED phase
           /\ heap' = Malloc(heap, OwnedStrings(opt') \ OwnedStrings(opt))
        \/ /\ phase' = "failure"
           /\ heap' = Release(FreeOpt(heap, opt), CfgBlocks)
  BY DEF Line, LineTaken
<1>3. CASE LineTaken(line, dup) /\ UNCHANGED phase /\ heap' = Malloc(heap, OwnedStrings(opt') \ OwnedStrings(opt))
  <2>1. OwnedStrings(opt) \subseteq OwnedStrings(opt')
    <3>1. \A j \in DOMAIN Recs : opt.vals[j].isAlloc => opt'.vals[j].isAlloc
      BY <1>1, <1>3, LineOpt
    <3>2. OptLive' /\ Recs' = Recs
      BY <1>1, <1>3 DEF OptLive, Recs
    <3>3. /\ opt.recs = Recs /\ DOMAIN opt.vals = DOMAIN Recs
          /\ opt'.recs = Recs /\ DOMAIN opt'.vals = DOMAIN Recs
      BY <1>1, <3>2 DEF OptInv
    <3> QED  BY <3>1, <3>3 DEF OwnedStrings
  <2>2. Alive' = OptBlocks \union OwnedStrings(opt') \union CfgBlocks
    BY <1>1, <1>3 DEF Alive, OptLive
  <2>3. OwnedStrings(opt') \subseteq Strings
    BY <1>1, <1>3, OwnedNext DEF OptLive
  <2>4. \A b \in OwnedStrings(opt') \ OwnedStrings(opt) : b \notin Alive
    BY <1>1, <2>3 DEF Strings, OptBlocks, CfgBlocks
  <2>5. Alive' = Alive \union (OwnedStrings(opt') \ OwnedStrings(opt))
    BY <1>1, <2>1, <2>2
  <2>6. heap' = Once(Alive')
    BY <1>1, <1>3, <2>4, <2>5, MallocOnce
  <2> QED  BY <2>6 DEF HeapInv, Once
<1>4. CASE phase' = "failure" /\ heap' = Release(FreeOpt(heap, opt), CfgBlocks)
  <2>1. \A b \in OptBlocks \union OwnedStrings(opt) : b \in Alive /\ b \notin CfgBlocks
    BY <1>1 DEF Strings, OptBlocks, CfgBlocks
  <2>2. FreeOpt(heap, opt) = Once(CfgBlocks)
    <3>1. CfgBlocks = Alive \ (OptBlocks \union OwnedStrings(opt))
      BY <1>1, <2>1
    <3> QED  BY <1>1, <2>1, <3>1, ReleaseOnce DEF FreeOpt
  <2>3. heap' = Once({})
    BY <1>4, <2>2, ReleaseOnce
  <2>4. Alive' = {}
    BY <1>4 DEF Alive, OptLive, Working
  <2> QED  BY <2>3, <2>4 DEF HeapInv, Once
<1> QED  BY <1>2, <1>3, <1>4

\* The file is closed.
LEMMA HeapLinesEnd ==
    ASSUME OptInv, HeapInv, LinesEnd
    PROVE  HeapInv'
<1>1. phase = "lines" /\ phase' = "take" /\ opt' = opt /\ heap' = Release(heap, CfgBlocks)
  BY DEF LinesEnd, optVars
<1>2. heap = Once(Alive) /\ Alive = OptBlocks \union OwnedStrings(opt) \union CfgBlocks
      /\ OwnedStrings(opt) \subseteq Strings
  BY <1>1, OwnedIn DEF OptLive, Alive, HeapInv, Once
<1>3. Alive' = OptBlocks \union OwnedStrings(opt)
  BY <1>1 DEF Alive, OptLive
<1>4. Alive' = Alive \ CfgBlocks
  BY <1>2, <1>3 DEF Strings, OptBlocks, CfgBlocks
<1>5. heap' = Once(Alive')
  BY <1>1, <1>2, <1>4, ReleaseOnce
<1> QED  BY <1>5 DEF HeapInv, Once

\* The objects are blocks other than the two that belong to some of them.
LEMMA Objects ==
    ASSUME prog \in {"client", "service"}, StageInv
    PROVE  st \subseteq AddrBlocks \union (OtherBlocks \ {"addressStr", "bufferData"})
BY StagesList DEF StageInv

\* An object is allocated, with what belongs to it.
LEMMA HeapAllocated ==
    ASSUME prog \in {"client", "service"}, StageInv, HeapInv, phase = "alloc", Allocated,
           heap' = Malloc(heap, {NextObject} \union {b \in {"addressStr"} : NextObject = "address" /\ addr'.str}
                                             \union {b \in {"bufferData"} : NextObject = "buffer"}),
           "address" \in st => addr'.str = addr.str
    PROVE  HeapInv'
<1>1. /\ st' = st \union {NextObject} /\ phase' \in {"alloc", "signal"}
      /\ NextObject \notin st
      /\ NextObject \in AddrBlocks \union (OtherBlocks \ {"addressStr", "bufferData"})
      /\ st \subseteq AddrBlocks \union (OtherBlocks \ {"addressStr", "bufferData"})
  BY NextIsNew, Objects DEF Allocated
<1> DEFINE new == {NextObject} \union {b \in {"addressStr"} : NextObject = "address" /\ addr'.str}
                               \union {b \in {"bufferData"} : NextObject = "buffer"}
<1>2. Alive = Held(st) /\ heap = Once(Alive)
  BY DEF Alive, OptLive, Working, HeapInv, Once
<1>3. Alive' = st' \union {b \in {"addressStr"} : "address" \in st' /\ addr'.str}
                   \union {b \in {"bufferData"} : "buffer" \in st'}
  BY <1>1 DEF Alive, OptLive, Working, Held
<1>4. Alive' = Alive \union new
  <2>1. {b \in {"addressStr"} : "address" \in st' /\ addr'.str} =
          {b \in {"addressStr"} : "address" \in st /\ addr.str}
            \union {b \in {"addressStr"} : NextObject = "address" /\ addr'.str}
    BY <1>1
  <2> QED  BY <1>1, <1>2, <1>3, <2>1 DEF Held
<1>5. \A b \in new : b \notin Alive
  BY <1>1, <1>2 DEF Held, AddrBlocks, OtherBlocks
<1>6. heap' = Once(Alive')
  <2>1. heap' = Malloc(Once(Alive), new)
    BY <1>2
  <2> HIDE DEF new
  <2> QED  BY <1>4, <1>5, <2>1, MallocOnce
<1> QED  BY <1>6 DEF HeapInv, Once

LEMMA HeapNext ==
    ASSUME OptInv, OptInv', StageInv, StructInv, FdInv, AddrInv, HeapInv, [Next]_vars
    PROVE  HeapInv'
<1>p. prog \in {"client", "service"}
  BY DEF OptInv
<1>1. CASE CmdBase
  <2>1. phase = "main" /\ Alive = {} /\ heap = Once(Alive)
    BY <1>1 DEF CmdBase, Alive, OptLive, Working, HeapInv, Once
  <2>2. CASE phase' = "failure"
    <3>1. heap' = heap /\ Alive' = Alive
      BY <1>1, <2>1, <2>2 DEF CmdBase, Alive, OptLive, Working
    <3> QED  BY <3>1, HeapKept
  <2>3. CASE phase' = "args"
    <3>1. heap' = Malloc(heap, OptBlocks)
      BY <1>1, <2>3 DEF CmdBase
    <3>2. OwnedStrings(opt') = {}
      BY <2>3, OwnedNext
    <3>3. Alive' = Alive \union OptBlocks
      BY <2>1, <2>3, <3>2 DEF Alive, OptLive
    <3>4. heap' = Once(Alive')
      BY <2>1, <3>1, <3>3, MallocOnce
    <3> QED  BY <3>4 DEF HeapInv, Once
  <2> QED  BY <1>1, <2>2, <2>3 DEF CmdBase
<1>2. CASE ArgMessage \/ ArgWrong
  BY <1>2, HeapLeft DEF ArgMessage, ArgWrong, Leave, OptLive
<1>3. CASE ArgOption
  <2>1. phase = "args" /\ phase' = "args" /\ heap' = heap
    BY <1>3 DEF ArgOption
  <2>2. OwnedStrings(opt) = {} /\ OwnedStrings(opt') = {}
    BY <2>1, NoneOwned, OwnedNext
  <2>3. Alive' = Alive
    BY <2>1, <2>2 DEF Alive, OptLive
  <2> QED  BY <2>1, <2>3, HeapKept
<1>4. CASE ArgsEnd
  <2>1. phase = "args" /\ phase' \in {"take", "open"} /\ heap' = heap /\ opt' = opt
    BY <1>4 DEF ArgsEnd, optVars
  <2>2. Alive' = Alive
    BY <2>1 DEF Alive, OptLive
  <2> QED  BY <2>1, <2>2, HeapKept
<1>5. CASE OpenFile
  BY <1>5, HeapOpened
<1>6. CASE Line
  BY <1>6, HeapLine
<1>7. CASE LinesEnd
  BY <1>7, HeapLinesEnd
<1>8. CASE TakeClient
  <2>1. phase = "take" /\ heap' = FreeOpt(heap, opt) /\ UNCHANGED st /\ phase' \in {"failure", "alloc"}
    BY <1>8 DEF TakeClient, Take, Leave, stVars
  <2> QED  BY <2>1, HeapLeft, HeapTaken DEF OptLive
<1>9. CASE TakeService
  BY <1>9, HeapTaken DEF TakeService, Take, stVars
<1>10. CASE AllocFails \/ Capture
  <2>1. Working /\ Working' /\ ~OptLive /\ ~OptLive' /\ heap' = heap /\ UNCHANGED <<st, addr>>
    BY <1>10 DEF AllocFails, Capture, Working, OptLive, stVars
  <2>2. Alive' = Alive
    BY <2>1 DEF Alive, Held
  <2> QED  BY <2>1, <2>2, HeapKept
<1>11. CASE AllocAddress
  <2>1. /\ phase = "alloc" /\ NextObject = "address" /\ Allocated
        /\ heap' = Malloc(heap, {"address"} \union {b \in {"addressStr"} : addr'.str})
    BY <1>11 DEF AllocAddress
  <2>2. "address" \notin st
    BY <1>p, <2>1, Before
  <2> QED  BY <1>p, <2>1, <2>2, HeapAllocated
<1>12. CASE AllocServiceAddress
  <2>1. /\ phase = "alloc" /\ NextObject = "address" /\ Allocated /\ prog = "service"
        /\ heap' = Malloc(heap, {"address"}) /\ addr' = AddrAlloc(opts.type)
    BY <1>12 DEF AllocServiceAddress
  <2>2. "address" \notin st
    BY <1>p, <2>1, Before
  <2>3. opts.type \in Protocols
    BY <2>1 DEF StructInv, CommandLineWins, Working, Protocols
  <2>4. addr'.str = FALSE
    BY <2>1, <2>3, AddrAllocated
  <2>5. {"address"} = {NextObject} \union {b \in {"addressStr"} : NextObject = "address" /\ addr'.str}
                                   \union {b \in {"bufferData"} : NextObject = "buffer"}
    BY <2>1, <2>4
  <2> QED  BY <1>p, <2>1, <2>2, <2>5, HeapAllocated
<1>13. CASE AllocRxAddress \/ AllocSocket \/ AllocObject
  <2>1. /\ phase = "alloc" /\ NextObject # "address" /\ Allocated /\ addr' = addr
        /\ heap' = Malloc(heap, {NextObject} \union {b \in {"bufferData"} : NextObject = "buffer"})
    <3>1. CASE AllocRxAddress \/ AllocSocket
      <4>1. /\ phase = "alloc" /\ NextObject \in {"RxAddress", "socket"} /\ Allocated /\ addr' = addr
            /\ heap' = Malloc(heap, {NextObject})
        BY <3>1 DEF AllocRxAddress, AllocSocket
      <4>2. {NextObject} = {NextObject} \union {b \in {"bufferData"} : NextObject = "buffer"}
        BY <4>1
      <4> QED  BY <4>1, <4>2
    <3>2. CASE AllocObject
      BY <3>2 DEF AllocObject
    <3> QED  BY <1>13, <3>1, <3>2
  <2>2. {NextObject} \union {b \in {"bufferData"} : NextObject = "buffer"} =
          {NextObject} \union {b \in {"addressStr"} : NextObject = "address" /\ addr'.str}
                       \union {b \in {"bufferData"} : NextObject = "buffer"}
    BY <2>1
  <2> QED  BY <1>p, <2>1, <2>2, HeapAllocated
<1>14. CASE Receive
  <2>1. phase = "run" /\ phase' = phase /\ heap' = heap /\ st' = st
    BY <1>14 DEF Receive
  <2>2. addr'.str = addr.str
    BY <1>p, <1>14, AddrOfDatagram
  <2>3. Alive' = Alive
    BY <2>1, <2>2 DEF Alive, OptLive, Working, Held
  <2> QED  BY <2>1, <2>3, HeapKept
<1>15. CASE Fail \/ Interrupt
  <2>1. /\ phase \in {"clean", "run"} /\ phase' \in {"success", "failure"}
        /\ heap' = Release(heap, Held(st))
    BY <1>15 DEF Fail, Interrupt, CleanUp
  <2>2. Alive = Held(st) /\ heap = Once(Alive)
    BY <2>1 DEF Alive, OptLive, Working, HeapInv, Once
  <2> QED  BY <2>1, <2>2, HeapGone
<1>16. CASE UNCHANGED vars
  <2>1. UNCHANGED <<phase, opt, st, addr, heap>>
    BY <1>16 DEF vars, optVars, stVars
  <2>2. Alive' = Alive
    BY <2>1 DEF Alive, OptLive, Working, Held
  <2> QED  BY <2>1, <2>2, HeapKept
<1> QED  BY <1>1, <1>2, <1>3, <1>4, <1>5, <1>6, <1>7, <1>8, <1>9, <1>10, <1>11, <1>12, <1>13, <1>14, <1>15, <1>16 DEF Next

-----------------------------------------------------------------------------
(* The theorems.                                                           *)

\* The inductive invariant.
ProcessInv ==
    OptInv /\ StageInv /\ StructInv /\ LogInv /\ FdInv /\ AddrInv /\ HeapInv

\* It holds initially and every step keeps it.
LEMMA InitInv == Init => ProcessInv
BY OptInit, StageInit, StructInit, LogInit, FdInit, AddrInit, HeapInit DEF ProcessInv

LEMMA NextInv == ProcessInv /\ [Next]_vars => ProcessInv'
<1> SUFFICES ASSUME ProcessInv, [Next]_vars PROVE ProcessInv'
  OBVIOUS
<1>1. /\ prog \in {"client", "service"}
      /\ OptInv /\ StageInv /\ StructInv /\ LogInv /\ FdInv /\ AddrInv /\ HeapInv
  BY DEF ProcessInv, OptInv
<1>2. OptInv'
  BY <1>1, OptNext
<1>3. StageInv'
  BY <1>1, StageNext
<1>4. StructInv'
  BY <1>1, StructNext
<1>5. LogInv'
  BY <1>1, LogNext
<1>6. FdInv'
  BY <1>1, FdNext
<1>7. AddrInv'
  BY <1>1, AddrNext
<1>8. HeapInv'
  BY <1>1, <1>2, HeapNext
<1> QED  BY <1>2, <1>3, <1>4, <1>5, <1>6, <1>7, <1>8 DEF ProcessInv

LEMMA Invariant == Spec => []ProcessInv
BY InitInv, NextInv, PTL DEF Spec

\* It implies the properties.
LEMMA HaveTypes == ProcessInv => TypeOK
<1> SUFFICES ASSUME ProcessInv PROVE TypeOK
  OBVIOUS
<1>1. /\ prog \in {"client", "service"}
      /\ StageInv /\ StructInv /\ LogInv /\ FdInv /\ AddrInv
  BY DEF ProcessInv, OptInv
<1>2. st \subseteq ToSet(Stages)
  <2>1. \A i \in 1..Cardinality(st) : i \in DOMAIN Stages
    BY <1>1, StagesList DEF StageInv
  <2> QED  BY <1>1, <2>1 DEF StageInv, ToSet
<1>3. addr.type \in Families /\ type \in Families
  BY <1>1 DEF AddrInv, IsAddr, NoAddr, Families
<1>4. rxAddr.type \in Families
  BY <1>1, <1>3 DEF AddrInv, IsAddr, NoAddr, Families
<1>5. sock.fd \in Fds \union {-1}
  <2>1. 0 \in Fds
    BY SockAssumption DEF Fds
  <2> QED  BY <1>1, <2>1 DEF AddrInv, NoSock
<1>6. log.level \in 0..7 /\ log.echo \in BOOLEAN /\ log.sys \in BOOLEAN /\ log.open \in BOOLEAN
  BY <1>1 DEF LogInv
<1>7. Working => /\ opts.type \in Protocols \union {"Invalid_PROTO"}
                 /\ prog = "client" => opts.domainNumber \in 128..239
  <2> SUFFICES ASSUME Working
               PROVE  /\ opts.type \in Protocols \union {"Invalid_PROTO"}
                      /\ prog = "client" => opts.domainNumber \in 128..239
    OBVIOUS
  <2>1. CASE prog = "client"
    <3>1. CASE Effective("ipv4")
      BY <1>1, <2>1, <3>1 DEF StructInv, CommandLineWins, Protocols
    <3>2. CASE ~Effective("ipv4") /\ Effective("ipv6")
      BY <1>1, <2>1, <3>2 DEF StructInv, CommandLineWins, Protocols
    <3>3. CASE ~Effective("ipv4") /\ ~Effective("ipv6")
      BY <1>1, <2>1, <3>3 DEF StructInv, CommandLineWins, Protocols
    <3> QED  BY <3>1, <3>2, <3>3
  <2>2. CASE prog = "service"
    BY <1>1, <2>2 DEF StructInv, CommandLineWins, Protocols
  <2> QED  BY <1>1, <2>1, <2>2
<1> QED  BY <1>2, <1>3, <1>4, <1>5, <1>6, <1>7 DEF TypeOK

LEMMA Agree == ProcessInv => FamiliesAgree
<1> SUFFICES ASSUME ProcessInv, phase = "run" PROVE FamiliesAgree
  BY DEF FamiliesAgree
<1>1. /\ prog \in {"client", "service"} /\ Working
      /\ StageInv /\ StructInv /\ FdInv /\ AddrInv
  BY DEF ProcessInv, OptInv, Working
<1>2. /\ "address" \in st /\ "socket" \in st
      /\ prog = "client" => "RxAddress" \in st
  BY <1>1, AllThere
<1>3. /\ IsAddr(addr, addr.type) /\ sock.fd = 0 /\ sock.type = addr.type
      /\ prog = "client" => type = addr.type
  BY <1>1, <1>2 DEF AddrInv
<1>4. addr.fam = addr.type
  BY <1>3 DEF IsAddr
<1>5. rxAddr = NoAddr \/ (rxAddr.type = addr.type /\ rxAddr.fam = addr.type)
  <2>1. CASE prog = "client"
    BY <1>1, <1>2, <1>3, <2>1 DEF AddrInv, IsAddr
  <2>2. CASE prog = "service"
    BY <1>1, <2>2 DEF AddrInv, IsAddr, Protocols
  <2> QED  BY <1>1, <2>1, <2>2
<1>6. fds[sock.fd].fam = sock.type
  BY <1>1, <1>2 DEF FdInv
<1>7. opts.type \in Protocols => sock.type = opts.type
  BY <1>1, <1>2, <1>3 DEF AddrInv
<1>8. Effective("ipv6") => sock.type = "UDP_IPv6"
  <2>1. Effective("ipv6") => opts.type = "UDP_IPv6"
    BY <1>1 DEF StructInv, CommandLineWins
  <2> QED  BY <1>7, <2>1 DEF Protocols
<1>9. prog = "client" /\ Effective("ipv4") => sock.type = "UDP_IPv4"
  <2>1. prog = "client" /\ Effective("ipv4") => opts.type = "UDP_IPv4"
    BY <1>1 DEF StructInv, CommandLineWins
  <2> QED  BY <1>7, <2>1 DEF Protocols
<1> QED  BY <1>3, <1>4, <1>5, <1>6, <1>8, <1>9 DEF FamiliesAgree

LEMMA FreesAll == ProcessInv => NothingLeaks
<1> SUFFICES ASSUME ProcessInv PROVE NothingLeaks
  OBVIOUS
<1>1. FdInv /\ HeapInv
  BY DEF ProcessInv
<1>2. \A b \in Blocks : heap[b] \in 0..1
  BY <1>1 DEF HeapInv
<1>3. phase \in {"success", "failure"} => (\A b \in Blocks : heap[b] = 0)
  BY <1>1 DEF HeapInv, Alive, OptLive, Working
<1>4. phase \in {"success", "failure"} => (\A n \in Fds : fds[n] = Free)
  BY <1>1 DEF FdInv, Working
<1> QED  BY <1>2, <1>3, <1>4 DEF NothingLeaks

LEMMA LogIsSet == ProcessInv => LogFollowsOptions
BY DEF ProcessInv, LogInv, LogFollowsOptions

-----------------------------------------------------------------------------
(* What is proved of both programs, for every set of options, every number *)
(* of arguments and lines, all hosts and any number of descriptors.        *)

\* The variables keep their types: the objects that exist are those of
\* allocObjs, the family is one of the two or still open, and the domain
\* number that getopt and the file let through is one that
\* client_main_create_address accepts (main_client.c:28).
THEOREM ProgramTypes == Spec => []TypeOK
BY Invariant, HaveTypes, PTL

\* Of every option that is a number or a switch the programs work with the
\* first that the command line says, else the first that the file says, else
\* the default, in whatever order and number they come; a string that the
\* command line gives, or the default, is the one they work with, and lives
\* (cmdl.c:100-148, opt.c:97-150). Of a string that only the file gives the
\* theorem says nothing: it is freed before it is used (cmdl_client.c:54-56).
THEOREM FirstMentionWins == Spec => []CommandLineWins
<1>1. ProcessInv => CommandLineWins
  BY DEF ProcessInv, StructInv
<1> QED  BY <1>1, Invariant, PTL

\* The log follows the options, also where the file takes back what the
\* command line's first setting did, and syslog is open exactly when it is
\* used (log.c:36-42, cmdl.c:139-148).
THEOREM LogAsGiven == Spec => []LogFollowsOptions
BY Invariant, LogIsSet, PTL

\* No block is allocated twice or freed twice, and a program that ends has
\* freed every block and closed every descriptor, wherever it failed
\* (cmdl.c:154-159, main_client.c:276-313, main_service.c:259-291).
THEOREM AllIsFreed == Spec => []NothingLeaks
BY Invariant, FreesAll, PTL

\* A program that runs has one family, in its addresses, its socket and the
\* kernel, whatever a name service or the contents of a freed string gave, and
\* it is the family that -4 or -6 forces (sock.c:585, main_client.c:22-60).
THEOREM OneFamily == Spec => []FamiliesAgree
BY Invariant, Agree, PTL
=============================================================================
