---------------------------- MODULE DeviceProofs ----------------------------
(***************************************************************************)
(* The device objects keep their promises for any interfaces, clocks,      *)
(* hosts, ports, number of descriptors and bound of the times: every open  *)
(* descriptor has one owner, an interface object describes one interface,  *)
(* hardware time stamps are those that were asked for, and a PTP clock     *)
(* object implements TimeLine.                                             *)
(*                                                                         *)
(* The inductive invariant Inv adds to DescriptorsOwned and WholeInterface *)
(* the type of each variable, of the objects and of what is behind each    *)
(* descriptor, and that times stay within the model's bound of seconds.    *)
(*                                                                         *)
(* The first part is about TimeStamp alone, that each operation of time.c  *)
(* gives a normal time stamp of exactly the nanoseconds that it should.    *)
(***************************************************************************)
EXTENDS Devices, TLAPS, WellFoundedInduction

-----------------------------------------------------------------------------
(* What the operations of TimeStamp do to the number of nanoseconds.       *)

LEMMA Positive ==
    NsecPerSec \in Nat \ {0}
BY TimeAssumption DEF NsecPerSec

\* Truncated division is a division with remainder, whose remainder has the
\* dividend's sign.
LEMMA Division ==
    ASSUME NEW a \in Int, NEW b \in Nat \ {0}
    PROVE  /\ Quot(a, b) \in Int
           /\ Rem(a, b) \in Int
           /\ a = b * Quot(a, b) + Rem(a, b)
           /\ Rem(a, b) < b
           /\ -b < Rem(a, b)
           /\ a >= 0 => Rem(a, b) >= 0
           /\ a <= 0 => Rem(a, b) <= 0
<1>1. CASE a >= 0
  <2>1. a \div b \in Int /\ a = b * (a \div b) + (a % b) /\ a % b \in 0..(b - 1)
    BY <1>1
  <2> QED  BY <1>1, <2>1 DEF Quot, Rem
<1>2. CASE a < 0
  <2> DEFINE m == -a
  <2>1. m \in Nat /\ m \div b \in Int /\ m = b * (m \div b) + (m % b) /\ m % b \in 0..(b - 1)
    BY <1>2
  <2>2. Quot(a, b) = -(m \div b)
    BY <1>2 DEF Quot
  <2>3. Rem(a, b) = -(m % b)
    BY <2>1, <2>2 DEF Rem
  <2> QED  BY <1>2, <2>1, <2>2, <2>3
<1> QED  BY <1>1, <1>2

\* SetTs is exact for every number, negative ones included, and leaves the
\* nanoseconds in range.
THEOREM SetTsExact ==
    ASSUME NEW n \in Int
    PROVE  SetTs(n) \in Stamp /\ Nanoseconds(SetTs(n)) = n
<1> DEFINE q == Quot(n, NsecPerSec)
           r == Rem(n, NsecPerSec)
<1>1. /\ NsecPerSec \in Nat \ {0} /\ q \in Int /\ r \in Int
      /\ n = NsecPerSec * q + r /\ r < NsecPerSec /\ -NsecPerSec < r
  BY Positive, Division
<1> HIDE DEF q, r
<1>2. CASE r < 0
  <2>1. SetTs(n) = [sec |-> q - 1, nsec |-> r + NsecPerSec]
    BY <1>2 DEF SetTs, q, r
  <2>2. r + NsecPerSec \in 0..(NsecPerSec - 1)
    BY <1>1, <1>2
  <2>3. (q - 1) * NsecPerSec + (r + NsecPerSec) = n
    BY <1>1
  <2> QED  BY <1>1, <2>1, <2>2, <2>3 DEF Stamp, Nanoseconds
<1>3. CASE r >= 0
  <2>1. SetTs(n) = [sec |-> q, nsec |-> r]
    BY <1>3, <1>1 DEF SetTs, q, r
  <2>2. r \in 0..(NsecPerSec - 1)
    BY <1>1, <1>3
  <2>3. q * NsecPerSec + r = n
    BY <1>1
  <2> QED  BY <1>1, <2>1, <2>2, <2>3 DEF Stamp, Nanoseconds
<1> QED  BY <1>1, <1>2, <1>3

\* A carry or a borrow of one second is all an addition needs: the result is
\* in range and exact, whatever the signs.
THEOREM AddMillisecondsExact ==
    ASSUME NEW t \in Stamp, NEW msec \in Int
    PROVE  /\ AddMilliseconds(t, msec) \in Stamp
           /\ Nanoseconds(AddMilliseconds(t, msec)) = Nanoseconds(t) + msec * NsecPerMsec
<1> DEFINE q    == Quot(msec, MsecPerSec)
           r    == Rem(msec, MsecPerSec)
           sec  == t.sec + q
           nsec == t.nsec + r * NsecPerMsec
<1>1. /\ MsecPerSec \in Nat \ {0} /\ NsecPerMsec \in Nat \ {0} /\ NsecPerSec \in Nat \ {0}
      /\ q \in Int /\ r \in Int
      /\ msec = MsecPerSec * q + r /\ r < MsecPerSec /\ -MsecPerSec < r
  BY Positive, Division, TimeAssumption
<1>2. t.sec \in Int /\ t.nsec \in 0..(NsecPerSec - 1)
  BY DEF Stamp
<1> HIDE DEF q, r
<1>3. r * NsecPerMsec < NsecPerSec /\ -NsecPerSec < r * NsecPerMsec
  <2>1. NsecPerSec = MsecPerSec * NsecPerMsec
    BY DEF NsecPerSec
  <2>2. r * NsecPerMsec <= (MsecPerSec - 1) * NsecPerMsec
    BY <1>1
  <2>3. (1 - MsecPerSec) * NsecPerMsec <= r * NsecPerMsec
    BY <1>1
  <2> QED  BY <1>1, <2>1, <2>2, <2>3
<1>4. sec \in Int /\ nsec \in Int /\ -NsecPerSec < nsec /\ nsec < 2 * NsecPerSec
  BY <1>1, <1>2, <1>3
<1>5. sec * NsecPerSec + nsec = Nanoseconds(t) + msec * NsecPerMsec
  <2>1. q * NsecPerSec = (MsecPerSec * q) * NsecPerMsec
    BY <1>1 DEF NsecPerSec
  <2>2. msec * NsecPerMsec = (MsecPerSec * q) * NsecPerMsec + r * NsecPerMsec
    BY <1>1
  <2>3. sec * NsecPerSec = t.sec * NsecPerSec + q * NsecPerSec
    BY <1>1, <1>2
  <2>4. r * NsecPerMsec \in Int /\ q * NsecPerSec \in Int /\ t.sec * NsecPerSec \in Int
    BY <1>1, <1>2
  <2>5. q * NsecPerSec + r * NsecPerMsec = msec * NsecPerMsec
    BY <2>1, <2>2
  <2>6. sec * NsecPerSec + nsec
          = (t.sec * NsecPerSec + q * NsecPerSec) + (t.nsec + r * NsecPerMsec)
    BY <2>3
  <2>7. @ = (t.sec * NsecPerSec + t.nsec) + (q * NsecPerSec + r * NsecPerMsec)
    BY <1>2, <2>4
  <2> QED  BY <2>5, <2>6, <2>7 DEF Nanoseconds
<1>6. AddMilliseconds(t, msec) =
        IF nsec >= NsecPerSec THEN [sec |-> sec + 1, nsec |-> nsec - NsecPerSec]
        ELSE IF nsec < 0 THEN [sec |-> sec - 1, nsec |-> nsec + NsecPerSec]
        ELSE [sec |-> sec, nsec |-> nsec]
  BY DEF AddMilliseconds, q, r
<1> HIDE DEF sec, nsec
<1>7. CASE nsec >= NsecPerSec
  <2>1. (sec + 1) * NsecPerSec + (nsec - NsecPerSec) = sec * NsecPerSec + nsec
    BY <1>1, <1>4
  <2> QED  BY <1>1, <1>4, <1>5, <1>6, <1>7, <2>1 DEF Stamp, Nanoseconds
<1>8. CASE nsec < 0
  <2>1. (sec - 1) * NsecPerSec + (nsec + NsecPerSec) = sec * NsecPerSec + nsec
    BY <1>1, <1>4
  <2>2. AddMilliseconds(t, msec) = [sec |-> sec - 1, nsec |-> nsec + NsecPerSec]
    BY <1>1, <1>4, <1>6, <1>8
  <2>3. sec - 1 \in Int /\ nsec + NsecPerSec \in 0..(NsecPerSec - 1)
    BY <1>1, <1>4, <1>8
  <2> QED  BY <1>5, <2>1, <2>2, <2>3 DEF Stamp, Nanoseconds
<1>9. CASE nsec \in 0..(NsecPerSec - 1)
  BY <1>1, <1>4, <1>5, <1>6, <1>9 DEF Stamp, Nanoseconds
<1> QED  BY <1>1, <1>4, <1>7, <1>8, <1>9

\* The comparisons, which look at the two fields, are those of the times.
THEOREM ComparisonsExact ==
    ASSUME NEW a \in Stamp, NEW b \in Stamp
    PROVE  /\ Equal(a, b)  <=> Nanoseconds(a) = Nanoseconds(b)
           /\ Less(a, b)   <=> Nanoseconds(a) < Nanoseconds(b)
           /\ LessEq(a, b) <=> Nanoseconds(a) <= Nanoseconds(b)
<1>1. /\ NsecPerSec \in Nat \ {0}
      /\ a.sec \in Int /\ a.nsec \in 0..(NsecPerSec - 1)
      /\ b.sec \in Int /\ b.nsec \in 0..(NsecPerSec - 1)
  BY Positive DEF Stamp
<1>2. a.sec < b.sec => Nanoseconds(a) < Nanoseconds(b)
  <2>1. a.sec < b.sec => (a.sec + 1) * NsecPerSec <= b.sec * NsecPerSec
    BY <1>1
  <2> QED  BY <1>1, <2>1 DEF Nanoseconds
<1>3. b.sec < a.sec => Nanoseconds(b) < Nanoseconds(a)
  <2>1. b.sec < a.sec => (b.sec + 1) * NsecPerSec <= a.sec * NsecPerSec
    BY <1>1
  <2> QED  BY <1>1, <2>1 DEF Nanoseconds
<1>4. Nanoseconds(a) \in Int /\ Nanoseconds(b) \in Int
  BY <1>1 DEF Nanoseconds
<1>5. CASE a.sec = b.sec
  BY <1>1, <1>5 DEF Equal, Less, LessEq, Nanoseconds
<1> QED  BY <1>1, <1>2, <1>3, <1>4, <1>5 DEF Equal, Less, LessEq

\* A time goes through a message unchanged if its seconds fit in 48 bits and
\* are not negative, and is refused otherwise.
THEOREM WireRoundTrip ==
    ASSUME NEW t \in Stamp, NEW self
    PROVE  LET w == ToTimestamp(t)
           IN  /\ w.ok <=> t.sec \in 0..Uint48Max
               /\ w.ok => FromTimestamp(self, NetToCpu(CpuToNet(w.wire))) = [ok |-> TRUE, ts |-> t]
<1> DEFINE w == ToTimestamp(t)
<1>1. /\ t.sec \in Int /\ t.nsec \in 0..(NsecPerSec - 1) /\ NsecPerSec \in Nat \ {0}
      /\ LowRange \in Nat \ {0} /\ HighRange \in Nat \ {0} /\ Uint48Max \in Int
  BY Positive, TimeAssumption DEF Stamp, Uint48Max
<1>2. w.ok <=> t.sec \in 0..Uint48Max
  BY <1>1 DEF ToTimestamp
<1>3. ASSUME w.ok
      PROVE  FromTimestamp(self, NetToCpu(CpuToNet(w.wire))) = [ok |-> TRUE, ts |-> t]
  <2> DEFINE hi == t.sec \div LowRange
             lo == t.sec % LowRange
             v  == [high |-> hi, low |-> lo, nsec |-> t.nsec, order |-> "cpu"]
  <2>1. w.wire = v
    BY <1>1, <1>2, <1>3 DEF ToTimestamp, SetUint48, NoWire
  <2>2. GetUint48(v) = t.sec
    BY <1>1, <1>2, <1>3 DEF GetUint48
  <2>3. v.nsec = t.nsec
    OBVIOUS
  <2> HIDE DEF hi, lo
  <2>4. NetToCpu(CpuToNet(v)) = v
    <3>1. CpuToNet(v) = [high |-> hi, low |-> lo, nsec |-> t.nsec, order |-> "net"]
      BY DEF CpuToNet
    <3> QED  BY <3>1 DEF NetToCpu
  <2> HIDE DEF v
  <2>5. FromTimestamp(self, v) = [ok |-> TRUE, ts |-> [sec |-> t.sec, nsec |-> t.nsec]]
    BY <1>1, <2>2, <2>3 DEF FromTimestamp
  <2>6. t = [sec |-> t.sec, nsec |-> t.nsec]
    BY DEF Stamp
  <2> QED  BY <2>1, <2>4, <2>5, <2>6
<1> QED  BY <1>2, <1>3

\* GetTs gives a time of at most HalfWord nanoseconds exactly; SetTs then
\* gives the time back.
THEOREM GetTsExact ==
    ASSUME NEW t \in Stamp, Nanoseconds(t) \in (-HalfWord)..(HalfWord - 1)
    PROVE  GetTs(t) = Nanoseconds(t)
<1> DEFINE n == Nanoseconds(t)
<1>1. HalfWord \in Nat \ {0} /\ n \in (-HalfWord)..(HalfWord - 1)
  BY TimeAssumption
<1>2. GetTs(t) = ((n + HalfWord) % (2 * HalfWord)) - HalfWord
  BY DEF GetTs, Wrap64, Nanoseconds
<1> HIDE DEF n
<1>3. n + HalfWord \in 0..(2 * HalfWord - 1)
  BY <1>1
<1>4. (n + HalfWord) % (2 * HalfWord) = n + HalfWord
  BY <1>1, <1>3
<1> QED  BY <1>1, <1>2, <1>4 DEF n

-----------------------------------------------------------------------------
(* The objects.                                                            *)

\* What open descriptors are open on: a UDP socket, or the device of a PTP clock.
UdpFd == [kind : {"udp"}, fam : Protocols, bound : BOOLEAN, device : Nics \cup {"none"}]
PtpFd == [kind : {"ptp"}, ptp : Ptps, readOnly : BOOLEAN]

\* Interface objects and addresses.
IfType == [init : BOOLEAN, name : Nics \cup {"none", "NULL"}, index : Nics \cup {"none"},
           mac : Nics \cup {"none"}, ipv4 : Nics \cup {"none"}, ptp : Nics \cup {"none"},
           haveIpv6 : BOOLEAN, asked : {"none", "one", "two"}]

AddrType == [type : Protocols, fam : Protocols, host : Hosts \cup {"any", "garbled"},
             port : Ports, str : BOOLEAN]

\* The type of each variable.
Types ==
    /\ fds \in [Fds -> {Free} \cup UdpFd \cup PtpFd]
    /\ ifc \in IfType
    /\ nic \in [Nics -> [tx : TxTypes, rx : RxFilters \cup KeptFilters]]
    /\ phc \in [fd : Fds \cup {-1}, clkId : Fds \cup {-1}, index : Ptps \cup {-1},
                device : {"none", "NULL", "device"}]
    /\ clock \in [Ptps -> Times] /\ phase \in [Ptps -> (-PhaseBound)..PhaseBound]
    /\ ts \in Times
    /\ addr \in {NoAddr} \cup AddrType
    /\ sock \in [fd : Fds \cup {-1}, type : Protocols \cup {"none", "Invalid_PROTO"}]

\* The inductive invariant.
Inv == Types /\ DescriptorsOwned /\ WholeInterface

\* The kernel gives the lowest descriptor that is free, if there is one.
LEMMA NextFdFree ==
    ASSUME NEW f, ~Full(f)
    PROVE  NextFd(f) \in Fds /\ f[NextFd(f)] = Free
<1> DEFINE S == {n \in Fds : f[n] = Free}
<1>1. S # {} /\ S \in SUBSET Nat
  BY SockAssumption DEF Full, Fds
<1> HIDE DEF S
<1>2. PICK x \in S : \A y \in S : <<y, x>> \notin OpToRel(<, Nat)
  BY <1>1, WFMin, NatLessThanWellFounded, Zenon
<1>3. \A y \in S : ~(y < x)
  BY <1>1, <1>2, Zenon DEF OpToRel
<1>4. \A y \in S : x <= y
  BY <1>1, <1>3
<1>5. Min(S) \in S
  BY <1>4 DEF Min
<1> QED  BY <1>5 DEF NextFd, S

\* Nothing is open at the start.
LEMMA InitInv == Init => Inv
<1> SUFFICES ASSUME Init PROVE Inv
  OBVIOUS
<1>1. Zero \in Times
  BY Positive, DevicesAssumption DEF Zero, Times, Secs
<1>2. Types
  <2>1. 0 \in (-PhaseBound)..PhaseBound
    BY DevicesAssumption
  <2> QED  BY <1>1, <2>1, SockAssumption DEF Init, Types, Fds, NoIf, IfType, NoPhc, NoAddr, NoSock, TxTypes
<1>3. DescriptorsOwned
  BY SockAssumption DEF Init, DescriptorsOwned, Fds, NoPhc, NoSock, Free
<1>4. WholeInterface
  BY DEF Init, WholeInterface, NoIf
<1> QED  BY <1>2, <1>3, <1>4 DEF Inv

\* The operations on the time stamp touch nothing else.
LEMMA SetStampInv ==
    ASSUME Inv, NEW t \in Stamp, SetStamp(t)
    PROVE  Inv'
<1>1. t \in Times
  BY DEF SetStamp, Times, Stamp
<1>2. ts' = t /\ UNCHANGED <<fds, ifc, nic, phc, clock, phase, addr, sock>>
  BY DEF SetStamp, ifVars, phcVars, sockVars
<1> QED  BY <1>1, <1>2 DEF Inv, Types, DescriptorsOwned, WholeInterface

\* A time within the bound is a normalised time stamp.
LEMMA TimesAreStamps == Times \subseteq Stamp /\ Times # {}
<1>1. Zero \in Times
  BY Positive, DevicesAssumption DEF Zero, Times, Secs
<1> QED  BY <1>1, DevicesAssumption DEF Times, Stamp, Secs

\* Every operation on the time stamp leaves a normalised one (time.c:27-171).
LEMMA TimeStepSets ==
    ASSUME Inv, TimeStep
    PROVE  \E t \in Stamp : SetStamp(t)
<1>1. ts \in Stamp /\ NsecPerSec \in Nat \ {0} /\ SecBound \in Nat
  BY TimesAreStamps, Positive, DevicesAssumption DEF Inv, Types
<1>2. CASE StampFromTimespec
  <2>1. PICK sec \in Secs, nsec \in {-1, 0, NsecPerSec - 1, NsecPerSec} :
               SetStamp(FromTimespec(ts, [sec |-> sec, nsec |-> nsec]))
    BY <1>2 DEF StampFromTimespec
  <2>2. FromTimespec(ts, [sec |-> sec, nsec |-> nsec]) \in Stamp
    BY <1>1 DEF FromTimespec, Stamp, Secs
  <2> QED  BY <2>1, <2>2
<1>3. CASE StampSetTs
  <2>1. PICK n \in (-SecBound * NsecPerSec)..(SecBound * NsecPerSec) : SetStamp(SetTs(n))
    BY <1>3 DEF StampSetTs
  <2>2. n \in Int
    BY <1>1
  <2> QED  BY <2>1, <2>2, SetTsExact
<1>4. CASE StampAddMilliseconds
  <2>1. PICK m \in Msecs : SetStamp(AddMilliseconds(ts, m))
    BY <1>4 DEF StampAddMilliseconds
  <2>2. m \in Int
    BY DevicesAssumption DEF Msecs
  <2> QED  BY <1>1, <2>1, <2>2, AddMillisecondsExact
<1>5. CASE StampFromTimestamp
  <2>1. PICK nsec \in 0..NsecPerSec, low \in 0..SecBound :
               SetStamp(FromTimestamp(ts, [NoWire EXCEPT !.low = low, !.nsec = nsec]).ts)
    BY <1>5 DEF StampFromTimestamp
  <2>2. low + LowRange * 0 \in Int
    BY <1>1, TimeAssumption
  <2>3. FromTimestamp(ts, [NoWire EXCEPT !.low = low, !.nsec = nsec]).ts \in Stamp
    BY <1>1, <2>2 DEF FromTimestamp, Stamp, NoWire, GetUint48
  <2> QED  BY <2>1, <2>3
<1> QED  BY <1>2, <1>3, <1>4, <1>5 DEF TimeStep

-----------------------------------------------------------------------------

\* What the interface object holds after so many calls of an initialisation.
LEMMA InitIfGives ==
    ASSUME NEW n \in Nics, NEW byName \in BOOLEAN, NEW two \in BOOLEAN, NEW calls \in 0..8,
           InitIf(n, byName, two, calls)
    PROVE  ifc' =
             [init     |-> calls = 8,
              name     |-> IF calls = 8 THEN n ELSE ifc.name,
              index    |-> IF calls = 8 \/ (byName /\ calls >= 2) THEN n ELSE ifc.index,
              mac      |-> IF calls >= 3 THEN n ELSE ifc.mac,
              ipv4     |-> IF calls >= 4 THEN n ELSE ifc.ipv4,
              ptp      |-> IF calls >= 7 THEN n ELSE ifc.ptp,
              haveIpv6 |-> ifc.haveIpv6,
              asked    |-> IF calls < 8 THEN ifc.asked ELSE IF two THEN "two" ELSE "one"]
BY DEF InitIf, Described

\* An initialisation of an interface object closes the socket it opened whatever
\* call fails, and one that succeeds replaces all that earlier attempts left
\* (if.c:135-220).
LEMMA InitIfInv ==
    ASSUME Inv, NEW n \in Nics, NEW byName \in BOOLEAN, NEW two \in BOOLEAN, NEW calls \in 0..8,
           InitIf(n, byName, two, calls)
    PROVE  Inv'
<1>1. UNCHANGED <<phc, clock, phase, ts, addr, sock>>
  BY DEF InitIf, phcVars, sockVars
<1>2. fds' = fds
  <2>1. CASE calls = 0
    BY <2>1 DEF InitIf
  <2>2. CASE calls # 0
    <3>1. NextFd(fds) \in Fds /\ fds[NextFd(fds)] = Free
      BY <2>2, NextFdFree DEF InitIf
    <3>2. fds' = Close(Open(fds, Udp("UDP_IPv4")), NextFd(fds))
      BY <2>2 DEF InitIf
    <3> QED  BY <3>1, <3>2 DEF Open, Close, Inv, Types
  <2> QED  BY <2>1, <2>2
<1>3. WantedConfig(nic[n], two) \in [tx : TxTypes, rx : RxFilters \cup KeptFilters]
  BY DEF WantedConfig, TxTypes, KeptFilters, Inv, Types
<1>4. nic' \in [Nics -> [tx : TxTypes, rx : RxFilters \cup KeptFilters]]
  BY <1>3 DEF InitIf, Inv, Types
<1>5. ifc' = [init     |-> calls = 8,
              name     |-> IF calls = 8 THEN n ELSE ifc.name,
              index    |-> IF calls = 8 \/ (byName /\ calls >= 2) THEN n ELSE ifc.index,
              mac      |-> IF calls >= 3 THEN n ELSE ifc.mac,
              ipv4     |-> IF calls >= 4 THEN n ELSE ifc.ipv4,
              ptp      |-> IF calls >= 7 THEN n ELSE ifc.ptp,
              haveIpv6 |-> ifc.haveIpv6,
              asked    |-> IF calls < 8 THEN ifc.asked ELSE IF two THEN "two" ELSE "one"]
  BY InitIfGives
<1>6. /\ ifc.init \in BOOLEAN /\ ifc.name \in Nics \cup {"none", "NULL"}
      /\ ifc.index \in Nics \cup {"none"} /\ ifc.mac \in Nics \cup {"none"}
      /\ ifc.ipv4 \in Nics \cup {"none"} /\ ifc.ptp \in Nics \cup {"none"}
      /\ ifc.haveIpv6 \in BOOLEAN /\ ifc.asked \in {"none", "one", "two"}
  BY DEF Inv, Types, IfType
<1>7. ifc' \in IfType
  BY <1>5, <1>6 DEF IfType
<1>8. ifc'.init => /\ ifc'.name \in Nics
                   /\ \A f \in {"index", "mac", "ipv4", "ptp"} : ifc'[f] = ifc'.name
  <2>1. ifc'.init <=> calls = 8
    BY <1>5
  <2>2. calls = 8 => /\ ifc'.name = n /\ ifc'.index = n /\ ifc'.mac = n
                     /\ ifc'.ipv4 = n /\ ifc'.ptp = n
    BY <1>5
  <2> QED  BY <2>1, <2>2
<1> QED  BY <1>1, <1>2, <1>4, <1>7, <1>8 DEF Inv, Types, DescriptorsOwned, WholeInterface

\* The other operations on an interface object, and another program's.
LEMMA IfInv ==
    ASSUME Inv, IfStep
    PROVE  Inv'
<1>1. CASE IfAlloc \/ IfFree
  <2>1. UNCHANGED <<fds, nic, phc, clock, phase, ts, addr, sock>> /\ ifc' \in {NewIf, NoIf}
    BY <1>1 DEF IfAlloc, IfFree, phcVars, sockVars
  <2>2. NewIf \in IfType /\ NoIf \in IfType /\ ~NewIf.init /\ ~NoIf.init
    BY DEF NewIf, NoIf, IfType
  <2> QED  BY <2>1, <2>2 DEF Inv, Types, DescriptorsOwned, WholeInterface
<1>2. CASE GetIPv6
  <2>1. UNCHANGED <<fds, nic, phc, clock, phase, ts, addr, sock>>
    BY <1>2 DEF GetIPv6, phcVars, sockVars
  <2>2. PICK found \in BOOLEAN : ifc' = [ifc EXCEPT !.haveIpv6 = @ \/ found]
    BY <1>2 DEF GetIPv6
  <2> QED  BY <2>1, <2>2 DEF Inv, Types, DescriptorsOwned, WholeInterface, IfType
<1>3. CASE BindToDevice
  <2>1. UNCHANGED <<ifc, nic, phc, clock, phase, ts, addr, sock>> /\ sock.fd \in Fds /\ ifc.name \in Nics
    BY <1>3, SockAssumption DEF BindToDevice, ifVars, phcVars, sockVars, Inv, Types, WholeInterface, Fds
  <2>2. fds[sock.fd] \in UdpFd
    BY <1>3, <2>1 DEF BindToDevice, Inv, Types, DescriptorsOwned, Free, PtpFd
  <2>3. fds' = [fds EXCEPT ![sock.fd].device = ifc.name]
    BY <1>3 DEF BindToDevice
  <2>4. /\ fds'[sock.fd] \in UdpFd /\ fds'[sock.fd].fam = fds[sock.fd].fam
        /\ \A m \in Fds \ {sock.fd} : fds'[m] = fds[m]
        /\ fds' \in [Fds -> {Free} \cup UdpFd \cup PtpFd]
    BY <2>1, <2>2, <2>3 DEF UdpFd, Inv, Types
  <2>5. \A m \in Fds : fds'[m] # Free <=> fds[m] # Free
    BY <2>2, <2>4 DEF UdpFd, Free
  <2>6. phc.fd >= 0 => phc.fd \in Fds /\ phc.fd # sock.fd
    BY <1>3, <2>1, SockAssumption DEF Inv, Types, DescriptorsOwned, Fds
  <2>7. DescriptorsOwned'
    BY <2>1, <2>2, <2>4, <2>5, <2>6 DEF DescriptorsOwned, Inv, UdpFd
  <2> QED  BY <2>1, <2>4, <2>7 DEF Inv, Types, WholeInterface
<1>4. ASSUME NEW n \in Nics, Reconfigured(n) PROVE Inv'
  <2>1. UNCHANGED <<fds, ifc, phc, clock, phase, ts, addr, sock>>
    BY <1>4 DEF Reconfigured, phcVars, sockVars
  <2>2. nic' \in [Nics -> [tx : TxTypes, rx : RxFilters \cup KeptFilters]]
    BY <1>4 DEF Reconfigured, Inv, Types
  <2> QED  BY <2>1, <2>2 DEF Inv, Types, DescriptorsOwned, WholeInterface
<1> QED  BY <1>1, <1>2, <1>3, <1>4, InitIfInv DEF IfStep

-----------------------------------------------------------------------------

\* Setting a PTP clock touches no object.
LEMMA SetClockInv ==
    ASSUME Inv, NEW d \in Ptps, NEW t \in Stamp, SetClock(d, t)
    PROVE  Inv'
<1>1. t \in Times
  BY DevicesAssumption DEF SetClock, Times, Stamp, Secs
<1>2. clock' = [clock EXCEPT ![d] = t] /\ UNCHANGED <<fds, ifc, nic, phc, phase, ts, addr, sock>>
  BY DEF SetClock, ifVars, sockVars
<1> QED  BY <1>1, <1>2 DEF Inv, Types, DescriptorsOwned, WholeInterface

\* An initialisation of a clock object keeps the descriptor it opened or closes
\* it, and then leaves the object as it was (phc.c:62-137).
LEMMA InitPhcInv ==
    ASSUME Inv, NEW d \in Ptps \cup {OtherDevice}, NEW index, index = IF d \in Ptps THEN d ELSE -1,
           NEW rd \in BOOLEAN, NEW calls \in 0..2, InitPhc(d, index, rd, calls)
    PROVE  Inv'
<1>1. UNCHANGED <<ifc, nic, clock, phase, ts, addr, sock>>
  BY DEF InitPhc, ifVars, sockVars
<1>2. CASE calls < 2
  <2>1. fds' = fds /\ phc' = phc
    <3>1. CASE calls = 1
      <4>1. NextFd(fds) \in Fds /\ fds[NextFd(fds)] = Free
        BY <3>1, NextFdFree DEF InitPhc
      <4>2. fds' = Close(Open(fds, Ptp(d, rd)), NextFd(fds)) /\ phc' = phc
        BY <3>1 DEF InitPhc
      <4> QED  BY <4>1, <4>2 DEF Open, Close, Inv, Types
    <3>2. CASE calls = 0
      BY <3>2 DEF InitPhc
    <3> QED  BY <1>2, <3>1, <3>2
  <2> QED  BY <1>1, <2>1 DEF Inv, Types, DescriptorsOwned, WholeInterface
<1>3. CASE calls = 2
  <2>1. PICK fd \in Fds : fd = NextFd(fds) /\ fds[fd] = Free
    BY <1>3, NextFdFree DEF InitPhc
  <2>2. d \in Ptps /\ index = d /\ phc.fd = -1
    BY <1>3 DEF InitPhc
  <2>3. fds' = [fds EXCEPT ![fd] = Ptp(d, rd)]
    BY <1>3, <2>1 DEF InitPhc, Open
  <2>4. PICK name \in {"device", "NULL"} :
               phc' = [fd |-> fd, clkId |-> fd, index |-> d, device |-> name]
    BY <1>3, <2>1, <2>2 DEF InitPhc
  <2>5. Ptp(d, rd) \in PtpFd /\ Ptp(d, rd) # Free /\ Ptp(d, rd).kind = "ptp" /\ Ptp(d, rd).ptp = d
    BY <2>2 DEF Ptp, PtpFd, Free
  <2>6. fd \in Nat /\ fd # sock.fd
    BY <2>1, SockAssumption DEF Inv, Types, DescriptorsOwned, Fds, Free
  <2>7. /\ fds'[fd] = Ptp(d, rd) /\ \A m \in Fds \ {fd} : fds'[m] = fds[m]
        /\ fds' \in [Fds -> {Free} \cup UdpFd \cup PtpFd]
    BY <2>1, <2>3, <2>5 DEF Inv, Types
  <2>8. DescriptorsOwned'
    <3>1. \A n \in Fds : fds'[n] # Free <=> ((n = phc'.fd) # (n = sock.fd))
      BY <2>1, <2>2, <2>4, <2>5, <2>6, <2>7, SockAssumption DEF Inv, DescriptorsOwned, Fds
    <3>2. sock.fd >= 0 => sock.fd \in Fds \ {fd}
      BY <2>6, SockAssumption DEF Inv, Types, Fds
    <3> QED  BY <1>1, <2>4, <2>5, <2>7, <3>1, <3>2 DEF Inv, DescriptorsOwned
  <2>9. Types'
    BY <1>1, <2>2, <2>4, <2>7 DEF Inv, Types
  <2> QED  BY <1>1, <2>8, <2>9 DEF Inv, WholeInterface
<1> QED  BY <1>2, <1>3

\* Freeing a clock object closes its descriptor, and no other (phc.c:94-102).
LEMMA PhcFreeInv ==
    ASSUME Inv, PhcFree
    PROVE  Inv'
<1>1. UNCHANGED <<ifc, nic, clock, phase, ts, addr, sock>> /\ phc' = NoPhc
  BY DEF PhcFree, ifVars, sockVars
<1>2. CASE phc.fd >= 0
  <2>1. PICK fd \in Fds : fd = phc.fd
    BY <1>2, SockAssumption DEF Inv, Types, Fds
  <2>2. fds' = [fds EXCEPT ![fd] = Free]
    BY <1>2, <2>1 DEF PhcFree, Close
  <2>3. fd # sock.fd /\ fd \in Nat
    BY <2>1, SockAssumption DEF Inv, Types, DescriptorsOwned, Fds, Free
  <2>4. /\ fds'[fd] = Free /\ \A m \in Fds \ {fd} : fds'[m] = fds[m]
        /\ fds' \in [Fds -> {Free} \cup UdpFd \cup PtpFd]
    BY <2>1, <2>2 DEF Inv, Types
  <2>5. sock.fd >= 0 => sock.fd \in Fds \ {fd}
    BY <2>3, SockAssumption DEF Inv, Types, Fds
  <2>6. \A n \in Fds : fds'[n] # Free <=> ((n = NoPhc.fd) # (n = sock.fd))
    BY <2>1, <2>3, <2>4, SockAssumption DEF Inv, DescriptorsOwned, NoPhc, Fds
  <2>7. DescriptorsOwned'
    BY <1>1, <2>4, <2>5, <2>6 DEF Inv, DescriptorsOwned, NoPhc
  <2> QED  BY <1>1, <2>4, <2>7 DEF Inv, Types, WholeInterface, NoPhc
<1>3. CASE phc.fd = -1
  <2>1. fds' = fds
    BY <1>3 DEF PhcFree
  <2> QED  BY <1>1, <1>3, <2>1 DEF Inv, Types, DescriptorsOwned, WholeInterface, NoPhc
<1> QED  BY <1>2, <1>3, SockAssumption DEF Inv, Types, Fds

\* The sum of two times is the sum of their nanoseconds.
LEMMA SumIn ==
    ASSUME NEW a \in Times, NEW b \in Times
    PROVE  /\ (a.sec + b.sec) * NsecPerSec + a.nsec + b.nsec \in Int
           /\ (a.sec + b.sec) * NsecPerSec + a.nsec + b.nsec = Nanoseconds(a) + Nanoseconds(b)
<1>1. /\ a.sec \in Int /\ b.sec \in Int /\ a.nsec \in Int /\ b.nsec \in Int
      /\ NsecPerSec \in Int
  BY Positive, DevicesAssumption DEF Times, Secs
<1> QED  BY <1>1 DEF Nanoseconds

\* The 64 bits of a time's nanoseconds are a number.
LEMMA GetTsInt ==
    ASSUME NEW t \in Stamp
    PROVE  GetTs(t) \in Int
<1>1. t.sec \in Int /\ t.nsec \in Int /\ NsecPerSec \in Int /\ HalfWord \in Nat \ {0}
  BY Positive, TimeAssumption DEF Stamp
<1>2. t.sec * NsecPerSec + t.nsec \in Int
  BY <1>1
<1> DEFINE n == t.sec * NsecPerSec + t.nsec
<1> HIDE DEF n
<1>3. (n + HalfWord) % (2 * HalfWord) \in Int
  BY <1>1, <1>2 DEF n
<1> QED  BY <1>1, <1>3 DEF GetTs, Wrap64, n

\* A part of a correction leaves less of it, of the same sign.
LEMMA Parts ==
    ASSUME NEW n \in (-PhaseBound)..PhaseBound, NEW part \in (0..n) \union (n..0)
    PROVE  part \in Int /\ n - part \in (-PhaseBound)..PhaseBound
BY DevicesAssumption

\* Moving a clock by a number of nanoseconds.
LEMMA LaterIn ==
    ASSUME Inv, NEW d \in Ptps, NEW n \in Int
    PROVE  Later(d, n) \in Stamp /\ Nanoseconds(Later(d, n)) = Nanoseconds(clock[d]) + n
<1>1. clock[d].sec \in Int /\ clock[d].nsec \in Int /\ NsecPerSec \in Int
  BY TimesAreStamps, Positive DEF Inv, Types, Stamp
<1> DEFINE m == clock[d].sec * NsecPerSec + clock[d].nsec + n
<1>2. m \in Int /\ m = Nanoseconds(clock[d]) + n
  BY <1>1 DEF Nanoseconds
<1> HIDE DEF m
<1>3. SetTs(m) \in Stamp /\ Nanoseconds(SetTs(m)) = m
  BY <1>2, SetTsExact
<1> QED  BY <1>2, <1>3 DEF Later, m

\* A clock's servo touches no object.
LEMMA ServoInv ==
    ASSUME Inv, NEW d \in Ptps, ServoCorrects(d)
    PROVE  Inv'
<1>1. PICK part \in (0..phase[d]) \union (phase[d]..0) :
          /\ Later(d, part).sec \in ClockSecs
          /\ clock' = [clock EXCEPT ![d] = Later(d, part)]
          /\ phase' = [phase EXCEPT ![d] = @ - part]
          /\ UNCHANGED <<uses, fds, ifVars, phc, ts, sockVars>>
  BY DEF ServoCorrects
<1>2. UNCHANGED <<fds, ifc, nic, phc, ts, addr, sock>>
  BY <1>1 DEF ifVars, sockVars
<1>3. phase[d] \in (-PhaseBound)..PhaseBound
  BY DEF Inv, Types
<1>4. part \in Int /\ phase[d] - part \in (-PhaseBound)..PhaseBound
  BY <1>3, Parts
<1>5. Later(d, part) \in Times
  BY <1>1, <1>4, LaterIn, DevicesAssumption DEF Times, Stamp, Secs
<1>6. /\ clock' \in [Ptps -> Times] /\ phase' \in [Ptps -> (-PhaseBound)..PhaseBound]
  BY <1>1, <1>4, <1>5 DEF Inv, Types
<1> QED  BY <1>2, <1>6 DEF Inv, Types, DescriptorsOwned, WholeInterface

\* The operations on a clock object.
LEMMA PhcInv ==
    ASSUME Inv, PhcStep
    PROVE  Inv'
<1>1. ts \in Stamp /\ ts \in Times /\ \A d \in Ptps : clock[d] \in Stamp /\ clock[d] \in Times
  BY TimesAreStamps DEF Inv, Types
<1>2. CASE PhcAlloc
  <2>1. UNCHANGED <<fds, ifc, nic, clock, phase, ts, addr, sock>> /\ phc = NoPhc /\ phc' = NewPhc
    BY <1>2 DEF PhcAlloc, ifVars, sockVars
  <2>2. NewPhc = [fd |-> -1, clkId |-> -1, index |-> -1, device |-> "NULL"]
    BY DEF NewPhc, NoPhc
  <2> QED  BY <2>1, <2>2 DEF Inv, Types, DescriptorsOwned, WholeInterface, NoPhc
<1>3. ASSUME NEW rd \in BOOLEAN, NEW calls \in 0..2, PhcInitDev(rd, calls)
      PROVE  Inv'
  <2>1. PICK target \in Targets, underDev \in Targets, slash \in BOOLEAN :
          LET d == IF target # NoDevice THEN target ELSE IF slash THEN NoDevice ELSE underDev
          IN  d # NoDevice /\ InitPhc(d, IF d \in Ptps THEN d ELSE -1, rd, calls)
    BY <1>3 DEF PhcInitDev
  <2>2. PICK d \in Ptps \cup {OtherDevice} : InitPhc(d, IF d \in Ptps THEN d ELSE -1, rd, calls)
    BY <2>1 DEF Targets
  <2> QED  BY <2>2, InitPhcInv
<1>4. ASSUME NEW rd \in BOOLEAN, NEW calls \in 0..2, PhcInitIndex(rd, calls)
      PROVE  Inv'
  BY <1>4, InitPhcInv DEF PhcInitIndex
<1>5. CASE PhcGetTime
  BY <1>1, <1>5, SetStampInv DEF PhcGetTime
<1>6. CASE PhcSetTime
  BY <1>1, <1>6, SetClockInv DEF PhcSetTime
<1>7. CASE PhcOffset
  <2>1. PICK d \in Ptps :
          SetClock(d, SetTs((clock[d].sec + ts.sec) * NsecPerSec + clock[d].nsec + ts.nsec))
    BY <1>7 DEF PhcOffset
  <2> DEFINE n == (clock[d].sec + ts.sec) * NsecPerSec + clock[d].nsec + ts.nsec
  <2>2. n \in Int
    BY <1>1, SumIn
  <2> HIDE DEF n
  <2>3. SetTs(n) \in Stamp
    BY <2>2, SetTsExact
  <2> QED  BY <2>1, <2>3, SetClockInv DEF n
<1>8. CASE PhcSetPhase
  <2>1. PICK d \in Ptps : /\ GetTs(ts) \in (-PhaseBound)..PhaseBound
                          /\ phase' = [phase EXCEPT ![d] = GetTs(ts)]
    BY <1>8 DEF PhcSetPhase
  <2>2. UNCHANGED <<fds, ifc, nic, phc, clock, ts, addr, sock>>
    BY <1>8 DEF PhcSetPhase, ifVars, sockVars
  <2> QED  BY <2>1, <2>2 DEF Inv, Types, DescriptorsOwned, WholeInterface
<1>9. ASSUME NEW d \in Ptps, ServoCorrects(d) PROVE Inv'
  BY <1>9, ServoInv
<1> QED  BY <1>2, <1>3, <1>4, <1>5, <1>6, <1>7, <1>8, <1>9, PhcFreeInv DEF PhcStep

-----------------------------------------------------------------------------

\* The operations on an address touch nothing else.
LEMMA SetAddrInv ==
    ASSUME Inv, NEW a \in {NoAddr} \cup AddrType, SetAddr(a)
    PROVE  Inv'
<1>1. addr' = a /\ UNCHANGED <<fds, ifc, nic, phc, clock, phase, ts, sock>>
  BY DEF SetAddr, ifVars, phcVars
<1> QED  BY <1>1 DEF Inv, Types, DescriptorsOwned, WholeInterface

\* Every operation on an address leaves an address, and so does what a receipt
\* writes to it.
LEMMA AddressInv ==
    ASSUME Inv, AddressAlloc \/ AddressFree \/ AddressSet \/ SocketRecv
    PROVE  Inv'
<1>1. ASSUME NEW a \in AddrType, NEW fam \in Protocols, NEW host \in Hosts
      PROVE  SetIP(a, fam, host).addr \in AddrType
  BY <1>1 DEF SetIP, AddrType
<1>2. CASE AddressAlloc
  <2>1. \A type \in Protocols : AddrAlloc(type) \in AddrType
    BY DevicesAssumption DEF AddrAlloc, AddrType
  <2> QED  BY <1>2, <2>1, SetAddrInv DEF AddressAlloc
<1>3. CASE AddressFree
  BY <1>3, SetAddrInv DEF AddressFree
<1>4. CASE AddressSet
  <2>1. addr \in AddrType
    BY <1>4 DEF AddressSet, Inv, Types
  <2>2. ASSUME NEW fam \in Protocols, NEW form \in Protocols \union {"name"}, NEW host \in Hosts
        PROVE  SetIPStr(addr, fam, [form |-> form, host |-> host]).addr \in AddrType
    BY <1>1, <2>1 DEF SetIPStr
  <2>3. SetAnyIP(addr) \in AddrType
    BY <2>1 DEF SetAnyIP, AddrType
  <2>4. \A port \in Ports : SetPort(addr, port) \in AddrType
    BY <2>1 DEF SetPort, AddrType
  <2>5. \A fam \in Protocols : GetIPStr(addr, fam) \in AddrType
    BY <2>1 DEF GetIPStr, AddrType
  <2> QED  BY <1>1, <1>4, <2>1, <2>2, <2>3, <2>4, <2>5, SetAddrInv DEF AddressSet
<1>5. CASE SocketRecv
  <2>1. addr \in AddrType
    BY <1>5 DEF SocketRecv, Inv, Types
  <2>2. sock.fd \in Fds /\ fds[sock.fd] \in UdpFd
    BY <1>5, SockAssumption DEF SocketRecv, Inv, Types, DescriptorsOwned, Fds, Free, PtpFd
  <2>3. fds[sock.fd].fam \in Protocols
    BY <2>2 DEF UdpFd
  <2>4. ASSUME NEW fam \in Protocols, NEW host \in Hosts, NEW port \in Ports, NEW empty \in BOOLEAN
        PROVE  SockRecv(addr, fam, host, port, empty).addr \in AddrType
    BY <2>1 DEF SockRecv, AddrType
  <2> QED  BY <1>5, <2>3, <2>4, SetAddrInv DEF SocketRecv
<1> QED  BY <1>2, <1>3, <1>4, <1>5

\* A socket object that had none gets the descriptor that was free.
LEMMA OpenSocketInv ==
    ASSUME Inv, sock.fd < 0, NEW what \in UdpFd, NEW fd \in Fds, fds[fd] = Free,
           NEW type \in Protocols, what.fam = type,
           fds' = [fds EXCEPT ![fd] = what], sock' = [fd |-> fd, type |-> type],
           UNCHANGED <<ifc, nic, phc, clock, phase, ts, addr>>
    PROVE  Inv'
<1>1. what # Free /\ what.kind = "udp"
  BY DEF UdpFd, Free
<1>2. fd \in Nat /\ fd # phc.fd
  BY SockAssumption DEF Inv, Types, DescriptorsOwned, Fds, Free
<1>3. /\ fds'[fd] = what /\ \A m \in Fds \ {fd} : fds'[m] = fds[m]
      /\ fds' \in [Fds -> {Free} \cup UdpFd \cup PtpFd]
  BY DEF Inv, Types
<1>4. phc.fd >= 0 => phc.fd \in Fds \ {fd}
  BY <1>2, SockAssumption DEF Inv, Types, Fds
<1>5. sock.fd = -1
  BY SockAssumption DEF Inv, Types, Fds
<1>6. \A n \in Fds : fds'[n] # Free <=> ((n = phc.fd) # (n = fd))
  BY <1>1, <1>2, <1>3, <1>5, SockAssumption DEF Inv, DescriptorsOwned, Fds
<1>7. DescriptorsOwned'
  BY <1>1, <1>3, <1>4, <1>6 DEF Inv, DescriptorsOwned
<1> QED  BY <1>3, <1>7 DEF Inv, Types, WholeInterface

\* A socket object gives its descriptor back and forgets it.
LEMMA CloseSocketInv ==
    ASSUME Inv, sock.fd >= 0, fds' = Close(fds, sock.fd),
           NEW type \in Protocols \cup {"none", "Invalid_PROTO"},
           sock' = [fd |-> -1, type |-> type],
           UNCHANGED <<ifc, nic, phc, clock, phase, ts, addr>>
    PROVE  Inv'
<1>1. PICK fd \in Fds : fd = sock.fd
  BY SockAssumption DEF Inv, Types, Fds
<1>2. fds' = [fds EXCEPT ![fd] = Free]
  BY <1>1 DEF Close
<1>3. fd # phc.fd /\ fd \in Nat
  BY <1>1, SockAssumption DEF Inv, Types, DescriptorsOwned, Fds, Free
<1>4. /\ fds'[fd] = Free /\ \A m \in Fds \ {fd} : fds'[m] = fds[m]
      /\ fds' \in [Fds -> {Free} \cup UdpFd \cup PtpFd]
  BY <1>2 DEF Inv, Types
<1>5. phc.fd >= 0 => phc.fd \in Fds \ {fd}
  BY <1>3, SockAssumption DEF Inv, Types, Fds
<1>6. \A n \in Fds : fds'[n] # Free <=> ((n = phc.fd) # (n = -1))
  BY <1>1, <1>3, <1>4, SockAssumption DEF Inv, DescriptorsOwned, Fds
<1>7. DescriptorsOwned'
  BY <1>4, <1>5, <1>6 DEF Inv, DescriptorsOwned
<1> QED  BY <1>4, <1>7 DEF Inv, Types, WholeInterface

\* An initialisation of a socket refuses one that is open, and closes what it
\* opened when a call fails; closing and freeing close once (sock.c:433-520).
LEMMA SocketInv ==
    ASSUME Inv, SocketAlloc \/ SocketInit \/ SocketClose \/ SocketFree
    PROVE  Inv'
<1>1. ASSUME NEW r, SetSocket(r)
      PROVE  sock' = r.sock /\ fds' = r.fds /\ UNCHANGED <<ifc, nic, phc, clock, phase, ts, addr>>
  BY <1>1 DEF SetSocket, ifVars, phcVars
<1>2. ASSUME UNCHANGED <<fds, sock, ifc, nic, phc, clock, phase, ts, addr>> PROVE Inv'
  BY <1>2 DEF Inv, Types, DescriptorsOwned, WholeInterface
<1>3. Refused(sock, fds).sock = sock /\ Refused(sock, fds).fds = fds
  BY DEF Refused
<1>4. ASSUME NEW what, ~Full(fds) PROVE Close(Open(fds, what), NextFd(fds)) = fds
  <2>1. NextFd(fds) \in Fds /\ fds[NextFd(fds)] = Free
    BY <1>4, NextFdFree
  <2> QED  BY <2>1 DEF Open, Close, Inv, Types
<1>5. CASE SocketAlloc
  <2>1. UNCHANGED <<fds, ifc, nic, phc, clock, phase, ts, addr>> /\ sock = NoSock /\ sock' = SockAlloc
    BY <1>5 DEF SocketAlloc, ifVars, phcVars
  <2> QED  BY <2>1 DEF Inv, Types, DescriptorsOwned, WholeInterface, NoSock, SockAlloc
<1>6. ASSUME NEW type \in Protocols, NEW calls \in 0..2, SetSocket(SockInit(sock, type, fds, calls))
      PROVE  Inv'
  <2>1. CASE SockInit(sock, type, fds, calls) = Refused(sock, fds)
    BY <1>1, <1>2, <1>3, <1>6, <2>1
  <2>2. CASE SockInit(sock, type, fds, calls) # Refused(sock, fds)
    <3>1. ~(sock.fd >= 0) /\ ~Full(fds)
      BY <2>2 DEF SockInit
    <3>2. calls # 1
      BY <1>4, <2>2, <3>1 DEF SockInit
    <3>3. SockInit(sock, type, fds, calls) =
            [ok |-> TRUE, sock |-> [fd |-> NextFd(fds), type |-> type], fds |-> Open(fds, Udp(type))]
      BY <2>2, <3>2 DEF SockInit
    <3>4. PICK fd \in Fds : fd = NextFd(fds) /\ fds[fd] = Free
      BY <3>1, NextFdFree
    <3>5. fds' = [fds EXCEPT ![fd] = Udp(type)] /\ sock' = [fd |-> fd, type |-> type]
          /\ UNCHANGED <<ifc, nic, phc, clock, phase, ts, addr>>
      BY <1>1, <1>6, <3>3, <3>4 DEF Open
    <3>6. Udp(type) \in UdpFd /\ Udp(type).fam = type
      BY DEF Udp, UdpFd
    <3>7. sock.fd < 0
      BY <3>1, SockAssumption DEF Inv, Types, Fds
    <3> QED  BY <3>4, <3>5, <3>6, <3>7, OpenSocketInv
  <2> QED  BY <2>1, <2>2
<1>7. ASSUME NEW calls \in 0..3, SetSocket(SockInitSrv(sock, addr, fds, calls))
      PROVE  Inv'
  <2>1. CASE SockInitSrv(sock, addr, fds, calls) = Refused(sock, fds)
    BY <1>1, <1>2, <1>3, <1>7, <2>1
  <2>2. CASE SockInitSrv(sock, addr, fds, calls) # Refused(sock, fds)
    <3> DEFINE what == [Udp(addr.type) EXCEPT !.bound = (calls = 3)]
    <3>1. ~(sock.fd >= 0) /\ ~Full(fds) /\ addr # NoAddr
      BY <2>2 DEF SockInitSrv
    <3>2. ~(calls < 3)
      BY <1>4, <2>2, <3>1 DEF SockInitSrv
    <3>3. SockInitSrv(sock, addr, fds, calls) =
            [ok |-> TRUE, sock |-> [fd |-> NextFd(fds), type |-> addr.type], fds |-> Open(fds, what)]
      BY <2>2, <3>2 DEF SockInitSrv
    <3>4. PICK fd \in Fds : fd = NextFd(fds) /\ fds[fd] = Free
      BY <3>1, NextFdFree
    <3>5. PICK type \in Protocols : type = addr.type
      BY <3>1 DEF Inv, Types, AddrType
    <3>6. what \in UdpFd /\ what.fam = type
      BY <3>5 DEF Udp, UdpFd
    <3> HIDE DEF what
    <3>7. fds' = [fds EXCEPT ![fd] = what] /\ sock' = [fd |-> fd, type |-> type]
          /\ UNCHANGED <<ifc, nic, phc, clock, phase, ts, addr>>
      BY <1>1, <1>7, <3>3, <3>4, <3>5 DEF Open
    <3>8. sock.fd < 0
      BY <3>1, SockAssumption DEF Inv, Types, Fds
    <3> QED  BY <3>4, <3>6, <3>7, <3>8, OpenSocketInv
  <2> QED  BY <2>1, <2>2
<1>8. CASE SocketClose
  <2>1. SetSocket(SockClose(sock, fds))
    BY <1>8 DEF SocketClose
  <2>2. CASE sock.fd < 0
    BY <1>1, <1>2, <1>3, <2>1, <2>2 DEF SockClose
  <2>3. CASE ~(sock.fd < 0)
    <3>1. sock' = [sock EXCEPT !.fd = -1] /\ fds' = Close(fds, sock.fd)
          /\ UNCHANGED <<ifc, nic, phc, clock, phase, ts, addr>>
      BY <1>1, <2>1, <2>3 DEF SockClose
    <3>2. PICK type \in Protocols \cup {"none", "Invalid_PROTO"} : sock' = [fd |-> -1, type |-> type]
      BY <3>1 DEF Inv, Types
    <3>3. sock.fd >= 0
      BY <2>3, SockAssumption DEF Inv, Types, Fds
    <3> QED  BY <3>1, <3>2, <3>3, CloseSocketInv
  <2> QED  BY <2>2, <2>3
<1>9. CASE SocketFree
  <2>1. SetSocket([SockClose(sock, fds) EXCEPT !.sock = NoSock])
    BY <1>9 DEF SocketFree
  <2>2. CASE sock.fd < 0
    <3>1. sock' = NoSock /\ fds' = fds /\ UNCHANGED <<ifc, nic, phc, clock, phase, ts, addr>>
      BY <1>1, <2>1, <2>2 DEF SockClose, Refused
    <3>2. sock.fd = -1
      BY <2>2, SockAssumption DEF Inv, Types, Fds
    <3> QED  BY <3>1, <3>2 DEF Inv, Types, DescriptorsOwned, WholeInterface, NoSock
  <2>3. CASE ~(sock.fd < 0)
    <3>1. sock' = [fd |-> -1, type |-> "none"] /\ fds' = Close(fds, sock.fd)
          /\ UNCHANGED <<ifc, nic, phc, clock, phase, ts, addr>>
      BY <1>1, <2>1, <2>3 DEF SockClose, NoSock
    <3>2. sock.fd >= 0
      BY <2>3, SockAssumption DEF Inv, Types, Fds
    <3> QED  BY <3>1, <3>2, CloseSocketInv
  <2> QED  BY <2>2, <2>3
<1> QED  BY <1>5, <1>6, <1>7, <1>8, <1>9 DEF SocketInit

-----------------------------------------------------------------------------

\* Every step keeps the invariant.
LEMMA NextInv == Inv /\ [Next]_vars => Inv'
<1> SUFFICES ASSUME Inv, [Next]_vars PROVE Inv'
  OBVIOUS
<1>1. CASE UNCHANGED vars
  BY <1>1 DEF vars, Inv, Types, DescriptorsOwned, WholeInterface
<1>2. CASE TimeStep
  BY <1>2, TimeStepSets, SetStampInv
<1>3. CASE SockStep
  BY <1>3, AddressInv, SocketInv DEF SockStep
<1> QED  BY <1>1, <1>2, <1>3, IfInv, PhcInv DEF Next

\* The types the invariant gives are within TypeOK.
LEMMA InvTypes == Inv => TypeOK
<1> SUFFICES ASSUME Inv PROVE TypeOK
  OBVIOUS
<1>1. \A n \in Fds : fds[n].kind \in {"free", "udp", "ptp"}
  BY DEF Inv, Types, Free, UdpFd, PtpFd
<1>2. \A f \in {"name", "index", "mac", "ipv4", "ptp"} : ifc[f] \in Nics \union {"none", "NULL"}
  BY DEF Inv, Types, IfType
<1>3. ts \in Stamp /\ clock \in [Ptps -> Stamp]
  BY TimesAreStamps DEF Inv, Types
<1>4. addr = NoAddr \/ /\ addr.type \in Protocols /\ addr.fam \in Protocols
                       /\ addr.host \in Hosts \union {"any", "garbled"}
                       /\ addr.port \in Ports
  BY DEF Inv, Types, AddrType
<1> QED  BY <1>1, <1>2, <1>3, <1>4 DEF Inv, Types, TypeOK

\* The invariant holds in every reachable state.
THEOREM DevInvariant == Spec => []Inv
<1> QED  BY InitInv, NextInv, PTL DEF Spec

\* Variables keep their types, and every time stamp and clock stays normalised:
\* 0 <= nanoseconds < one second (time.c, phc.c).
THEOREM DevTypeCorrect == Spec => []TypeOK
<1> QED  BY DevInvariant, InvTypes, PTL

\* However initialisations fail half-way and objects come and go, each open
\* descriptor belongs to one object and is open on what the object is for
\* (if.c:175-176, phc.c:83-84, sock.c:477).
THEOREM EachDescriptorOwned == Spec => []DescriptorsOwned
<1>1. Inv => DescriptorsOwned
  BY DEF Inv
<1> QED  BY <1>1, DevInvariant, PTL

\* An initialised interface object describes one interface, whatever failed
\* attempts on others came before (if.c:160-177, 198-219).
THEOREM OneInterface == Spec => []WholeInterface
<1>1. Inv => WholeInterface
  BY DEF Inv
<1> QED  BY <1>1, DevInvariant, PTL

\* What the steps of each part leave alone.
LEMMA TimeStepLeaves == TimeStep => UNCHANGED <<fds, ifc, nic, phc, clock, phase, addr, sock>>
BY DEF TimeStep, StampFromTimespec, StampSetTs, StampAddMilliseconds, StampFromTimestamp,
       SetStamp, ifVars, phcVars, sockVars

LEMMA IfStepLeaves == IfStep => UNCHANGED <<phc, clock, phase, ts, addr, sock>>
BY DEF IfStep, IfAlloc, IfFree, GetIPv6, BindToDevice, Reconfigured, InitIf, phcVars, sockVars

LEMMA PhcStepLeaves == PhcStep => UNCHANGED <<ifc, nic, addr, sock>>
BY DEF PhcStep, PhcAlloc, PhcFree, PhcInitDev, PhcInitIndex, InitPhc, PhcGetTime, PhcSetTime,
       PhcOffset, PhcSetPhase, ServoCorrects, SetStamp, SetClock, ifVars, phcVars, sockVars

LEMMA SockStepLeaves == SockStep => UNCHANGED <<ifc, nic, phc, clock, phase, ts>>
BY DEF SockStep, AddressAlloc, AddressFree, AddressSet, SetAddr, SocketAlloc, SocketInit,
       SocketClose, SocketFree, SetSocket, SocketRecv, ifVars, phcVars

\* An initialisation that succeeds makes its interface, and no other, stamp as
\* asked (if.c:53-134).
THEOREM StampsAsked == Spec => HwStampsAsked
<1> DEFINE Asked == LET n == ifc'.index
                    IN  /\ nic'[n].tx \in IF ifc'.asked = "two" THEN {"ON"}
                                          ELSE {"ONESTEP_SYNC", "ONESTEP_P2P"}
                        /\ nic'[n].rx \in StampsSync \/ nic[n].rx \in KeptFilters \ StampsSync
                        /\ \A m \in Nics \ {n} : nic'[m] = nic[m]
<1>1. ASSUME Inv, [Next]_vars, ~ifc.init, ifc'.init
      PROVE  Asked
  <2>1. PICK n \in Nics, byName \in BOOLEAN, two \in BOOLEAN, calls \in 0..8 :
               InitIf(n, byName, two, calls)
    <3>1. CASE TimeStep \/ PhcStep \/ SockStep \/ UNCHANGED vars
      BY <1>1, <3>1, TimeStepLeaves, PhcStepLeaves, SockStepLeaves DEF vars
    <3>2. CASE IfAlloc \/ IfFree
      BY <1>1, <3>2 DEF IfAlloc, IfFree, NewIf, NoIf
    <3>3. CASE GetIPv6 \/ BindToDevice \/ \E n \in Nics : Reconfigured(n)
      BY <1>1, <3>3 DEF GetIPv6, BindToDevice, Reconfigured, ifVars
    <3> QED  BY <1>1, <3>1, <3>2, <3>3 DEF Next, IfStep
  <2>2. /\ calls = 8 /\ ifc'.index = n
        /\ two => ifc'.asked = "two"
        /\ ~two => ifc'.asked = "one"
    <3>1. ifc'.init = (calls = 8)
      BY <2>1, InitIfGives
    <3>2. calls = 8
      BY <1>1, <3>1, Zenon
    <3>3. ifc'.index = n
      BY <2>1, <3>2, InitIfGives
    <3>4. ASSUME two PROVE ifc'.asked = "two"
      <4>1. ifc'.asked = IF calls < 8 THEN ifc.asked ELSE IF two THEN "two" ELSE "one"
        BY <2>1, InitIfGives
      <4> QED  BY <3>2, <3>4, <4>1
    <3>5. ASSUME ~two PROVE ifc'.asked = "one"
      <4>1. ifc'.asked = IF calls < 8 THEN ifc.asked ELSE IF two THEN "two" ELSE "one"
        BY <2>1, InitIfGives
      <4> QED  BY <3>2, <3>5, <4>1
    <3> QED  BY <3>2, <3>3, <3>4, <3>5
  <2>3. nic' = [nic EXCEPT ![n] = WantedConfig(nic[n], two)]
    BY <2>1, <2>2 DEF InitIf
  <2>4. nic'[n] = WantedConfig(nic[n], two) /\ \A m \in Nics \ {n} : nic'[m] = nic[m]
    BY <1>1, <2>3 DEF Inv, Types
  <2>5. /\ two => WantedConfig(nic[n], two).tx = "ON"
        /\ ~two => WantedConfig(nic[n], two).tx \in {"ONESTEP_SYNC", "ONESTEP_P2P"}
    BY DEF WantedConfig
  <2>6. \/ WantedConfig(nic[n], two).rx \in StampsSync
        \/ nic[n].rx \in KeptFilters \ StampsSync
    BY DEF WantedConfig, StampsSync
  <2> QED  BY <2>2, <2>4, <2>5, <2>6
<1>2. Inv /\ [Next]_vars => [~ifc.init /\ ifc'.init => Asked]_vars
  BY <1>1
<1> QED  BY <1>2, DevInvariant, PTL DEF Spec, HwStampsAsked

\* Times within the bound fit into 64 bits of nanoseconds, as they do up to the
\* year 2262.
TimesFit == (SecBound + 1) * NsecPerSec <= HalfWord

\* Then getTs does not overflow.
LEMMA NanosecondsIn ==
    ASSUME TimesFit, NEW t \in Times
    PROVE  /\ Nanoseconds(t) \in (-HalfWord)..(HalfWord - 1)
           /\ GetTs(t) = Nanoseconds(t)
<1>1. /\ t.sec \in (-SecBound)..SecBound /\ t.nsec \in 0..(NsecPerSec - 1)
      /\ NsecPerSec \in Nat \ {0} /\ HalfWord \in Nat \ {0} /\ SecBound \in Nat
  BY Positive, TimeAssumption, DevicesAssumption DEF Times, Secs
<1>2. t.sec * NsecPerSec <= SecBound * NsecPerSec /\ (-SecBound) * NsecPerSec <= t.sec * NsecPerSec
  BY <1>1
<1>3. /\ (SecBound + 1) * NsecPerSec = SecBound * NsecPerSec + NsecPerSec
      /\ (-SecBound) * NsecPerSec = -(SecBound * NsecPerSec)
  BY <1>1
<1> DEFINE p == t.sec * NsecPerSec
           q == SecBound * NsecPerSec
<1>4. p \in Int /\ q \in Int
  BY <1>1
<1>5. q + NsecPerSec <= HalfWord /\ p <= q /\ -q <= p
  BY <1>2, <1>3 DEF TimesFit
<1> HIDE DEF p, q
<1>6. p + t.nsec \in (-HalfWord)..(HalfWord - 1)
  BY <1>1, <1>4, <1>5
<1>7. Nanoseconds(t) \in (-HalfWord)..(HalfWord - 1)
  BY <1>6 DEF p, Nanoseconds
<1> QED  BY <1>7, GetTsExact, TimesAreStamps

\* Two normalised time stamps of one number of nanoseconds are equal.
LEMMA SameTime ==
    ASSUME NEW a \in Stamp, NEW b \in Stamp, Nanoseconds(a) = Nanoseconds(b)
    PROVE  a = b
<1>1. a.sec = b.sec /\ a.nsec = b.nsec
  BY ComparisonsExact DEF Equal
<1> QED  BY <1>1 DEF Stamp

\* Addition, conversions and comparisons are exact for every time that fits, and
\* the wire carries what it can hold (time.c:59-134, 157-171).
THEOREM ArithmeticExact ==
    ASSUME TimesFit
    PROVE  Spec => []Arithmetic
<1>1. ASSUME Inv PROVE Arithmetic
  <2>1. ts \in Times /\ ts \in Stamp
    BY <1>1, TimesAreStamps DEF Inv, Types
  <2>2. \A m \in Msecs : LET sum == AddMilliseconds(ts, m)
                         IN  /\ sum \in Stamp
                             /\ Nanoseconds(sum) = Nanoseconds(ts) + m * NsecPerMsec
    <3>1. \A m \in Msecs : m \in Int
      BY DevicesAssumption DEF Msecs
    <3> QED  BY <2>1, <3>1, AddMillisecondsExact
  <2>3. SetTs(GetTs(ts)) = ts
    <3>1. GetTs(ts) = Nanoseconds(ts) /\ GetTs(ts) \in Int
      BY <2>1, NanosecondsIn, GetTsInt
    <3>2. SetTs(GetTs(ts)) \in Stamp /\ Nanoseconds(SetTs(GetTs(ts))) = GetTs(ts)
      BY <3>1, SetTsExact
    <3> QED  BY <2>1, <3>1, <3>2, SameTime
  <2>4. \A t \in Times : /\ Less(ts, t)   <=> Nanoseconds(ts) < Nanoseconds(t)
                         /\ LessEq(ts, t) <=> Nanoseconds(ts) <= Nanoseconds(t)
                         /\ Equal(ts, t)  <=> Nanoseconds(ts) = Nanoseconds(t)
    BY <2>1, TimesAreStamps, ComparisonsExact
  <2>5. LET w == ToTimestamp(ts)
        IN  /\ w.ok <=> ts.sec \in 0..Uint48Max
            /\ w.ok => FromTimestamp(Zero, NetToCpu(CpuToNet(w.wire))) = [ok |-> TRUE, ts |-> ts]
    BY <2>1, WireRoundTrip
  <2> QED  BY <2>2, <2>3, <2>4, <2>5 DEF Arithmetic
<1> QED  BY <1>1, DevInvariant, PTL

-----------------------------------------------------------------------------

\* The clock that a clock object tells to be its own, and the time of each clock.
Own   == IF phc.fd >= 0 THEN phc.index ELSE -1
Shows == [d \in Ptps |-> Nanoseconds(clock[d])]

\* Whatever sets the time stamp takes a time in hand.
LEMMA StampTakes ==
    ASSUME NEW t \in Stamp, SetStamp(t)
    PROVE  Line!Take
<1>1. NsecPerSec \in Int /\ t.sec \in Int /\ t.nsec \in Int
  BY Positive DEF Stamp
<1> QED  BY <1>1 DEF SetStamp, Line!Take, Nanoseconds, phcVars

\* A clock that is set shows the time it is set to, and no other clock changes.
LEMMA ClockShows ==
    ASSUME Inv, NEW d \in Ptps, NEW t \in Times, clock' = [clock EXCEPT ![d] = t]
    PROVE  Shows' = [Shows EXCEPT ![d] = Nanoseconds(t)]
BY DEF Shows, Inv, Types, Nanoseconds

\* The kernel finds the clock that the object tells to be its own.
LEMMA OwnClock ==
    ASSUME Inv, NEW d \in Ptps, WritesClock(d)
    PROVE  Own = d /\ Own \in Ptps
BY DEF WritesClock, UsesClock, Own, Inv, DescriptorsOwned

\* Setting, stepping and correcting the phase of a clock are steps of the time
\* line.
LEMMA PhcOnLine ==
    ASSUME TimesFit, Inv, PhcSetTime \/ PhcOffset \/ PhcSetPhase
    PROVE  Line!Next
<1>1. /\ ts \in Stamp /\ ts \in Times
      /\ \A d \in Ptps : clock[d] \in Stamp /\ clock[d] \in Times
  BY TimesAreStamps DEF Inv, Types
<1>2. PICK d \in Ptps : /\ WritesClock(d)
                        /\ \/ SetClock(d, ts)
                           \/ SetClock(d, SetTs((clock[d].sec + ts.sec) * NsecPerSec
                                                  + clock[d].nsec + ts.nsec))
                           \/ /\ GetTs(ts) \in (-PhaseBound)..PhaseBound
                              /\ phase' = [phase EXCEPT ![d] = GetTs(ts)]
                              /\ UNCHANGED <<uses, fds, ifVars, phc, clock, ts, sockVars>>
  BY DEF PhcSetTime, PhcOffset, PhcSetPhase
<1>3. Own = d /\ Own \in Ptps
  BY <1>2, OwnClock
<1>4. CASE SetClock(d, ts)
  <2>1. clock' = [clock EXCEPT ![d] = ts] /\ UNCHANGED <<phc, phase, ts>>
    BY <1>4 DEF SetClock
  <2>2. Shows' = [Shows EXCEPT ![Own] = Nanoseconds(ts)]
    BY <1>1, <1>3, <2>1, ClockShows
  <2>3. Line!Set
    BY <2>1, <2>2 DEF Line!Set, Own, Shows, Nanoseconds
  <2> QED  BY <1>3, <2>3 DEF Line!Next, Own
<1>5. CASE SetClock(d, SetTs((clock[d].sec + ts.sec) * NsecPerSec + clock[d].nsec + ts.nsec))
  <2>1. PICK n \in Int : n = (clock[d].sec + ts.sec) * NsecPerSec + clock[d].nsec + ts.nsec
    BY <1>1, SumIn
  <2>2. n = Nanoseconds(clock[d]) + Nanoseconds(ts)
    BY <1>1, <2>1, SumIn
  <2>3. /\ clock' = [clock EXCEPT ![d] = SetTs(n)] /\ SetTs(n).sec \in Secs
        /\ UNCHANGED <<phc, phase, ts>>
    BY <1>5, <2>1, DevicesAssumption DEF SetClock, Secs
  <2>4. SetTs(n) \in Times /\ Nanoseconds(SetTs(n)) = n
    BY <2>3, SetTsExact DEF Times, Stamp
  <2>5. Shows[d] = Nanoseconds(clock[d])
    BY DEF Shows
  <2>6. Shows' = [Shows EXCEPT ![Own] = @ + Nanoseconds(ts)]
    BY <1>3, <2>2, <2>3, <2>4, <2>5, ClockShows
  <2>7. Line!Step
    BY <2>3, <2>6 DEF Line!Step, Own, Shows, Nanoseconds
  <2> QED  BY <1>3, <2>7 DEF Line!Next, Own
<1>6. CASE /\ phase' = [phase EXCEPT ![d] = GetTs(ts)]
           /\ UNCHANGED <<uses, fds, ifVars, phc, clock, ts, sockVars>>
  <2>1. GetTs(ts) = Nanoseconds(ts)
    BY <1>1, NanosecondsIn
  <2>2. phase' = [phase EXCEPT ![Own] = Nanoseconds(ts)] /\ UNCHANGED <<phc, clock, ts>>
    BY <1>3, <1>6, <2>1
  <2>3. Line!Correct
    BY <2>2 DEF Line!Correct, Own, Nanoseconds
  <2> QED  BY <1>3, <2>3 DEF Line!Next, Own
<1> QED  BY <1>2, <1>4, <1>5, <1>6

\* So is what a clock's servo does.
LEMMA ServoOnLine ==
    ASSUME Inv, NEW d \in Ptps, ServoCorrects(d)
    PROVE  Line!Next
<1>1. PICK part \in (0..phase[d]) \union (phase[d]..0) :
          /\ Later(d, part).sec \in ClockSecs
          /\ clock' = [clock EXCEPT ![d] = Later(d, part)]
          /\ phase' = [phase EXCEPT ![d] = @ - part]
          /\ UNCHANGED <<uses, fds, ifVars, phc, ts, sockVars>>
  BY DEF ServoCorrects
<1>2. part \in Int
  BY Parts DEF Inv, Types
<1>3. Later(d, part) \in Times /\ Nanoseconds(Later(d, part)) = Nanoseconds(clock[d]) + part
  BY <1>1, <1>2, LaterIn, DevicesAssumption DEF Times, Stamp, Secs
<1>4. Shows[d] = Nanoseconds(clock[d])
  BY DEF Shows
<1>5. Shows' = [Shows EXCEPT ![d] = @ + part]
  BY <1>1, <1>3, <1>4, ClockShows
<1>6. Line!Slew(d)
  BY <1>1, <1>5 DEF Line!Slew, Shows, Nanoseconds
<1> QED  BY <1>6 DEF Line!Next

\* An object that is initialised opens the clock it then tells to be its own.
LEMMA InitOpens ==
    ASSUME Inv, NEW d \in Ptps \cup {OtherDevice}, NEW index, index = IF d \in Ptps THEN d ELSE -1,
           NEW rd \in BOOLEAN, NEW calls \in 0..2, InitPhc(d, index, rd, calls)
    PROVE  UNCHANGED <<phc, clock, phase, ts>> \/ Line!Next
<1>1. UNCHANGED <<clock, phase, ts>> /\ phc.fd = -1
  BY DEF InitPhc
<1>2. CASE calls = 2
  <2>1. d \in Ptps /\ index = d /\ NextFd(fds) \in Fds
    BY <1>2, NextFdFree DEF InitPhc
  <2>2. phc'.fd = NextFd(fds) /\ phc'.index = d
    BY <1>2, <2>1 DEF InitPhc
  <2>3. Own = -1 /\ Own' = d
    BY <1>1, <2>1, <2>2, SockAssumption DEF Own, Fds
  <2>4. Line!Open(d)
    BY <1>1, <2>3 DEF Line!Open, Own, Nanoseconds
  <2> QED  BY <2>1, <2>4 DEF Line!Next
<1>3. CASE calls # 2
  BY <1>1, <1>3 DEF InitPhc
<1> QED  BY <1>2, <1>3

\* Making, opening and freeing a clock object.
LEMMA ObjectOnLine ==
    ASSUME Inv,
           \/ PhcAlloc \/ PhcFree
           \/ \E rd \in BOOLEAN, calls \in 0..2 : PhcInitDev(rd, calls) \/ PhcInitIndex(rd, calls)
    PROVE  UNCHANGED <<phc, clock, phase, ts>> \/ Line!Next
<1>1. CASE PhcAlloc \/ PhcFree
  <2>1. UNCHANGED <<clock, phase, ts>> /\ phc'.fd = -1
    BY <1>1 DEF PhcAlloc, PhcFree, NewPhc, NoPhc
  <2>2. Line!Close
    BY <2>1 DEF Line!Close, Nanoseconds
  <2> QED  BY <2>2 DEF Line!Next
<1>2. ASSUME NEW rd \in BOOLEAN, NEW calls \in 0..2, PhcInitDev(rd, calls)
      PROVE  UNCHANGED <<phc, clock, phase, ts>> \/ Line!Next
  <2>1. PICK target \in Targets, underDev \in Targets, slash \in BOOLEAN :
          LET d == IF target # NoDevice THEN target ELSE IF slash THEN NoDevice ELSE underDev
          IN  d # NoDevice /\ InitPhc(d, IF d \in Ptps THEN d ELSE -1, rd, calls)
    BY <1>2 DEF PhcInitDev
  <2>2. PICK d \in Ptps \cup {OtherDevice} : InitPhc(d, IF d \in Ptps THEN d ELSE -1, rd, calls)
    BY <2>1 DEF Targets
  <2> QED  BY <2>2, InitOpens
<1>3. ASSUME NEW rd \in BOOLEAN, NEW calls \in 0..2, PhcInitIndex(rd, calls)
      PROVE  UNCHANGED <<phc, clock, phase, ts>> \/ Line!Next
  BY <1>3, InitOpens DEF PhcInitIndex
<1> QED  BY <1>1, <1>2, <1>3

\* A PTP clock object sets, steps and corrects the clock of the index it tells, by
\* exactly the time in the time stamp and no other clock (phc.c:61-189), for every
\* time that fits.
THEOREM DevicesImplementTimeLine ==
    ASSUME TimesFit
    PROVE  Spec => ImplementsTimeLine
<1>1. Init => Line!Init
  <2>1. Nanoseconds(Zero) = 0
    BY Positive DEF Nanoseconds, Zero
  <2> QED  BY <2>1 DEF Init, Line!Init, NoPhc
<1>2. ASSUME Inv, [Next]_vars
      PROVE  [Line!Next]_<<Nanoseconds(ts), IF phc.fd >= 0 THEN phc.index ELSE -1,
                          [d \in Ptps |-> Nanoseconds(clock[d])], phase>>
  <2>1. CASE TimeStep \/ PhcGetTime
    <3>1. \A d \in Ptps : clock[d] \in Stamp
      BY <1>2, TimesAreStamps DEF Inv, Types
    <3>2. PICK t \in Stamp : SetStamp(t)
      BY <1>2, <2>1, <3>1, TimeStepSets DEF PhcGetTime
    <3> QED  BY <3>2, StampTakes DEF Line!Next
  <2>2. CASE PhcSetTime \/ PhcOffset \/ PhcSetPhase
    BY <1>2, <2>2, PhcOnLine
  <2>3. ASSUME NEW d \in Ptps, ServoCorrects(d) PROVE Line!Next
    BY <1>2, <2>3, ServoOnLine
  <2>4. CASE UNCHANGED <<phc, clock, phase, ts>>
    BY <2>4 DEF Nanoseconds
  <2>5. CASE \/ PhcAlloc \/ PhcFree
             \/ \E rd \in BOOLEAN, calls \in 0..2 : PhcInitDev(rd, calls) \/ PhcInitIndex(rd, calls)
    BY <1>2, <2>4, <2>5, ObjectOnLine
  <2>6. CASE ~PhcStep /\ ~TimeStep
    BY <1>2, <2>4, <2>6, IfStepLeaves, SockStepLeaves DEF Next, vars
  <2> QED  BY <2>1, <2>2, <2>3, <2>5, <2>6 DEF PhcStep
<1> QED  BY <1>1, <1>2, DevInvariant, PTL DEF Spec, ImplementsTimeLine, Line!Spec
=============================================================================
