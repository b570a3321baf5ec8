------------------------------ MODULE Devices ------------------------------
(***************************************************************************)
(* The objects that stand for things of the kernel: a network interface    *)
(* (src/src/if.c), a PTP hardware clock (src/src/phc.c), a UDP socket and  *)
(* an address (src/src/sock.c), and a time stamp (src/src/time.c), in a    *)
(* program that uses one of each in any order. They share the kernel's     *)
(* table of file descriptors.                                              *)
(*                                                                         *)
(* A method is one action: nothing interleaves with it. "calls" is how     *)
(* many of its system calls succeed before one fails, which decides how    *)
(* much of its work was done. A NULL object is one that is not allocated.  *)
(***************************************************************************)
EXTENDS Sock, TimeStamp

CONSTANTS
    Nics,      \* network interfaces
    Ptps,      \* PTP clocks, numbers of /dev/ptp<n>
    Ports,     \* UDP ports, PtpUdpPort among them
    RxFilters, \* the filters a network interface is found with
    SecBound,  \* bound of the model: seconds of a time stamp, of either sign
    ClockSecs, \* bound of the model: seconds that a clock shows, of those
    MsecBound, \* bound of the model: milliseconds that are added, of either sign
    PhaseBound,\* bound of the model: nanoseconds of a phase correction, of either sign
    Programs   \* bound of the model: the sets of objects that one program uses

ASSUME DevicesAssumption ==
    /\ "none" \notin Nics
    /\ Ptps \subseteq Nat
    /\ PtpUdpPort \in Ports
    /\ SecBound \in Nat
    /\ ClockSecs \subseteq (-SecBound)..SecBound
    /\ MsecBound \in Nat
    /\ PhaseBound \in Nat
    /\ Programs \subseteq SUBSET {"if", "phc", "ts", "addr", "sock"}

VARIABLES
    uses,   \* the objects this program uses
    fds,    \* what each file descriptor is open on
    ifc,    \* struct if_t, or NoIf
    nic,    \* of each network interface, its struct hwtstamp_config
    phc,    \* struct phc_t, or NoPhc
    clock,  \* of each PTP clock, its time
    phase,  \* of each PTP clock, the nanoseconds its servo has still to correct
    ts,     \* struct ts_t
    addr,   \* struct ipaddr_t, or NoAddr
    sock    \* struct sock_t, or NoSock

ifVars   == <<ifc, nic>>
phcVars  == <<phc, clock, phase>>
sockVars == <<addr, sock>>
vars     == <<uses, fds, ifc, nic, phc, clock, phase, ts, addr, sock>>

Msecs == (-MsecBound)..MsecBound
Secs  == (-SecBound)..SecBound
Times == [sec : Secs, nsec : 0..(NsecPerSec - 1)]

-----------------------------------------------------------------------------
(* Time stamps.                                                            *)

\* A new value, within the bound of the model.
SetStamp(t) == "ts" \in uses /\ t.sec \in Secs /\ ts' = t /\ UNCHANGED <<uses, fds, ifVars, phcVars, sockVars>>

\* Callers pass nanoseconds out of range, too.
StampFromTimespec ==
    \E sec \in Secs, nsec \in {-1, 0, NsecPerSec - 1, NsecPerSec} :
        SetStamp(FromTimespec(ts, [sec |-> sec, nsec |-> nsec]))

StampSetTs == \E n \in (-SecBound * NsecPerSec)..(SecBound * NsecPerSec) : SetStamp(SetTs(n))

StampAddMilliseconds == \E m \in Msecs : SetStamp(AddMilliseconds(ts, m))

\* A Timestamp out of a message, and one that no csptp program sent.
StampFromTimestamp ==
    \E nsec \in 0..NsecPerSec, low \in 0..SecBound :
        SetStamp(FromTimestamp(ts, [NoWire EXCEPT !.low = low, !.nsec = nsec]).ts)

-----------------------------------------------------------------------------
(* The network interface.                                                  *)

TxTypes == {"OFF", "ON", "ONESTEP_SYNC", "ONESTEP_P2P"}

NoIf == [init |-> FALSE, name |-> "NULL", index |-> "none", mac |-> "none",
         ipv4 |-> "none", ptp |-> "none", haveIpv6 |-> FALSE, asked |-> "none"]

\* if_alloc. Each field holds the network interface it was read from; "asked"
\* is the step mode asked for, which the object does not keep.
NewIf == [NoIf EXCEPT !.name = "none"]

IfAlloc ==
    /\ "if" \in uses /\ ifc = NoIf
    /\ ifc' = NewIf
    /\ UNCHANGED <<uses, fds, nic, phcVars, ts, sockVars>>

IfFree ==
    /\ ifc # NoIf
    /\ ifc' = NoIf
    /\ UNCHANGED <<uses, fds, nic, phcVars, ts, sockVars>>

\* The receive filters setHWTS leaves as they are (if.c:82-97).
KeptFilters ==
    {"ALL", "PTP_V2_L4_EVENT", "PTP_V2_L4_SYNC", "PTP_V2_L4_DELAY_REQ",
     "PTP_V2_EVENT", "PTP_V2_SYNC", "PTP_V2_DELAY_REQ"}

\* The mutant does not set one-step stamping.
WantedConfigTwoStepsOnly(cfg, useTwoSteps) ==
    [tx |-> IF useTwoSteps THEN "ON" ELSE cfg.tx,
     rx |-> IF cfg.rx \in KeptFilters THEN cfg.rx ELSE "PTP_V2_L4_SYNC"]

\* The configuration setHWTS asks for, given the one it finds.
WantedConfig(cfg, useTwoSteps) ==
    [tx |-> IF useTwoSteps THEN "ON"
            ELSE IF cfg.tx \in {"ONESTEP_SYNC", "ONESTEP_P2P"} THEN cfg.tx ELSE "ONESTEP_SYNC",
     rx |-> IF cfg.rx \in KeptFilters THEN cfg.rx ELSE "PTP_V2_L4_SYNC"]

\* The mutant forgets the index that _intIfIndex is given.
DescribedWithoutIndex(n, byName, calls) ==
    [ifc EXCEPT !.index = IF byName /\ calls >= 2 THEN n ELSE @,
                !.mac   = IF calls >= 3 THEN n ELSE @,
                !.ipv4  = IF calls >= 4 THEN n ELSE @,
                !.ptp   = IF calls >= 7 THEN n ELSE @,
                !.name  = IF calls = 8 THEN n ELSE @,
                !.init  = calls = 8]

\* What the object holds of network interface n after so many calls. An index
\* looked up by name is stored at once, one that was passed at the end.
Described(n, byName, calls) ==
    [init     |-> calls = 8,
     name     |-> IF calls = 8 THEN n ELSE ifc.name,
     index    |-> IF calls = 8 \/ (byName /\ calls >= 2) THEN n ELSE ifc.index,
     mac      |-> IF calls >= 3 THEN n ELSE ifc.mac,
     ipv4     |-> IF calls >= 4 THEN n ELSE ifc.ipv4,
     ptp      |-> IF calls >= 7 THEN n ELSE ifc.ptp,
     haveIpv6 |-> ifc.haveIpv6,
     asked    |-> ifc.asked]

\* _intIfName and _intIfIndex with initPtp and setHWTS, on network interface
\* n. The calls: socket, index or name, hardware address, IPv4 address, ts
\* info, get and, if it has to change, set the configuration, and the
\* allocation of the name.
InitIf(n, byName, useTwoSteps, calls) ==
    LET wanted == WantedConfig(nic[n], useTwoSteps)
    IN  /\ ifc # NoIf /\ ~ifc.init
        /\ calls > 0 => ~Full(fds)
        /\ calls = 6 => wanted # nic[n]
        /\ ifc' = [Described(n, byName, calls) EXCEPT
                    !.asked = IF calls < 8 THEN @ ELSE IF useTwoSteps THEN "two" ELSE "one"]
        /\ nic' = IF calls >= 7 THEN [nic EXCEPT ![n] = wanted] ELSE nic
        /\ fds' = IF calls = 0 THEN fds
                  ELSE Close(Open(fds, Udp("UDP_IPv4")), NextFd(fds))
        /\ UNCHANGED <<uses, phcVars, ts, sockVars>>

\* _getIPv6: the address is kept once it was found.
GetIPv6 ==
    /\ ifc.init
    /\ \E found \in BOOLEAN : ifc' = [ifc EXCEPT !.haveIpv6 = @ \/ found]
    /\ UNCHANGED <<uses, fds, nic, phcVars, ts, sockVars>>

\* _bind, of the program's socket.
BindToDevice ==
    /\ ifc.init /\ sock # NoSock /\ sock.fd >= 0
    /\ fds' = [fds EXCEPT ![sock.fd].device = ifc.name]
    /\ UNCHANGED <<uses, ifVars, phcVars, ts, sockVars>>

\* Another program configures the network interface.
Reconfigured(n) ==
    /\ "if" \in uses
    /\ \E tx \in TxTypes, rx \in RxFilters : nic' = [nic EXCEPT ![n] = [tx |-> tx, rx |-> rx]]
    /\ UNCHANGED <<uses, fds, ifc, phcVars, ts, sockVars>>

-----------------------------------------------------------------------------
(* The PTP hardware clock.                                                 *)

NoPhc == [fd |-> -1, clkId |-> -1, index |-> -1, device |-> "none"]

\* phc_alloc.
NewPhc == [NoPhc EXCEPT !.device = "NULL"]

PhcAlloc ==
    /\ "phc" \in uses /\ phc = NoPhc
    /\ phc' = NewPhc
    /\ UNCHANGED <<uses, fds, ifVars, clock, phase, ts, sockVars>>

PhcFree ==
    /\ phc # NoPhc
    /\ phc' = NoPhc
    /\ fds' = IF phc.fd >= 0 THEN Close(fds, phc.fd) ELSE fds
    /\ UNCHANGED <<uses, ifVars, clock, phase, ts, sockVars>>

\* What a name given to initDev leads to: a PTP clock, another character
\* device, or nothing of the kind.
OtherDevice == -1
NoDevice    == -2
Targets     == Ptps \union {OtherDevice, NoDevice}

Ptp(d, rd) == [kind |-> "ptp", ptp |-> d, readOnly |-> rd]

\* init, on a character device: open, clock_gettime. A device that is no
\* clock fails the second. The clock's id is made of the descriptor. strdup
\* of the name may fail unnoticed.
InitPhc(d, index, rd, calls) ==
    LET fd     == NextFd(fds)
        opened == Open(fds, Ptp(d, rd))
    IN  /\ phc # NoPhc /\ phc.fd = -1
        /\ calls > 0 => ~Full(fds)
        /\ calls = 2 => d \in Ptps
        /\ IF calls < 2
           THEN /\ fds' = IF calls = 1 THEN Close(opened, fd) ELSE fds
                /\ UNCHANGED phc
           ELSE /\ fds' = opened
                /\ \E name \in {"device", "NULL"} :
                     phc' = [fd |-> fd, clkId |-> fd, index |-> index, device |-> name]
        /\ UNCHANGED <<uses, ifVars, clock, phase, ts, sockVars>>

\* The mutant reads the index off the name it was given, a link of any number.
PhcInitDevByName(rd, calls) ==
    \E d \in Ptps, number \in Ptps : InitPhc(d, number, rd, calls)

\* p_initDev: the name is a path, or a file's name in /dev; the index is
\* read from the path found, /dev/ptp<n> after links are resolved.
PhcInitDev(rd, calls) ==
    \E target \in Targets, underDev \in Targets, slash \in BOOLEAN :
        LET d == IF target # NoDevice THEN target ELSE IF slash THEN NoDevice ELSE underDev
        IN  d # NoDevice /\ InitPhc(d, IF d \in Ptps THEN d ELSE -1, rd, calls)

\* p_initIndex.
PhcInitIndex(rd, calls) == \E d \in Ptps : InitPhc(d, d, rd, calls)

\* Only an initialised object is used. The kernel finds the clock by its id,
\* and changes one that was opened for writing only.
UsesClock(d)  == phc.fd >= 0 /\ fds[phc.clkId].kind = "ptp" /\ fds[phc.clkId].ptp = d
WritesClock(d) == UsesClock(d) /\ ~fds[phc.clkId].readOnly

SetClock(d, t) ==
    /\ t.sec \in ClockSecs
    /\ clock' = [clock EXCEPT ![d] = t]
    /\ UNCHANGED <<uses, fds, ifVars, phc, phase, ts, sockVars>>

\* A clock n nanoseconds later than clock d.
Later(d, n) == SetTs(clock[d].sec * NsecPerSec + clock[d].nsec + n)

\* p_getTime.
PhcGetTime == \E d \in Ptps : UsesClock(d) /\ SetStamp(clock[d])

\* p_setTime.
PhcSetTime == \E d \in Ptps : WritesClock(d) /\ SetClock(d, ts)

\* p_offsetClock: the kernel adds seconds and nanoseconds to its clock.
PhcOffset ==
    \E d \in Ptps :
        /\ WritesClock(d)
        /\ SetClock(d, SetTs((clock[d].sec + ts.sec) * NsecPerSec + clock[d].nsec + ts.nsec))

\* p_setPhase: ADJ_OFFSET leaves a correction with the clock, in place of what
\* was left of an earlier one.
PhcSetPhase ==
    \E d \in Ptps :
        /\ WritesClock(d)
        /\ GetTs(ts) \in (-PhaseBound)..PhaseBound
        /\ phase' = [phase EXCEPT ![d] = GetTs(ts)]
        /\ UNCHANGED <<uses, fds, ifVars, phc, clock, ts, sockVars>>

\* The servo of a clock makes a part of its correction, whenever it likes and
\* whether or not a program has the clock open.
ServoCorrects(d) ==
    \E part \in (0..phase[d]) \union (phase[d]..0) :
        /\ Later(d, part).sec \in ClockSecs
        /\ clock' = [clock EXCEPT ![d] = Later(d, part)]
        /\ phase' = [phase EXCEPT ![d] = @ - part]
        /\ UNCHANGED <<uses, fds, ifVars, phc, ts, sockVars>>

-----------------------------------------------------------------------------
(* The address and the socket.                                             *)

SetAddr(a) == addr' = a /\ UNCHANGED <<uses, fds, ifVars, phcVars, ts, sock>>

AddressAlloc == "addr" \in uses /\ addr = NoAddr /\ \E type \in Protocols : SetAddr(AddrAlloc(type))
AddressFree  == addr # NoAddr /\ SetAddr(NoAddr)

\* The setters, and the getter that allocates.
AddressSet ==
    /\ addr # NoAddr
    /\ \/ \E fam \in Protocols, host \in Hosts : SetAddr(SetIP(addr, fam, host).addr)
       \/ \E fam \in Protocols, form \in Protocols \union {"name"}, host \in Hosts :
            SetAddr(SetIPStr(addr, fam, [form |-> form, host |-> host]).addr)
       \/ SetAddr(SetAnyIP(addr))
       \/ \E port \in Ports : SetAddr(SetPort(addr, port))
       \/ \E fam \in Protocols : SetAddr(GetIPStr(addr, fam))

SocketAlloc ==
    /\ "sock" \in uses /\ sock = NoSock
    /\ sock' = SockAlloc
    /\ UNCHANGED <<uses, fds, ifVars, phcVars, ts, addr>>

SetSocket(r) ==
    /\ sock' = r.sock
    /\ fds' = r.fds
    /\ UNCHANGED <<uses, ifVars, phcVars, ts, addr>>

SocketInit ==
    /\ sock # NoSock
    /\ \/ \E type \in Protocols, calls \in 0..2 : SetSocket(SockInit(sock, type, fds, calls))
       \/ \E calls \in 0..3 :
            /\ calls = 3 => addr.fam = addr.type
            /\ SetSocket(SockInitSrv(sock, addr, fds, calls))

SocketClose == sock # NoSock /\ SetSocket(SockClose(sock, fds))

\* s_free.
SocketFree == sock # NoSock /\ SetSocket([SockClose(sock, fds) EXCEPT !.sock = NoSock])

\* s_recv: a datagram comes from a host of the socket's family.
SocketRecv ==
    /\ sock # NoSock /\ sock.fd >= 0 /\ addr # NoAddr
    /\ \E host \in Hosts, port \in Ports, empty \in BOOLEAN :
         SetAddr(SockRecv(addr, fds[sock.fd].fam, host, port, empty).addr)

-----------------------------------------------------------------------------

Init ==
    /\ uses \in Programs
    /\ fds = [n \in Fds |-> Free]
    /\ ifc = NoIf
    /\ \E rx \in RxFilters : nic = [n \in Nics |-> [tx |-> "OFF", rx |-> rx]]
    /\ phc = NoPhc
    /\ clock = [d \in Ptps |-> Zero]
    /\ phase = [d \in Ptps |-> 0]
    /\ ts = Zero
    /\ addr = NoAddr
    /\ sock = NoSock

TimeStep == StampFromTimespec \/ StampSetTs \/ StampAddMilliseconds \/ StampFromTimestamp

IfStep ==
    \/ IfAlloc \/ IfFree \/ GetIPv6 \/ BindToDevice
    \/ \E n \in Nics, byName \in BOOLEAN, two \in BOOLEAN, calls \in 0..8 :
         InitIf(n, byName, two, calls)
    \/ \E n \in Nics : Reconfigured(n)

PhcStep ==
    \/ PhcAlloc \/ PhcFree
    \/ \E rd \in BOOLEAN, calls \in 0..2 : PhcInitDev(rd, calls) \/ PhcInitIndex(rd, calls)
    \/ PhcGetTime \/ PhcSetTime \/ PhcOffset \/ PhcSetPhase
    \/ \E d \in Ptps : ServoCorrects(d)

SockStep ==
    \/ AddressAlloc \/ AddressFree \/ AddressSet
    \/ SocketAlloc \/ SocketInit \/ SocketClose \/ SocketFree \/ SocketRecv

Next == TimeStep \/ IfStep \/ PhcStep \/ SockStep

Spec == Init /\ [][Next]_vars

-----------------------------------------------------------------------------
(* Properties.                                                             *)

TypeOK ==
    /\ \A n \in Fds : fds[n].kind \in {"free", "udp", "ptp"}
    /\ \A f \in {"name", "index", "mac", "ipv4", "ptp"} : ifc[f] \in Nics \union {"none", "NULL"}
    /\ nic \in [Nics -> [tx : TxTypes, rx : RxFilters \union KeptFilters]]
    /\ phc.fd \in Fds \union {-1} /\ phc.index \in Ptps \union {-1}
    /\ clock \in [Ptps -> Stamp] /\ phase \in [Ptps -> (-PhaseBound)..PhaseBound]
    /\ ts \in Stamp
    /\ addr = NoAddr \/ /\ addr.type \in Protocols /\ addr.fam \in Protocols
                        /\ addr.host \in Hosts \union {"any", "garbled"}
                        /\ addr.port \in Ports
    /\ sock.fd \in Fds \union {-1}

\* Whatever fails half-way and in whatever order objects come and go, each
\* open descriptor belongs to exactly one object, and an object's descriptor
\* is open on what the object is for: none is leaked (if.c:175-176, phc.c:83-84,
\* sock.c:477), closed twice, or used after the kernel gave its number away.
DescriptorsOwned ==
    /\ \A n \in Fds : fds[n] # Free <=> ((n = phc.fd) # (n = sock.fd))
    /\ phc.fd >= 0 => /\ phc.clkId = phc.fd
                      /\ fds[phc.fd].kind = "ptp"
                      /\ phc.index = fds[phc.fd].ptp
    /\ sock.fd >= 0 => /\ fds[sock.fd].kind = "udp"
                       /\ fds[sock.fd].fam = sock.type

\* An initialised interface object describes one interface, although earlier
\* attempts may have failed on another one and left its data behind
\* (if.c:160-177, 198-219).
WholeInterface ==
    ifc.init => /\ ifc.name \in Nics
                /\ \A f \in {"index", "mac", "ipv4", "ptp"} : ifc[f] = ifc.name

\* The filters under which a Sync is given a time stamp.
StampsSync == {"ALL", "PTP_V2_L4_EVENT", "PTP_V2_L4_SYNC", "PTP_V2_EVENT", "PTP_V2_SYNC"}

\* Initialising an interface makes it stamp what the step mode needs: the
\* transmission as asked for, and Syncs on receipt, unless it was stamping
\* Delay_Reqs only, which setHWTS leaves alone (if.c:82-97). It leaves other
\* interfaces alone.
HwStampsAsked ==
    [][~ifc.init /\ ifc'.init =>
          LET n == ifc'.index
          IN  /\ nic'[n].tx \in IF ifc'.asked = "two" THEN {"ON"}
                                ELSE {"ONESTEP_SYNC", "ONESTEP_P2P"}
              /\ nic'[n].rx \in StampsSync \/ nic[n].rx \in KeptFilters \ StampsSync
              /\ \A m \in Nics \ {n} : nic'[m] = nic[m]]_vars

\* The operations on a time stamp compute with the number of nanoseconds it
\* stands for, exactly and for either sign, and a message carries every time
\* that it can hold (time.c:59-134, 157-171).
Arithmetic ==
    /\ \A m \in Msecs : LET sum == AddMilliseconds(ts, m)
                        IN  /\ sum \in Stamp
                            /\ Nanoseconds(sum) = Nanoseconds(ts) + m * NsecPerMsec
    /\ SetTs(GetTs(ts)) = ts
    /\ \A t \in Times : /\ Less(ts, t)   <=> Nanoseconds(ts) < Nanoseconds(t)
                        /\ LessEq(ts, t) <=> Nanoseconds(ts) <= Nanoseconds(t)
                        /\ Equal(ts, t)  <=> Nanoseconds(ts) = Nanoseconds(t)
    /\ LET w == ToTimestamp(ts)
       IN  /\ w.ok <=> ts.sec \in 0..Uint48Max
           /\ w.ok => FromTimestamp(Zero, NetToCpu(CpuToNet(w.wire))) = [ok |-> TRUE, ts |-> ts]

-----------------------------------------------------------------------------
(* The time line that time stamps and clocks implement: their seconds and  *)
(* nanoseconds stand for a number, and an initialised clock object for the *)
(* clock whose index it tells (p_ptpIndex).                                *)

Line == INSTANCE TimeLine WITH
    Clocks  <- Ptps,
    NoClock <- -1,
    inHand  <- Nanoseconds(ts),
    own     <- IF phc.fd >= 0 THEN phc.index ELSE -1,
    shows   <- [d \in Ptps |-> Nanoseconds(clock[d])],
    owed    <- phase

\* Through the descriptor that is its clock's id, a PTP clock object sets and
\* steps the clock of the index it tells, by exactly the time in the time stamp,
\* and leaves corrections of phase with that clock and no other, although
\* descriptors are given out again and names lead to clocks through links
\* (phc.c:61-189).
ImplementsTimeLine == Line!Spec
=============================================================================
