----------------------------- MODULE TimeStamp -----------------------------
(***************************************************************************)
(* The time stamp object (src/src/time.c): seconds of any sign and         *)
(* nanoseconds in 0..NsecPerSec - 1, and its conversions to the other      *)
(* forms of a time that csptp uses, nanoseconds in 64 bits and the PTP     *)
(* Timestamp of a message, 48 bits of seconds in network order.            *)
(*                                                                         *)
(* Operations are operators from a time stamp to a time stamp; a fallible  *)
(* one gives [ok, ts] or [ok, wire].                                       *)
(***************************************************************************)
EXTENDS Integers

CONSTANTS
    MsecPerSec,   \* MSEC_PER_SEC, 1000
    NsecPerMsec,  \* NSEC_PER_MSEC, 10^6
    LowRange,     \* 2^32, the range of UInteger48_t._low
    HighRange,    \* 2^16, the range of UInteger48_t._high
    HalfWord      \* 2^63: int64_t is -HalfWord .. HalfWord - 1

ASSUME TimeAssumption ==
    /\ MsecPerSec \in Nat \ {0}
    /\ NsecPerMsec \in Nat \ {0}
    /\ LowRange \in Nat \ {0}
    /\ HighRange \in Nat \ {0}
    /\ HalfWord \in Nat \ {0}

NsecPerSec == MsecPerSec * NsecPerMsec
Uint48Max  == LowRange * HighRange - 1

\* The times an object holds.
Stamp == [sec : Int, nsec : 0..(NsecPerSec - 1)]

Zero == [sec |-> 0, nsec |-> 0]

-----------------------------------------------------------------------------
(* Arithmetic of C.                                                        *)

\* lldiv: division of a signed number by a positive one, towards zero.
Quot(a, b) == IF a >= 0 THEN a \div b ELSE -((-a) \div b)
Rem(a, b)  == a - b * Quot(a, b)

\* The value int64_t arithmetic gives where gcc lets it wrap.
Wrap64(n) == ((n + HalfWord) % (2 * HalfWord)) - HalfWord

-----------------------------------------------------------------------------
(* Setting and reading.                                                    *)

\* The mutant takes every timespec.
FromAnyTimespec(self, t) == [sec |-> t.sec, nsec |-> t.nsec]

\* t_fromTimespec and t_assign: a time whose nanoseconds are out of range is
\* ignored. t_toTimespec copies both fields.
FromTimespec(self, t) ==
    IF t.nsec \in 0..(NsecPerSec - 1) THEN [sec |-> t.sec, nsec |-> t.nsec] ELSE self

\* t_setTs: a negative remainder borrows a second.
SetTs(n) ==
    LET rem == Rem(n, NsecPerSec)
    IN  IF rem < 0 THEN [sec |-> Quot(n, NsecPerSec) - 1, nsec |-> rem + NsecPerSec]
        ELSE [sec |-> Quot(n, NsecPerSec), nsec |-> rem]

GetTs(self) == Wrap64(self.sec * NsecPerSec + self.nsec)

\* The mutant does not borrow.
AddMillisecondsCarry(self, msec) ==
    LET sec  == self.sec + Quot(msec, MsecPerSec)
        nsec == self.nsec + Rem(msec, MsecPerSec) * NsecPerMsec
    IN  IF nsec >= NsecPerSec THEN [sec |-> sec + 1, nsec |-> nsec - NsecPerSec]
        ELSE [sec |-> sec, nsec |-> nsec]

\* t_addMilliseconds: at most one carry or one borrow.
AddMilliseconds(self, msec) ==
    LET sec  == self.sec + Quot(msec, MsecPerSec)
        nsec == self.nsec + Rem(msec, MsecPerSec) * NsecPerMsec
    IN  IF nsec >= NsecPerSec THEN [sec |-> sec + 1, nsec |-> nsec - NsecPerSec]
        ELSE IF nsec < 0 THEN [sec |-> sec - 1, nsec |-> nsec + NsecPerSec]
        ELSE [sec |-> sec, nsec |-> nsec]

Equal(a, b)  == a.sec = b.sec /\ a.nsec = b.nsec
Less(a, b)   == a.sec < b.sec \/ (a.sec = b.sec /\ a.nsec < b.nsec)
LessEq(a, b) == a.sec < b.sec \/ (a.sec = b.sec /\ a.nsec <= b.nsec)

-----------------------------------------------------------------------------
(* The PTP Timestamp. "order" is the byte order its three fields are in.   *)

GetUint48(w)    == w.low + LowRange * w.high
SetUint48(w, n) == [w EXCEPT !.low = n % LowRange, !.high = n \div LowRange]

NoWire == [high |-> 0, low |-> 0, nsec |-> 0, order |-> "cpu"]

\* t_toTimestamp.
ToTimestamp(self) ==
    IF self.sec < 0 \/ self.nsec \notin 0..(NsecPerSec - 1) \/ self.sec > Uint48Max
    THEN [ok |-> FALSE, wire |-> NoWire]
    ELSE [ok |-> TRUE, wire |-> [SetUint48(NoWire, self.sec) EXCEPT !.nsec = self.nsec]]

\* cpu_to_net_ts and net_to_cpu_ts.
CpuToNet(w) == [w EXCEPT !.order = "net"]
NetToCpu(w) == [w EXCEPT !.order = "cpu"]

\* t_fromTimestamp, of fields in the CPU's order.
FromTimestamp(self, w) ==
    IF w.nsec >= NsecPerSec THEN [ok |-> FALSE, ts |-> self]
    ELSE [ok |-> TRUE, ts |-> [sec |-> GetUint48(w), nsec |-> w.nsec]]

-----------------------------------------------------------------------------
(* What they mean: a number of nanoseconds.                                *)

Nanoseconds(t) == t.sec * NsecPerSec + t.nsec
=============================================================================
