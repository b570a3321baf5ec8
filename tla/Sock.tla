-------------------------------- MODULE Sock --------------------------------
(***************************************************************************)
(* Addresses and UDP sockets (src/src/sock.c), as operators.               *)
(*                                                                         *)
(* An address object has the type it was allocated for, and a sockaddr of  *)
(* a family, a host and a port; "str" says whether the buffer for its      *)
(* printed form is allocated. The methods that the code has twice (a4_,    *)
(* a6_) are one operator here, which takes the family it is about and      *)
(* looks at the object's type as the table of function pointers does.      *)
(*                                                                         *)
(* A socket object has a file descriptor and a type. Descriptors are small *)
(* numbers that the kernel hands out again once they are closed.           *)
(***************************************************************************)
EXTENDS Naturals, Integers, FiniteSets, FiniteSetsExt, Sequences, SequencesExt

CONSTANTS
    Hosts,    \* the hosts there are addresses of, without "any"
    MaxFds    \* bound of the model: file descriptors the process may have open

ASSUME SockAssumption ==
    /\ "any" \notin Hosts /\ "garbled" \notin Hosts /\ "NULL" \notin Hosts
    /\ MaxFds \in Nat \ {0}

Protocols == {"UDP_IPv4", "UDP_IPv6"}
PtpUdpPort == 320

-----------------------------------------------------------------------------
(* Addresses.                                                              *)

NoAddr == [type |-> "none", fam |-> "none", host |-> "NULL", port |-> 0, str |-> FALSE]

AddrAlloc(type) ==
    IF type \in Protocols
    THEN [type |-> type, fam |-> type, host |-> "any", port |-> PtpUdpPort, str |-> FALSE]
    ELSE NoAddr

\* setIP4, setIP4Val, setIP6 and setIP: the object must be of that family.
SetIP(a, fam, host) ==
    IF a.type = fam THEN [ok |-> TRUE, addr |-> [a EXCEPT !.host = host]]
    ELSE [ok |-> FALSE, addr |-> a]

\* setIP4Str, setIP6Str, setIPStr; text is [form, host], form the family it
\* is the numeric address of, or "name".
SetIPStr(a, fam, text) ==
    IF text.form = fam THEN SetIP(a, fam, text.host) ELSE [ok |-> FALSE, addr |-> a]

SetAnyIP(a) == [a EXCEPT !.host = "any"]
IsAnyIP(a)  == a.host = "any"

SetPort(a, port) == [a EXCEPT !.port = port]

\* getIP4, getIP4Val, getIP6 and getIP.
GetIP(a, fam) == IF a.type = fam THEN a.host ELSE "NULL"

\* getIP4Str, getIP6Str, getIPStr: the buffer is allocated at first use.
GetIPStr(a, fam) == IF a.type = fam THEN [a EXCEPT !.str = TRUE] ELSE a

\* getSize: of the sockaddr the object was allocated with.
SockaddrSize(fam) == IF fam = "UDP_IPv4" THEN 16 ELSE 28
AddrSize(a)       == SockaddrSize(a.type)

AddrEq(a, b) == a.type = b.type /\ a.port = b.port /\ a.host = b.host

-----------------------------------------------------------------------------
(* From text to address.                                                   *)

\* What getaddrinfo may give for a name: results of the family asked for, of
\* any family if none was.
Lookups(type) ==
    LET Results == [fam : IF type \in Protocols THEN {type} ELSE Protocols \union {"other"},
                    host : Hosts \union {"any"}]
    IN  {<<>>} \union {<<r>> : r \in Results}
          \union {<<r, s>> : r \in {x \in Results : x.fam = "other"}, s \in Results}

\* The mutant reads a number of any type.
NumericAny(text, type) == text.form \in Protocols

\* try_inet_pton reads a number of the type asked for, or of the type the
\* colons tell.
Numeric(text, type) == text.form = IF type \in Protocols THEN type
                                   ELSE IF text.form = "UDP_IPv6" THEN "UDP_IPv6"
                                   ELSE "UDP_IPv4"

NotFound(type) == [ok |-> FALSE, type |-> type, host |-> "NULL"]

\* addressStringToBinary: the first IP address found decides; the type is
\* changed on success only. An empty list stands for an error of getaddrinfo.
AddressStringToBinary(text, type, lookup) ==
    LET first == SelectInSeq(lookup, LAMBDA r : r.fam \in Protocols)
    IN  IF Numeric(text, type)
        THEN [ok |-> TRUE, type |-> text.form, host |-> text.host]
        ELSE IF first = 0 THEN NotFound(type)
        ELSE IF lookup[first].host = "any" THEN NotFound(type)
        ELSE [ok |-> TRUE, type |-> lookup[first].fam, host |-> lookup[first].host]

-----------------------------------------------------------------------------
(* File descriptors, of the kernel.                                        *)

Fds  == 0..(MaxFds - 1)
Free == [kind |-> "free"]

Udp(fam) == [kind |-> "udp", fam |-> fam, bound |-> FALSE, device |-> "none"]

Full(fds)       == \A n \in Fds : fds[n] # Free
NextFd(fds)     == Min({n \in Fds : fds[n] = Free})
Open(fds, what) == [fds EXCEPT ![NextFd(fds)] = what]
Close(fds, fd)  == [fds EXCEPT ![fd] = Free]

-----------------------------------------------------------------------------
(* Sockets. "calls" is how many system calls succeed before one fails.     *)

NoSock    == [fd |-> -1, type |-> "none"]
SockAlloc == [fd |-> -1, type |-> "Invalid_PROTO"]

Refused(self, fds) == [ok |-> FALSE, sock |-> self, fds |-> fds]

\* s_init: socket, setsockopt.
SockInit(self, type, fds, calls) ==
    IF self.fd >= 0 \/ type \notin Protocols \/ calls = 0 \/ Full(fds) THEN Refused(self, fds)
    ELSE LET fd == NextFd(fds)
         IN  IF calls = 1 THEN Refused(self, Close(Open(fds, Udp(type)), fd))
             ELSE [ok |-> TRUE, sock |-> [fd |-> fd, type |-> type], fds |-> Open(fds, Udp(type))]

\* s_initSrv: socket, setsockopt, bind.
SockInitSrv(self, addr, fds, calls) ==
    IF self.fd >= 0 \/ addr = NoAddr \/ calls = 0 \/ Full(fds) THEN Refused(self, fds)
    ELSE LET fd     == NextFd(fds)
             opened == Open(fds, [Udp(addr.type) EXCEPT !.bound = (calls = 3)])
         IN  IF calls < 3 THEN Refused(self, Close(opened, fd))
             ELSE [ok |-> TRUE, sock |-> [fd |-> fd, type |-> addr.type], fds |-> opened]

\* The mutant keeps the number of the closed descriptor.
SockCloseKeepsFd(self, fds) ==
    IF self.fd < 0 THEN Refused(self, fds)
    ELSE [ok |-> TRUE, sock |-> self, fds |-> Close(fds, self.fd)]

\* s_close, also the first half of s_free. The descriptor is given up even
\* if close fails.
SockClose(self, fds) ==
    IF self.fd < 0 THEN Refused(self, fds)
    ELSE [ok |-> TRUE, sock |-> [self EXCEPT !.fd = -1], fds |-> Close(fds, self.fd)]

\* s_recv of a datagram with or without contents: the kernel fills the
\* sockaddr, as far as it goes, before the code compares the sizes.
SockRecv(addr, fam, host, port, empty) ==
    LET fits == AddrSize(addr) = SockaddrSize(fam)
    IN  [ok   |-> fits /\ ~empty,
         addr |-> [addr EXCEPT !.fam = fam, !.port = port,
                               !.host = IF fits THEN host ELSE "garbled"]]
=============================================================================
