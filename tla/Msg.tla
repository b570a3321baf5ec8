-------------------------------- MODULE Msg --------------------------------
(***************************************************************************)
(* Messages in buffers (src/src/msg.c, src/src/buf.c) and the agreement of *)
(* client and service about their sizes: the client allocates one buffer   *)
(* and sends requests of one size (main_client.c), from which the answer's *)
(* size is taken (main_service.c); the answer must fit, be padded to it    *)
(* and be parsed as it was built, in a buffer both directions share.       *)
(*                                                                         *)
(* A buffer's contents are the header and the TLVs laid out after it, each *)
(* with its place, its length, the byte order its fields are in and, of a  *)
(* REQUEST TLV, its flags: all that a datagram carries from peer to peer.  *)
(* An operation of a message object maps [ok, msg, buf] to the same; like  *)
(* the && chains of the code, it does nothing once ok is false.            *)
(***************************************************************************)
EXTENDS Naturals, Sequences, FiniteSets

CONSTANTS
    Clients,      \* the clients, each a process with options of its own
    ServiceBuf,   \* size of the service's buffer
    Protocols,    \* the protocols the options may choose
    NameLens,     \* bound of the model: lengths of the time zone's name
    MaxWire       \* bound of the model: datagrams on the way to a peer

Peers == Clients \union {"service"}

AddrLen  == [UDP_IPv4 |-> 4, UDP_IPv6 |-> 16]
MaxTzLen == 10
MaxTlvs  == 4
MsgSize  == 44 \* sizeof(struct msg_t)
TlvHdr   == 4  \* sizeof(struct tlv_hdr_t)

\* The bits of tlvRequestFlags[0]: Flags0_Req_StatusTlv and Flags0_Req_AlternateTimeTlv.
ReqFlags == {"StatusTlv", "AlternateTimeTlv"}

\* _min_tlv_size.
MinTlvSize == [REQUEST |-> 8, RESPONSE |-> 28, STATUS |-> 32, ALT_TIME |-> 20, PAD |-> 4]

\* The service allocates 256 octets, not knowing what clients will send
\* (main_service.c:247); no client sends more than 160.
ASSUME SizesAssumption ==
    /\ "service" \notin Clients
    /\ ServiceBuf \in Nat /\ ServiceBuf >= 160
    /\ Protocols \subseteq DOMAIN AddrLen
    /\ NameLens \subseteq 0..MaxTzLen
    /\ MaxWire \in Nat \ {0}

VARIABLES
    opt,     \* of each client: its type, useTwoSteps and the TLVs it asks for
    clk,     \* the service's useTxTwoSteps, its parent's protocol, its name's length
    st,      \* of each peer: [ok, msg, buf], its message object and its buffer
    wire     \* of each peer: the datagrams on their way to it

vars == <<opt, clk, st, wire>>

MakeEven(n) == n + (n % 2)

-----------------------------------------------------------------------------
(* Operations of a message object.                                         *)

NoHeader == [type |-> "none", order |-> "none", length |-> 0]

\* msg_alloc, buffer_alloc.
Alloc(size) ==
    [ok  |-> TRUE,
     msg |-> [end |-> 0, len |-> 0, left |-> 0, tlvs |-> <<>>],
     buf |-> [size |-> size, len |-> 0, header |-> NoHeader, tlvs |-> <<>>]]

False(s) == [s EXCEPT !.ok = FALSE]

\* The message and the contents of the buffer replaced.
With(s, msg, len, header, tlvs) ==
    [ok  |-> TRUE,
     msg |-> msg,
     buf |-> [size |-> s.buf.size, len |-> len, header |-> header, tlvs |-> tlvs]]

\* Mutant of InitMsg: the header is not taken off what is left.
InitMsgLeft(s, type) ==
    IF ~s.ok \/ s.buf.size < MsgSize THEN False(s)
    ELSE With(s, [end |-> MsgSize, len |-> MsgSize, left |-> s.buf.size, tlvs |-> <<>>],
              MsgSize, [type |-> type, order |-> "host", length |-> 0], <<>>)

\* _init. (An _end of 0 is NULL.) What lies behind the header in the buffer is
\* overwritten or padded.
InitMsg(s, type) ==
    IF ~s.ok \/ s.buf.size < MsgSize THEN False(s)
    ELSE With(s, [end |-> MsgSize, len |-> MsgSize, left |-> s.buf.size - MsgSize, tlvs |-> <<>>],
              MsgSize, [type |-> type, order |-> "host", length |-> 0], <<>>)

\* _nextTlv gives a place.
NextTlv(s, need) ==
    IF s.ok /\ MakeEven(need) <= s.msg.left /\ Len(s.msg.tlvs) < MaxTlvs
    THEN s ELSE False(s)

\* Storing a TLV of size sz at _end; flags: its tlvRequestFlags[0], if it has.
StoreTlv(s, id, sz, flags) ==
    With(s, [end  |-> s.msg.end + sz,
             len  |-> s.msg.len + sz,
             left |-> s.msg.left - sz,
             tlvs |-> Append(s.msg.tlvs, [id |-> id, len |-> sz])],
         s.msg.len + sz, s.buf.header,
         Append(s.buf.tlvs, [id |-> id, at |-> s.msg.end, len |-> sz, order |-> "host",
                              flags |-> flags]))

CanStore(s, sz) ==
    s.ok /\ s.msg.end # 0 /\ Len(s.msg.tlvs) < MaxTlvs /\ sz <= s.msg.left

\* _addTlv; add is the part of variable length, the name or the address.
AddTlv(s, id, add) ==
    IF CanStore(s, MinTlvSize[id] + add) /\ (id = "ALT_TIME" => add <= MaxTzLen)
    THEN StoreTlv(s, id, MinTlvSize[id] + add, {}) ELSE False(s)

\* Mutant of AddCSPTPReqTlv: one bit is missing in the mask of the flags.
AddCSPTPReqTlvMask(s, flags) ==
    IF CanStore(s, MinTlvSize["REQUEST"])
    THEN StoreTlv(s, "REQUEST", MinTlvSize["REQUEST"], flags \cap {"StatusTlv"})
    ELSE False(s)

\* _addCSPTPReqTlv.
AddCSPTPReqTlv(s, flags) ==
    IF CanStore(s, MinTlvSize["REQUEST"])
    THEN StoreTlv(s, "REQUEST", MinTlvSize["REQUEST"], flags \cap ReqFlags)
    ELSE False(s)

\* _buildDone: cpu_to_net_tlv refuses a TLV that is converted already. (With
\* all MaxTlvs places taken the PAD is put in the buffer but not marked.)
BuildDone(s, size) ==
    LET pad == size - s.msg.len
    IN  IF \/ ~s.ok \/ s.msg.end = 0
           \/ size % 2 = 1 \/ size < s.msg.len \/ size > s.buf.size
           \/ pad > 0 /\ (pad < TlvHdr \/ s.msg.left < pad)
           \/ \E i \in DOMAIN s.buf.tlvs : s.buf.tlvs[i].order # "host"
        THEN False(s)
        ELSE LET stored == IF pad = 0 THEN s ELSE StoreTlv(s, "PAD", pad, {})
                 marked == IF Len(s.msg.tlvs) < MaxTlvs THEN stored.msg
                           ELSE [stored.msg EXCEPT !.tlvs = s.msg.tlvs]
                 all    == stored.buf.tlvs
             IN  With(s, marked, size,
                      [type |-> s.buf.header.type, order |-> "net", length |-> size],
                      [i \in DOMAIN all |-> [all[i] EXCEPT !.order = "net"]])

\* s_send: the buffer's contents as a datagram (and, to compare with, the TLVs
\* its sender holds it to have).
Datagram(s) == [len |-> s.buf.len, header |-> s.buf.header, tlvs |-> s.buf.tlvs,
                built |-> s.msg.tlvs]

\* s_recv: at most the buffer's size arrives.
Recv(s, d) ==
    With(s, s.msg, IF d.len <= s.buf.size THEN d.len ELSE s.buf.size, d.header, d.tlvs)

Swap(order) == IF order = "net" THEN "host" ELSE "net"

\* Mutant of ParseFirst: what was received is not taken off what is left.
ParseFirstFull(s, n) ==
    LET all == s.buf.tlvs
        end == IF n = 0 THEN MsgSize ELSE all[n].at + all[n].len
        hdr == s.buf.header
    IN  IF ~s.ok \/ s.buf.len < MsgSize \/ hdr.length > s.buf.len THEN False(s)
        ELSE With(s, [end |-> end, len |-> hdr.length, left |-> s.buf.size,
                      tlvs |-> [i \in 1..n |-> [id |-> all[i].id, len |-> all[i].len]]],
                  s.buf.len,
                  [type |-> hdr.type, order |-> Swap(hdr.order), length |-> hdr.length],
                  [i \in DOMAIN all |->
                     IF i <= n THEN [all[i] EXCEPT !.order = Swap(@)] ELSE all[i]])

\* Parsing a message that a peer built; its first n TLVs are recorded, and
\* their fields and the header's converted in place.
ParseFirst(s, n) ==
    LET all == s.buf.tlvs
        end == IF n = 0 THEN MsgSize ELSE all[n].at + all[n].len
        hdr == s.buf.header
    IN  IF ~s.ok \/ s.buf.len < MsgSize \/ hdr.length > s.buf.len THEN False(s)
        ELSE With(s, [end |-> end, len |-> hdr.length, left |-> s.buf.size - end,
                      tlvs |-> [i \in 1..n |-> [id |-> all[i].id, len |-> all[i].len]]],
                  s.buf.len,
                  [type |-> hdr.type, order |-> Swap(hdr.order), length |-> hdr.length],
                  [i \in DOMAIN all |->
                     IF i <= n THEN [all[i] EXCEPT !.order = Swap(@)] ELSE all[i]])

\* The loop goes on while more than a TLV header is left and there is a place.
Parsable(s) == {i \in DOMAIN s.buf.tlvs :
                    i <= MaxTlvs /\ s.buf.header.length - s.buf.tlvs[i].at > TlvHdr}

\* Mutant of Parse: the last place of the array is not used.
ParseOneLess(s) == ParseFirst(s, Cardinality(Parsable(s) \ {MaxTlvs}))

\* _parse.
Parse(s) == ParseFirst(s, Cardinality(Parsable(s)))

Has(s, id) == \E i \in DOMAIN s.msg.tlvs : s.msg.tlvs[i].id = id

-----------------------------------------------------------------------------
(* The client.                                                             *)

Options == [protocol : Protocols, useTwoSteps : BOOLEAN,
            useCSPTPstatus : BOOLEAN, useAltTimeScale : BOOLEAN]

\* client_main_set_tx_params: tlvReqFlags0, what o asks the service for.
TxFlags(o) == (IF o.useCSPTPstatus THEN {"StatusTlv"} ELSE {})
              \union (IF o.useAltTimeScale THEN {"AlternateTimeTlv"} ELSE {})

\* client_main_get_msg_size: what the answer to o will need.
GetMsgSize(o) ==
    MsgSize + MinTlvSize["RESPONSE"]
    + (IF o.useCSPTPstatus THEN MinTlvSize["STATUS"] + AddrLen[o.protocol] ELSE 0)
    + (IF o.useAltTimeScale THEN MinTlvSize["ALT_TIME"] + MaxTzLen ELSE 0)

\* Mutant of SmoothSize: no space for a PAD TLV.
SmoothSizeTight(sz) == sz + ((17 - ((sz + 1) % 16)) % 16)

\* client_main_smooth_size: ten octets more, a multiple of 16.
SmoothSize(sz) == (sz + 10) + ((17 - ((sz + 11) % 16)) % 16)

\* client_main_allocObjs; st->size is the size of the client's buffer.
ClientSize(c) == SmoothSize(GetMsgSize(opt[c]))

Init ==
    /\ opt \in [Clients -> Options]
    /\ clk \in [useTxTwoSteps : BOOLEAN, networkProtocol : Protocols, name : NameLens]
    /\ st = [p \in Peers |-> Alloc(IF p = "service" THEN ServiceBuf ELSE ClientSize(p))]
    /\ wire = [p \in Peers |-> <<>>]

\* client_main_sendReqSync, up to the send.
ReqSync(s, size, flags) == BuildDone(AddCSPTPReqTlv(InitMsg(s, "Sync"), flags), size)

\* Mutant of FollowUp: not padded.
FollowUpBare(s, size) == LET bare == InitMsg(s, "Follow_Up") IN BuildDone(bare, bare.msg.len)

\* client_main_sendFollowUp and sendFollowUp, up to the send.
FollowUp(s, size) == BuildDone(InitMsg(s, "Follow_Up"), size)

\* The message object after each message of an && chain: a Sync and, of two
\* steps and if the Sync was sent, a Follow_Up; and the datagrams sent of it.
Steps(sync, twoSteps, size) ==
    IF sync.ok /\ twoSteps THEN <<sync, FollowUp(sync, size)>> ELSE <<sync>>

Last(steps) == steps[Len(steps)]

Sent(c, steps) ==
    [i \in 1..(IF Last(steps).ok THEN Len(steps) ELSE Len(steps) - 1) |->
        [client |-> c, data |-> Datagram(steps[i])]]

\* The sends of client_main_flow.
ClientSend(c) ==
    LET steps == Steps(ReqSync([st[c] EXCEPT !.ok = TRUE], ClientSize(c), TxFlags(opt[c])),
                       opt[c].useTwoSteps, ClientSize(c))
    IN  /\ Len(wire["service"]) + 2 <= MaxWire
        /\ st' = [st EXCEPT ![c] = Last(steps)]
        /\ wire' = [wire EXCEPT !["service"] = @ \o Sent(c, steps)]
        /\ UNCHANGED <<opt, clk>>

\* client_main_flow receives: recv, parse and, of a Sync, client_main_rcvRespSync.
ClientReceive(c) ==
    /\ wire[c] # <<>>
    /\ LET parsed == Parse(Recv(st[c], Head(wire[c]).data))
           missing == parsed.buf.header.type = "Sync" /\ ~Has(parsed, "RESPONSE")
       IN  st' = [st EXCEPT ![c] = IF missing THEN False(parsed) ELSE parsed]
    /\ wire' = [wire EXCEPT ![c] = Tail(@)]
    /\ UNCHANGED <<opt, clk>>

-----------------------------------------------------------------------------
(* The service.                                                            *)

\* addRespTlv, addStatusTlv and addAltTimeTlv: a place is asked for, filled,
\* and added.
AddRespTlv(s) == AddTlv(NextTlv(s, MinTlvSize["RESPONSE"]), "RESPONSE", 0)

AddStatusTlv(s) ==
    LET add == AddrLen[clk.networkProtocol]
    IN  AddTlv(NextTlv(s, MinTlvSize["STATUS"] + add), "STATUS", add)

AddAltTimeTlv(s) ==
    AddTlv(NextTlv(s, MinTlvSize["ALT_TIME"] + MaxTzLen), "ALT_TIME", MakeEven(clk.name))

\* rcvReqSync: the flags of the REQUEST TLV, where the message object found it
\* in the buffer. (Of several the code takes the last; a request has one.)
RcvReqSync(s) ==
    LET i == CHOOSE i \in DOMAIN s.msg.tlvs : s.msg.tlvs[i].id = "REQUEST"
    IN  s.buf.tlvs[i].flags

\* sendRespSync, up to the send; the flags were read before the buffer was reused.
RespSync(s, size, flags) ==
    LET resp == AddRespTlv(InitMsg(s, "Sync"))
        stat == IF "StatusTlv" \in flags THEN AddStatusTlv(resp) ELSE resp
        alt  == IF "AlternateTimeTlv" \in flags THEN AddAltTimeTlv(stat) ELSE stat
    IN  BuildDone(alt, size)

\* main_flow: a Sync with a REQUEST TLV (rcvReqSync) is answered, in the
\* buffer that the request is in and with messages of the request's size.
ServiceFlow ==
    /\ wire["service"] # <<>>
    /\ LET d == Head(wire["service"])
           request == Parse(Recv(st["service"], d.data))
           size == request.buf.len
           steps == Steps(RespSync(request, size, RcvReqSync(request)), clk.useTxTwoSteps, size)
       IN  IF ~request.ok \/ request.buf.header.type # "Sync"
           THEN /\ st' = [st EXCEPT !["service"] = request]
                /\ wire' = [wire EXCEPT !["service"] = Tail(@)]
           ELSE IF ~Has(request, "REQUEST")
           THEN /\ st' = [st EXCEPT !["service"] = False(request)]
                /\ wire' = [wire EXCEPT !["service"] = Tail(@)]
           ELSE /\ Len(wire[d.client]) + 2 <= MaxWire
                /\ st' = [st EXCEPT !["service"] = Last(steps)]
                /\ wire' = [wire EXCEPT !["service"] = Tail(@),
                                        ![d.client] = @ \o Sent(d.client, steps)]
    /\ UNCHANGED <<opt, clk>>

\* UDP loses a datagram.
Lose(p) ==
    /\ wire[p] # <<>>
    /\ wire' = [wire EXCEPT ![p] = Tail(@)]
    /\ UNCHANGED <<opt, clk, st>>

Next ==
    \/ \E c \in Clients : ClientSend(c) \/ ClientReceive(c)
    \/ ServiceFlow
    \/ \E p \in Peers : Lose(p)

Spec == Init /\ [][Next]_vars

-----------------------------------------------------------------------------
(* Properties.                                                             *)

\* The sizes of a message object and of its buffer stay within the buffer
\* (msg.c's _left is unsigned: below zero it would be huge).
TypeOK ==
    \A p \in Peers :
        /\ st[p].ok \in BOOLEAN
        /\ st[p].msg.left \in 0..(st[p].buf.size - MsgSize)
        /\ st[p].msg.end \in 0..st[p].buf.size
        /\ st[p].buf.len \in 0..st[p].buf.size
        /\ Len(st[p].msg.tlvs) \in 0..MaxTlvs
        /\ Len(wire[p]) <= MaxWire

\* The lengths of the first n TLVs.
SumLen(tlvs, n) ==
    LET sum[i \in 0..n] == IF i = 0 THEN 0 ELSE sum[i - 1] + tlvs[i].len
    IN  sum[n]

\* After building as after parsing, in a buffer used over and over for both:
\* _end, _len, _left and the buffer's length tell of the same TLVs, which lie
\* one behind the other at even places, so that a TLV may be added (msg.c's
\* comments on _left and _end). All of the TLVs: msg.h calls
\* _len the "message data length without padding" (msg.h:165) and has getMsgLen
\* "exclude padding" (msg.h:270), but buildDone adds the PAD to it (msg.c:480),
\* and this is the property of what the code does.
Accounting ==
    \A p \in Peers : LET m == st[p].msg IN m.end # 0 =>
        /\ m.end + m.left = st[p].buf.size
        /\ m.end = MsgSize + SumLen(m.tlvs, Len(m.tlvs))
        /\ m.len = m.end /\ st[p].buf.len = m.len
        /\ \A i \in DOMAIN m.tlvs :
              LET t == st[p].buf.tlvs[i]
              IN  /\ t.id = m.tlvs[i].id /\ t.len = m.tlvs[i].len
                  /\ t.at = MsgSize + SumLen(m.tlvs, i - 1) /\ t.at % 2 = 0

\* Whatever the options of both sides, no request and no answer is given up for
\* want of space, for its padding or its byte order: what the client reserves
\* (main_client.c:60-77) is enough for all that the service adds to it.
AlwaysAnswered == \A p \in Peers : st[p].ok

\* Every datagram has the even size that its client chose: the answer is as
\* long as the request, in both directions and of both messages.
SameSize ==
    \A p \in Peers : \A i \in DOMAIN wire[p] :
        LET d == wire[p][i]
        IN  /\ d.data.len = ClientSize(d.client) /\ d.data.len % 2 = 0
            /\ d.data.header.length = d.data.len

\* A datagram is parsed as it was built: the same TLVs, and the header and all
\* of them in host order, each converted once on either side.
ArrivesAsBuilt ==
    \A p \in Peers : \A i \in DOMAIN wire[p] :
        LET d == wire[p][i].data
            s == Parse(Recv(st[p], d))
        IN  /\ s.ok /\ s.msg.tlvs = d.built
            /\ s.buf.header.order = "host"
            /\ \A j \in DOMAIN s.buf.tlvs : s.buf.tlvs[j].order = "host"

\* A Sync answer brings the times, and the TLVs its client's options ask for and
\* no others: the options become flags, travel in the REQUEST TLV, are found by
\* the service among the TLVs it parsed, and outlive the buffer's reuse.
AnswersRequest ==
    \A c \in Clients : \A i \in DOMAIN wire[c] :
        LET d == wire[c][i].data
            ids == {d.tlvs[j].id : j \in DOMAIN d.tlvs}
        IN  d.header.type = "Sync" =>
                ids \ {"PAD"} = {"RESPONSE"}
                      \union (IF opt[c].useCSPTPstatus THEN {"STATUS"} ELSE {})
                      \union (IF opt[c].useAltTimeScale THEN {"ALT_TIME"} ELSE {})
=============================================================================
