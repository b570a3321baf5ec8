------------------------------- MODULE Csptp -------------------------------
(***************************************************************************)
(* The CSPTP exchange: clients (src/src/main_client.c) ask one service     *)
(* (src/src/main_service.c) for the time over UDP.                         *)
(*                                                                         *)
(* A client runs client_main_flow for ever: it sends a Sync request (and   *)
(* a Follow_Up when it is a two-step client), then polls its socket until  *)
(* it has a Sync answer with a RESPONSE TLV and, when that Sync says so, a *)
(* Follow_Up; the four times T1, R1, T2, R2 it collected are the result.   *)
(* The service runs main_flow for ever: it answers each Sync request with  *)
(* a Sync and, when it is a two-step service, a Follow_Up.                 *)
(*                                                                         *)
(* A time is the identity of the clock reading it comes from: the number   *)
(* req of the client's request and the number rep of the service's answer. *)
(* The exchange is right when the four readings belong together, which is  *)
(* what the identities decide; the values play no part in the control.     *)
(***************************************************************************)
EXTENDS Naturals, FiniteSets

CONSTANTS
    Clients,        \* client processes, each with a socket of its own
    TwoStepClients, \* the clients run with useTwoSteps
    UseTxTwoSteps,  \* the service's useTxTwoSteps
    SeqMax,         \* the largest sequenceId, 0xffff in the code
    WaitLoop,       \* WAIT_LOOP: unsuccessful polls before a flow gives up
    PollMs,         \* POLL_MS of the client
    CycleMs,        \* cycleTime, in milliseconds
    MsgLife,        \* a datagram dies once MsgLife later requests were sent
    MaxReq,         \* bound of the model: requests a client sends
    MaxCopies,      \* bound of the model: duplicated datagrams at a time
    Faults          \* which misbehaviours the environment is allowed

FaultKinds == {
    "late",        \* a poll may expire although an answer is on its way
    "duplicates",  \* the network may deliver a datagram twice
    "noise",       \* the socket may turn readable for an unusable datagram
    "plainSync",   \* the service's address may send a Sync without RESPONSE
    "sendFails"}   \* sendto may fail

ASSUME ClientsAssumption == TwoStepClients \subseteq Clients
ASSUME FlagAssumption    == UseTxTwoSteps \in BOOLEAN
ASSUME FaultsAssumption  == Faults \subseteq FaultKinds
ASSUME BoundsAssumption  ==
    /\ SeqMax \in Nat \ {0, 1}
    /\ WaitLoop \in Nat \ {0}
    /\ PollMs \in Nat \ {0}
    /\ CycleMs \in Nat \ {0}
    /\ MsgLife \in Nat \ {0}
    /\ MaxReq \in Nat \ {0}
    /\ MaxCopies \in Nat

VARIABLES
    pc,         \* where a client is: "send", "followUp" or "poll"
    seq,        \* *sID, the id of the client's next or current flow
    wait,       \* the message types the flow still waits for
    loops,      \* polls left
    timeouted,  \* polls that timed out
    t1, r1, t2, r2, \* the times of client_state_t
    slept,      \* milliseconds the client slept after its last flow
    spc,        \* where the service is: "poll", "respSync" or "followUp"
    params,     \* the request the service is answering, with its sender
    net,        \* the datagrams under way or in a socket's queue
    req,        \* ghost: requests each client has sent
    rep,        \* ghost: requests the service has taken up
    polls       \* ghost: polls of the current flow, up to PollsMax

times       == <<t1, r1, t2, r2>>
pollVars    == <<loops, timeouted, polls>>
clientVars  == <<pc, seq, wait, times, slept, pollVars, req>>
serviceVars == <<spc, params, rep>>
vars == <<pc, seq, wait, loops, timeouted, t1, r1, t2, r2, slept,
          spc, params, net, req, rep, polls>>

-----------------------------------------------------------------------------
MsgTypes == {"Sync", "Follow_Up"}

\* A reading of R1, T2 or R2: which request and which answer it belongs to.
Time   == [req : Nat, rep : Nat]
NoTime == [req |-> 0, rep |-> 0]

\* A PTP message and its envelope. client is the client's socket address:
\* the sender when to = "service", the receiver when to = "client".
\* tlv says whether the Sync carries the CSPTP TLV its receiver looks for.
Message == [to : {"service", "client"}, client : Clients, type : MsgTypes,
            seq : 1..SeqMax, twoSteps : BOOLEAN, tlv : BOOLEAN,
            req : Nat, rep : Nat, copy : 0..2]
NoMessage == [to |-> "none"]

\* Mutant of NextSeq: the id does not wrap.
NextSeqNoWrap(s) == s + 1

\* Mutant of NextSeq: the id wraps one too early.
NextSeqEarly(s) == IF s = SeqMax - 1 THEN 1 ELSE s + 1

\* client_main_flow's choice of the id of the next flow; 0 is never used.
NextSeq(s) == IF s = SeqMax THEN 1 ELSE s + 1

\* Mutant of Sleep: a whole second is not slept.
SleepStrict(ms) == IF ms > 1000 THEN ms ELSE 0

\* t_sleep: nothing happens unless the whole seconds are positive.
Sleep(ms) == IF ms >= 1000 THEN ms ELSE 0

\* The pause at the end of a flow with k expired polls: cycleTime less the
\* time those polls took.
CyclePause(k) == IF k * PollMs > CycleMs THEN 0 ELSE Sleep(CycleMs - k * PollMs)

\* The network forgets a datagram MsgLife requests after its own.
Live(m, sent) == sent - m.req < MsgLife

Age(ms, c, sent) == {m \in ms : m.client = c => Live(m, sent)}

Post(m) == IF Live(m, req[m.client]) THEN net \cup {m} ELSE net

ReqMessage(c, type, n) ==
    [to |-> "service", client |-> c, type |-> type, seq |-> seq[c],
     twoSteps |-> c \in TwoStepClients, tlv |-> type = "Sync",
     req |-> n, rep |-> 0, copy |-> 0]

\* The service answers with the parameters it parsed from the request.
RespMessage(type) ==
    [to |-> "client", client |-> params.client, type |-> type,
     seq |-> params.seq, twoSteps |-> UseTxTwoSteps, tlv |-> type = "Sync",
     req |-> params.req, rep |-> rep, copy |-> 0]

Stamp(m) == [req |-> m.req, rep |-> m.rep]

-----------------------------------------------------------------------------
Init ==
    /\ pc = [c \in Clients |-> "send"]
    /\ seq = [c \in Clients |-> 1]
    /\ wait = [c \in Clients |-> MsgTypes]
    /\ loops = [c \in Clients |-> WaitLoop]
    /\ timeouted = [c \in Clients |-> 0]
    /\ t1 = [c \in Clients |-> 0]
    /\ r1 = [c \in Clients |-> NoTime]
    /\ t2 = [c \in Clients |-> NoTime]
    /\ r2 = [c \in Clients |-> NoTime]
    /\ slept = [c \in Clients |-> CycleMs] \* the start is a cycle's boundary
    /\ spc = "poll"
    /\ params = NoMessage
    /\ net = {}
    /\ req = [c \in Clients |-> 0]
    /\ rep = 0
    /\ polls = [c \in Clients |-> 0]

-----------------------------------------------------------------------------
(* The client: client_main_flow, from the top of the flow to its end.      *)

\* The locals of a flow; t1 is read before the request is built and sent.
BeginFlow(c) ==
    /\ pc[c] = "send"
    /\ req[c] < MaxReq
    /\ wait' = [wait EXCEPT ![c] = MsgTypes]
    /\ loops' = [loops EXCEPT ![c] = WaitLoop]
    /\ timeouted' = [timeouted EXCEPT ![c] = 0]
    /\ polls' = [polls EXCEPT ![c] = 0]
    /\ slept' = [slept EXCEPT ![c] = 0]
    /\ UNCHANGED <<seq, r1, t2, r2>>

\* client_main_sendReqSync succeeds.
SendReqSync(c) ==
    /\ BeginFlow(c)
    /\ pc' = [pc EXCEPT ![c] = IF c \in TwoStepClients THEN "followUp" ELSE "poll"]
    /\ req' = [req EXCEPT ![c] = @ + 1]
    /\ t1' = [t1 EXCEPT ![c] = req[c] + 1]
    /\ net' = Age(net, c, req[c] + 1) \cup {ReqMessage(c, "Sync", req[c] + 1)}
    /\ UNCHANGED serviceVars

\* client_main_sendReqSync fails in sendto: t1 is the time of no request, and
\* client_main_flow returns at once, neither advancing *sID nor sleeping.
SendReqSyncFails(c) ==
    /\ "sendFails" \in Faults
    /\ BeginFlow(c)
    /\ t1' = [t1 EXCEPT ![c] = 0]
    /\ UNCHANGED <<pc, req, net, serviceVars>>

\* client_main_sendFollowUp succeeds.
SendFollowUp(c) ==
    /\ pc[c] = "followUp"
    /\ pc' = [pc EXCEPT ![c] = "poll"]
    /\ net' = net \cup {ReqMessage(c, "Follow_Up", req[c])}
    /\ UNCHANGED <<seq, wait, times, slept, pollVars, req, serviceVars>>

\* client_main_sendFollowUp fails: the flow returns as in SendReqSyncFails,
\* but its Sync request is on its way.
SendFollowUpFails(c) ==
    /\ "sendFails" \in Faults
    /\ pc[c] = "followUp"
    /\ pc' = [pc EXCEPT ![c] = "send"]
    /\ UNCHANGED <<seq, wait, times, slept, pollVars, req, net, serviceVars>>

\* Bound of the model: the ghost polls counts no further.
PollsMax == WaitLoop + 2

Polling(c) ==
    /\ pc[c] = "poll"
    /\ loops[c] > 0
    /\ wait[c] # {}
    /\ polls' = [polls EXCEPT ![c] = IF @ = PollsMax THEN @ ELSE @ + 1]

\* Something that can still reach client c is under way.
Outstanding(c) ==
    \/ \E m \in net : m.client = c
    \/ spc # "poll" /\ params.client = c

\* The poll expires after POLL_MS.
PollTimeout(c) ==
    /\ Polling(c)
    /\ "late" \in Faults \/ ~Outstanding(c)
    /\ loops' = [loops EXCEPT ![c] = @ - 1]
    /\ timeouted' = [timeouted EXCEPT ![c] = @ + 1]
    /\ UNCHANGED <<pc, seq, wait, times, slept, req, net, serviceVars>>

\* The socket is readable, but recvfrom or parse fails, or the domain or the
\* sender's address is another one.
RecvUnusable(c) ==
    /\ "noise" \in Faults
    /\ Polling(c)
    /\ loops' = [loops EXCEPT ![c] = @ - 1]
    /\ UNCHANGED <<pc, seq, wait, times, slept, timeouted, req, net, serviceVars>>

Receives(c, m) == m.to = "client" /\ m.client = c

\* Mutant of RecvStale: a foreign id costs no poll of the budget.
RecvStaleFree(c, m) ==
    /\ Polling(c)
    /\ Receives(c, m)
    /\ m.seq # seq[c]
    /\ net' = net \ {m}
    /\ UNCHANGED <<pc, seq, wait, times, slept, loops, timeouted, req, serviceVars>>

\* A datagram of the service with another sequenceId.
RecvStale(c, m) ==
    /\ Polling(c)
    /\ Receives(c, m)
    /\ m.seq # seq[c]
    /\ net' = net \ {m}
    /\ loops' = [loops EXCEPT ![c] = @ - 1]
    /\ UNCHANGED <<pc, seq, wait, times, slept, timeouted, req, serviceVars>>

\* Mutant of Accepts: the sequenceId is not compared.
AcceptsAnyId(c, m) == Polling(c) /\ Receives(c, m)

Accepts(c, m) ==
    /\ Polling(c)
    /\ Receives(c, m)
    /\ m.seq = seq[c]

\* Mutant of RecvSync: the RESPONSE TLV is not asked for.
RecvSyncNoTlv(c, m) ==
    /\ Accepts(c, m)
    /\ m.type = "Sync"
    /\ net' = net \ {m}
    /\ wait' = [wait EXCEPT ![c] = IF m.twoSteps THEN @ \ {"Sync"} ELSE {}]
    /\ t2' = [t2 EXCEPT ![c] = IF m.twoSteps THEN @ ELSE Stamp(m)]
    /\ r2' = [r2 EXCEPT ![c] = Stamp(m)]
    /\ r1' = [r1 EXCEPT ![c] = IF m.tlv THEN Stamp(m) ELSE @]
    /\ UNCHANGED <<pc, seq, t1, slept, loops, timeouted, req, serviceVars>>

\* Mutant of RecvSync: every Sync is taken for a one-step Sync's end of waiting.
RecvSyncOneStep(c, m) ==
    /\ Accepts(c, m)
    /\ m.type = "Sync"
    /\ net' = net \ {m}
    /\ wait' = [wait EXCEPT ![c] = {}]
    /\ t2' = [t2 EXCEPT ![c] = IF m.twoSteps THEN @ ELSE Stamp(m)]
    /\ r2' = [r2 EXCEPT ![c] = Stamp(m)]
    /\ r1' = [r1 EXCEPT ![c] = IF m.tlv THEN Stamp(m) ELSE @]
    /\ pc' = [pc EXCEPT ![c] = IF m.tlv THEN @ ELSE "send"]
    /\ UNCHANGED <<seq, t1, slept, loops, timeouted, req, serviceVars>>

\* case Sync. A one-step Sync clears both wait bits and brings T2. Without a
\* RESPONSE TLV the flow returns at once, as a flow that could not send does.
RecvSync(c, m) ==
    /\ Accepts(c, m)
    /\ m.type = "Sync"
    /\ net' = net \ {m}
    /\ wait' = [wait EXCEPT ![c] = IF m.twoSteps THEN @ \ {"Sync"} ELSE {}]
    /\ t2' = [t2 EXCEPT ![c] = IF m.twoSteps THEN @ ELSE Stamp(m)]
    /\ r2' = [r2 EXCEPT ![c] = Stamp(m)]
    /\ r1' = [r1 EXCEPT ![c] = IF m.tlv THEN Stamp(m) ELSE @]
    /\ pc' = [pc EXCEPT ![c] = IF m.tlv THEN @ ELSE "send"]
    /\ UNCHANGED <<seq, t1, slept, loops, timeouted, req, serviceVars>>

\* case Follow_Up.
RecvFollowUp(c, m) ==
    /\ Accepts(c, m)
    /\ m.type = "Follow_Up"
    /\ net' = net \ {m}
    /\ wait' = [wait EXCEPT ![c] = @ \ {"Follow_Up"}]
    /\ t2' = [t2 EXCEPT ![c] = Stamp(m)]
    /\ UNCHANGED <<pc, seq, t1, r1, r2, slept, loops, timeouted, req, serviceVars>>

\* Mutant of FlowEnd: the id advances only after a result.
FlowEndKeepsId(c) ==
    /\ pc[c] = "poll"
    /\ loops[c] = 0 \/ wait[c] = {}
    /\ pc' = [pc EXCEPT ![c] = "send"]
    /\ seq' = [seq EXCEPT ![c] = IF wait[c] = {} THEN NextSeq(@) ELSE @]
    /\ slept' = [slept EXCEPT ![c] = CyclePause(timeouted[c])]
    /\ UNCHANGED <<wait, times, pollVars, req, net, serviceVars>>

\* Mutant of FlowEnd: the loop is left with a result only.
FlowEndWaits(c) ==
    /\ pc[c] = "poll"
    /\ wait[c] = {}
    /\ pc' = [pc EXCEPT ![c] = "send"]
    /\ seq' = [seq EXCEPT ![c] = NextSeq(@)]
    /\ slept' = [slept EXCEPT ![c] = CyclePause(timeouted[c])]
    /\ UNCHANGED <<wait, times, pollVars, req, net, serviceVars>>

\* The loop is over, with a result or without: the id advances and the
\* client sleeps to its next cycle.
FlowEnd(c) ==
    /\ pc[c] = "poll"
    /\ loops[c] = 0 \/ wait[c] = {}
    /\ pc' = [pc EXCEPT ![c] = "send"]
    /\ seq' = [seq EXCEPT ![c] = NextSeq(@)]
    /\ slept' = [slept EXCEPT ![c] = CyclePause(timeouted[c])]
    /\ UNCHANGED <<wait, times, pollVars, req, net, serviceVars>>

-----------------------------------------------------------------------------
(* The service: main_flow, split where it receives and where it sends.     *)

\* poll, recv, parse and rcvReqSync: rxTs is read, params and the sender's
\* address are overwritten.
TakeRequest(m) ==
    /\ spc = "poll"
    /\ m.to = "service"
    /\ m.type = "Sync"
    /\ m.tlv
    /\ net' = net \ {m}
    /\ params' = m
    /\ rep' = rep + 1
    /\ spc' = "respSync"
    /\ UNCHANGED clientVars

\* case Follow_Up: break. (params is overwritten too, but is not read before
\* the next datagram overwrites it again.)
IgnoreFollowUp(m) ==
    /\ spc = "poll"
    /\ m.to = "service"
    /\ m.type = "Follow_Up"
    /\ net' = net \ {m}
    /\ UNCHANGED <<clientVars, serviceVars>>

\* Mutant of SendRespSync: the Follow_Up of a two-step service is forgotten.
SendRespSyncOnly ==
    /\ spc = "respSync"
    /\ net' = Post(RespMessage("Sync"))
    /\ spc' = "poll"
    /\ UNCHANGED <<params, rep, clientVars>>

\* sendRespSync: T2 is read, the answer is built and sent to st->address.
SendRespSync ==
    /\ spc = "respSync"
    /\ net' = Post(RespMessage("Sync"))
    /\ spc' = IF UseTxTwoSteps THEN "followUp" ELSE "poll"
    /\ UNCHANGED <<params, rep, clientVars>>

\* sendFollowUp: the T2 of sendRespSync, to the same address.
SendRespFollowUp ==
    /\ spc = "followUp"
    /\ net' = Post(RespMessage("Follow_Up"))
    /\ spc' = "poll"
    /\ UNCHANGED <<params, rep, clientVars>>

\* Either send fails; main_flow returns, and a Sync that was not sent gets no
\* Follow_Up.
ServiceSendFails ==
    /\ "sendFails" \in Faults
    /\ spc # "poll"
    /\ spc' = "poll"
    /\ UNCHANGED <<params, rep, net, clientVars>>

-----------------------------------------------------------------------------
(* The environment.                                                        *)

\* The network delivers m twice. (A datagram that is never delivered is
\* lost: no step is needed for it.)
Duplicate(m) ==
    /\ "duplicates" \in Faults
    /\ m.copy = 0
    /\ Cardinality({n \in net : n.copy = 1}) < MaxCopies
    /\ net' = (net \ {m}) \cup {[m EXCEPT !.copy = i] : i \in 1..2}
    /\ UNCHANGED <<clientVars, serviceVars>>

\* A Sync of the service's address that is no answer: it has no RESPONSE TLV.
PlainSync(c, twoSteps) ==
    /\ "plainSync" \in Faults
    /\ pc[c] = "poll"
    /\ \A m \in net : m.client = c => m.rep # 0 \/ m.to = "service"
    /\ net' = net \cup {[to |-> "client", client |-> c, type |-> "Sync",
                         seq |-> seq[c], twoSteps |-> twoSteps, tlv |-> FALSE,
                         req |-> req[c], rep |-> 0, copy |-> 2]}
    /\ UNCHANGED <<clientVars, serviceVars>>

\* The end of the bounded model: every client sent MaxReq requests.
Finished ==
    /\ \A c \in Clients : pc[c] = "send" /\ req[c] = MaxReq
    /\ UNCHANGED vars

-----------------------------------------------------------------------------
ClientStep(c) ==
    \/ SendReqSync(c)
    \/ SendReqSyncFails(c)
    \/ SendFollowUp(c)
    \/ SendFollowUpFails(c)
    \/ PollTimeout(c)
    \/ RecvUnusable(c)
    \/ \E m \in net : RecvStale(c, m) \/ RecvSync(c, m) \/ RecvFollowUp(c, m)
    \/ FlowEnd(c)

ServiceStep ==
    \/ \E m \in net : TakeRequest(m) \/ IgnoreFollowUp(m)
    \/ SendRespSync
    \/ SendRespFollowUp
    \/ ServiceSendFails

EnvStep ==
    \/ \E m \in net : Duplicate(m)
    \/ \E c \in Clients, twoSteps \in BOOLEAN : PlainSync(c, twoSteps)

Next ==
    \/ \E c \in Clients : ClientStep(c)
    \/ ServiceStep
    \/ EnvStep
    \/ Finished

Spec == Init /\ [][Next]_vars

\* Each process runs: its polls expire, so that none of its steps is for ever
\* put off. Nothing is assumed of the network.
FairSpec ==
    /\ Spec
    /\ \A c \in Clients : WF_vars(ClientStep(c))
    /\ WF_vars(ServiceStep)

-----------------------------------------------------------------------------
(* The inductive invariant behind Matched (proved in CsptpProofs).         *)

\* The number of the request that carries, or will carry, the id seq[c].
Current(c) == IF pc[c] = "send" THEN req[c] + 1 ELSE req[c]

\* The id that client c used d requests ago.
IdBefore(c, d) == IF seq[c] > d THEN seq[c] - d ELSE seq[c] - d + SeqMax

InService == IF spc = "poll" THEN {} ELSE {params}

\* Requests and answers under way are of requests that were made, and carry
\* the id the client used then, as far back as the ids reach.
IdsFollowRequests ==
    \A m \in net \cup InService :
        /\ m.req <= req[m.client]
        /\ Current(m.client) - m.req <= SeqMax
              => m.seq = IdBefore(m.client, Current(m.client) - m.req)

NetIsLive == \A m \in net : Live(m, req[m.client])

\* The service's Syncs carry a RESPONSE TLV, and only two-step clients send a
\* Follow_Up.
AnswersHaveTlv == \A m \in net : m.to = "client" /\ m.type = "Sync" => m.tlv
FollowUpClients == \A c \in Clients : pc[c] = "followUp" => c \in TwoStepClients

\* What the wait bits say of the times during a flow.
TimesOfFlow ==
    \A c \in Clients : pc[c] # "send" =>
        /\ t1[c] = req[c]
        /\ "Sync" \notin wait[c] => r1[c].req = req[c] /\ r2[c].req = req[c]
        /\ "Follow_Up" \notin wait[c] => t2[c].req = req[c]

\* The parts together: with TypeOK, inductive under NoIdReuse.
ExchangeInv ==
    /\ IdsFollowRequests
    /\ NetIsLive
    /\ AnswersHaveTlv
    /\ FollowUpClients
    /\ TimesOfFlow

\* No flow returns between sending its request and advancing the id, and an id
\* is not used again while an answer to its previous use may be under way.
NoIdReuse ==
    /\ "plainSync" \notin Faults
    /\ "sendFails" \in Faults => TwoStepClients = {}
    /\ MsgLife <= SeqMax

-----------------------------------------------------------------------------
(* Properties.                                                             *)

\* Every variable has the type of what it stands for in client_state_t,
\* service_state_t and client_main_flow; a sequenceId is never 0.
TypeOK ==
    /\ pc \in [Clients -> {"send", "followUp", "poll"}]
    /\ seq \in [Clients -> 1..SeqMax]
    /\ wait \in [Clients -> SUBSET MsgTypes]
    /\ loops \in [Clients -> 0..WaitLoop]
    /\ timeouted \in [Clients -> 0..WaitLoop]
    /\ t1 \in [Clients -> Nat]
    /\ r1 \in [Clients -> Time]
    /\ t2 \in [Clients -> Time]
    /\ r2 \in [Clients -> Time]
    /\ slept \in [Clients -> Nat]
    /\ spc \in {"poll", "respSync", "followUp"}
    /\ params \in Message \cup {NoMessage}
    /\ spc # "poll" => params \in Message
    /\ net \subseteq Message
    /\ req \in [Clients -> 0..MaxReq]
    /\ rep \in Nat
    /\ polls \in [Clients -> Nat]

\* The flow left its loop with a result, the state in which
\* client_main_flow logs the offset and the four times.
Complete(c) == pc[c] = "poll" /\ wait[c] = {}

\* The times of a result belong to one request: R1 is the arrival of the very
\* request sent at T1, T2 and R2 the departure and arrival of an answer to it
\* (main.h:41-60). Late answers to earlier requests, whatever their ids, must
\* not get in.
Matched ==
    \A c \in Clients : Complete(c) =>
        t1[c] = req[c] /\ r1[c].req = t1[c] /\ t2[c].req = t1[c] /\ r2[c].req = t1[c]

\* The times of a result belong to one answer: T2 is the departure and R2 the
\* arrival of the same RespSync, and R1 is the arrival it answers, although
\* they come in two datagrams, in either order.
SameReply ==
    \A c \in Clients : Complete(c) => r1[c] = r2[c] /\ t2[c] = r2[c]

\* While a flow waits, no datagram under way that carries its id belongs to
\* another of its client's requests: an id comes round again only when the
\* answers to its previous use are gone.
LiveIdsAreCurrent ==
    \A m \in net : pc[m.client] # "send" /\ m.seq = seq[m.client]
                        => m.req = req[m.client]

\* Whatever the environment does, R1, T2 and R2 of a result come from answers
\* the service gave: a Sync without a RESPONSE TLV contributes to none.
OnlyAnswers ==
    \A c \in Clients : Complete(c) =>
        \A t \in {r1[c], t2[c], r2[c]} : t.rep \in 1..rep

\* When no datagram comes twice a flow polls at most once more than WAIT_LOOP:
\* an accepted datagram takes no poll from the budget, but a flow can accept
\* only one that does not end it.
PollsBounded == \A c \in Clients : polls[c] <= WaitLoop + 1

\* "Cycle time" (main_client.c:19) and "Sleep to next cycle" (240): between
\* two flows at least a cycle passes, in expired polls or asleep.
CycleKept ==
    \A c \in Clients : pc[c] = "send" => timeouted[c] * PollMs + slept[c] >= CycleMs

\* Every flow comes to its end, answered or not: client_main_flow returns.
FlowEnds == \A c \in Clients : pc[c] # "send" ~> pc[c] = "send"

\* Over a network that delivers in time, every request is answered and its
\* flow completes: neither side can wait for a message the other does not send.
Answered == \A c \in Clients : pc[c] = "followUp" \/ pc[c] = "poll" ~> Complete(c)

-----------------------------------------------------------------------------
(* The abstract exchange that the flows implement.                         *)

Phase(c) ==
    IF pc[c] = "send" THEN "closed" ELSE IF wait[c] = {} THEN "complete" ELSE "open"

Pair(t) == <<t.req, t.rep>>

ResultOf(c) ==
    [t1 |-> IF Complete(c) THEN t1[c] ELSE 0,
     r1 |-> IF Complete(c) THEN Pair(r1[c]) ELSE <<0, 0>>,
     t2 |-> IF Complete(c) THEN Pair(t2[c]) ELSE <<0, 0>>,
     r2 |-> IF Complete(c) THEN Pair(r2[c]) ELSE <<0, 0>>]

Exchange == INSTANCE CsptpExchange WITH
    phase  <- [c \in Clients |-> Phase(c)],
    asked  <- req,
    given  <- rep,
    result <- [c \in Clients |-> ResultOf(c)]

\* The flows implement the abstract exchange: each one is opened by its
\* request, completes only with the times of one answer to that request, and
\* is closed in the end.
ImplementsExchange == Exchange!Spec

\* The part of it that says what may happen, not that it must.
ImplementsExchangeSteps == Exchange!Init /\ [][Exchange!Next]_Exchange!vars
=============================================================================
