---------------------------- MODULE CsptpProofs ----------------------------
(***************************************************************************)
(* Theorems about Csptp, for any set of clients, any number of ids, polls  *)
(* and requests, and any of the faults a theorem does not exclude.         *)
(***************************************************************************)
EXTENDS Csptp, TLAPS

-----------------------------------------------------------------------------
(* Lemmas about the operators.                                             *)

\* The next id is an id: never 0, never above SeqMax.
LEMMA NextSeqType == \A s \in 1..SeqMax : NextSeq(s) \in 1..SeqMax
  BY BoundsAssumption DEF NextSeq

\* A pause is a number of milliseconds, never negative, however many polls
\* expired.
LEMMA CyclePauseType == \A k \in Nat : CyclePause(k) \in Nat
<1> SUFFICES ASSUME NEW k \in Nat PROVE CyclePause(k) \in Nat
  OBVIOUS
<1>1. PICK w \in Nat : w = k * PollMs
  BY BoundsAssumption
<1>2. CyclePause(k) = IF w > CycleMs THEN 0 ELSE Sleep(CycleMs - w)
  BY <1>1 DEF CyclePause
<1> QED
  BY <1>2, BoundsAssumption DEF Sleep

\* A reading taken from a message is a time.
LEMMA StampType == \A m \in Message : Stamp(m) \in Time
  BY DEF Stamp, Message, Time

\* The records the processes send are messages.
LEMMA ReqMessageType ==
  ASSUME TypeOK, NEW c \in Clients, NEW type \in MsgTypes, NEW n \in Nat
  PROVE  ReqMessage(c, type, n) \in Message
  BY DEF TypeOK, ReqMessage, Message, MsgTypes

LEMMA RespMessageType ==
  ASSUME TypeOK, spc # "poll", NEW type \in MsgTypes
  PROVE  RespMessage(type) \in Message
  BY FlagAssumption DEF TypeOK, RespMessage, Message, MsgTypes

-----------------------------------------------------------------------------
(* Type correctness. The number of expired polls is bounded only together  *)
(* with the polls left, hence the strengthening.                           *)

PollsAccounted == \A c \in Clients : timeouted[c] + loops[c] <= WaitLoop

TypeInv == TypeOK /\ PollsAccounted

LEMMA TypeInit == Init => TypeInv
  BY BoundsAssumption DEF Init, TypeInv, TypeOK, PollsAccounted, NoTime, Time, MsgTypes

LEMMA TypeStep == TypeInv /\ [Next]_vars => TypeInv'
<1> SUFFICES ASSUME TypeInv, [Next]_vars PROVE TypeInv'
  OBVIOUS
<1> USE BoundsAssumption DEF TypeInv
<1>1. ASSUME NEW c \in Clients, SendReqSync(c) PROVE TypeInv'
  <2>1. /\ req[c] \in Nat /\ req[c] + 1 \in 0..MaxReq
        /\ ReqMessage(c, "Sync", req[c] + 1) \in Message
    BY <1>1, ReqMessageType DEF SendReqSync, BeginFlow, TypeOK, MsgTypes
  <2>2. net' \subseteq Message
    BY <1>1, <2>1 DEF SendReqSync, Age, TypeOK
  <2>3. TypeOK'
    BY <1>1, <2>1, <2>2 DEF SendReqSync, BeginFlow, TypeOK, MsgTypes, serviceVars
  <2>4. PollsAccounted'
    BY <1>1 DEF SendReqSync, BeginFlow, TypeOK, PollsAccounted
  <2> QED BY <2>3, <2>4
<1>2. ASSUME NEW c \in Clients, SendReqSyncFails(c) PROVE TypeInv'
  <2>1. TypeOK'
    BY <1>2 DEF SendReqSyncFails, BeginFlow, TypeOK, MsgTypes, serviceVars
  <2>2. PollsAccounted'
    BY <1>2 DEF SendReqSyncFails, BeginFlow, TypeOK, PollsAccounted
  <2> QED BY <2>1, <2>2
<1>3. ASSUME NEW c \in Clients, SendFollowUp(c) PROVE TypeInv'
  <2>1. ReqMessage(c, "Follow_Up", req[c]) \in Message
    BY ReqMessageType DEF TypeOK, MsgTypes
  <2> QED
    BY <1>3, <2>1
    DEF SendFollowUp, TypeOK, PollsAccounted, times, pollVars, serviceVars
<1>4. ASSUME NEW c \in Clients, SendFollowUpFails(c) PROVE TypeInv'
  BY <1>4 DEF SendFollowUpFails, TypeOK, PollsAccounted, times, pollVars, serviceVars
<1>5. ASSUME NEW c \in Clients, PollTimeout(c) PROVE TypeInv'
  BY <1>5 DEF PollTimeout, Polling, TypeOK, PollsAccounted, times, serviceVars
<1>6. ASSUME NEW c \in Clients, RecvUnusable(c) PROVE TypeInv'
  BY <1>6 DEF RecvUnusable, Polling, TypeOK, PollsAccounted, times, serviceVars
<1>7. ASSUME NEW c \in Clients, NEW m \in net, RecvStale(c, m) PROVE TypeInv'
  BY <1>7 DEF RecvStale, Polling, TypeOK, PollsAccounted, times, serviceVars
<1>8. ASSUME NEW c \in Clients, NEW m \in net, RecvSync(c, m) PROVE TypeInv'
  <2>1. Stamp(m) \in Time
    BY StampType DEF TypeOK
  <2>2. wait' \in [Clients -> SUBSET MsgTypes]
    BY <1>8 DEF RecvSync, TypeOK
  <2> QED
    BY <1>8, <2>1, <2>2
    DEF RecvSync, Accepts, Polling, TypeOK, PollsAccounted, serviceVars
<1>9. ASSUME NEW c \in Clients, NEW m \in net, RecvFollowUp(c, m) PROVE TypeInv'
  <2>1. Stamp(m) \in Time
    BY StampType DEF TypeOK
  <2>2. wait' \in [Clients -> SUBSET MsgTypes]
    BY <1>9 DEF RecvFollowUp, TypeOK
  <2> QED
    BY <1>9, <2>1, <2>2
    DEF RecvFollowUp, Accepts, Polling, TypeOK, PollsAccounted, serviceVars
<1>10. ASSUME NEW c \in Clients, FlowEnd(c) PROVE TypeInv'
  <2>1. NextSeq(seq[c]) \in 1..SeqMax /\ CyclePause(timeouted[c]) \in Nat
    BY NextSeqType, CyclePauseType DEF TypeOK
  <2> QED
    BY <1>10, <2>1
    DEF FlowEnd, TypeOK, PollsAccounted, times, pollVars, serviceVars
<1>11. ASSUME NEW m \in net, TakeRequest(m) PROVE TypeInv'
  BY <1>11 DEF TakeRequest, TypeOK, PollsAccounted, clientVars, times, pollVars
<1>12. ASSUME NEW m \in net, IgnoreFollowUp(m) PROVE TypeInv'
  BY <1>12
  DEF IgnoreFollowUp, TypeOK, PollsAccounted, clientVars, times, pollVars, serviceVars
<1>13. CASE SendRespSync
  <2>1. RespMessage("Sync") \in Message
    BY <1>13, RespMessageType DEF SendRespSync, MsgTypes
  <2>2. net' \subseteq Message
    BY <1>13, <2>1 DEF SendRespSync, Post, TypeOK
  <2> QED
    BY <1>13, <2>2 DEF SendRespSync, TypeOK, PollsAccounted, clientVars, times, pollVars
<1>14. CASE SendRespFollowUp
  <2>1. RespMessage("Follow_Up") \in Message
    BY <1>14, RespMessageType DEF SendRespFollowUp, MsgTypes
  <2>2. net' \subseteq Message
    BY <1>14, <2>1 DEF SendRespFollowUp, Post, TypeOK
  <2> QED
    BY <1>14, <2>2
    DEF SendRespFollowUp, TypeOK, PollsAccounted, clientVars, times, pollVars
<1>15. CASE ServiceSendFails
  BY <1>15 DEF ServiceSendFails, TypeOK, PollsAccounted, clientVars, times, pollVars
<1>16. ASSUME NEW m \in net, Duplicate(m) PROVE TypeInv'
  <2>1. \A i \in 1..2 : [m EXCEPT !.copy = i] \in Message
    BY DEF TypeOK, Message
  <2>2. net' \subseteq Message
    BY <1>16, <2>1 DEF Duplicate, TypeOK
  <2> QED
    BY <1>16, <2>2
    DEF Duplicate, TypeOK, PollsAccounted, clientVars, times, pollVars, serviceVars
<1>17. ASSUME NEW c \in Clients, NEW two \in BOOLEAN, PlainSync(c, two) PROVE TypeInv'
  <2>1. [to |-> "client", client |-> c, type |-> "Sync", seq |-> seq[c],
         twoSteps |-> two, tlv |-> FALSE, req |-> req[c], rep |-> 0,
         copy |-> 2] \in Message
    BY DEF TypeOK, Message, MsgTypes
  <2>2. net' \subseteq Message
    BY <1>17, <2>1 DEF PlainSync, TypeOK
  <2> QED
    BY <1>17, <2>2
    DEF PlainSync, TypeOK, PollsAccounted, clientVars, times, pollVars, serviceVars
<1>18. CASE UNCHANGED vars
  BY <1>18 DEF vars, TypeOK, PollsAccounted
<1>19. CASE Finished
  BY <1>18, <1>19 DEF Finished
<1> QED
  BY <1>1, <1>2, <1>3, <1>4, <1>5, <1>6, <1>7, <1>8, <1>9, <1>10, <1>11, <1>12,
     <1>13, <1>14, <1>15, <1>16, <1>17, <1>18, <1>19
  DEF Next, ClientStep, ServiceStep, EnvStep

LEMMA TypeInvariance == Spec => []TypeInv
<1> QED BY TypeInit, TypeStep, PTL DEF Spec

\* Every variable keeps its type in every behaviour, whatever the faults: in
\* particular a sequenceId stays in 1..SeqMax over the wrap, no more polls
\* expire than the budget has, and the service builds an answer only from a
\* request it parsed.
THEOREM TypeCorrect == Spec => []TypeOK
<1>1. TypeInv => TypeOK
  BY DEF TypeInv
<1> QED
  BY <1>1, TypeInvariance, PTL

-----------------------------------------------------------------------------
(* The times of a result belong together. Under NoIdReuse the id of a      *)
(* datagram tells its age: that is what makes the id check of              *)
(* client_main_flow sufficient, over the wrap of the ids, for any number   *)
(* of clients, and with late, duplicated and unusable datagrams.           *)

\* The id used d requests ago is the current one only for d = 0, as far back
\* as datagrams live.
LEMMA OwnId ==
  ASSUME TypeOK, NEW c \in Clients, NEW d \in Nat, d < SeqMax,
         IdBefore(c, d) = seq[c]
  PROVE  d = 0
  BY BoundsAssumption DEF TypeOK, IdBefore

\* When the id advances, everything is one request older and its id is
\* found one further back, the wrap included.
LEMMA IdAdvances ==
  ASSUME NEW s \in 1..SeqMax, NEW d \in Nat, d + 1 <= SeqMax
  PROVE  (IF s > d THEN s - d ELSE s - d + SeqMax) =
         (IF NextSeq(s) > d + 1 THEN NextSeq(s) - (d + 1)
                                ELSE NextSeq(s) - (d + 1) + SeqMax)
  BY BoundsAssumption DEF NextSeq

\* A datagram that a flow accepts answers the flow's own request.
LEMMA AcceptedIsCurrent ==
  ASSUME TypeOK, NoIdReuse, IdsFollowRequests, NetIsLive,
         NEW m \in net, pc[m.client] # "send", m.seq = seq[m.client]
  PROVE  m.req = req[m.client]
<1>1. /\ m.client \in Clients /\ m.req \in Nat /\ req[m.client] \in Nat
      /\ seq[m.client] \in 1..SeqMax
  BY DEF TypeOK, Message
<1>2. m.req <= req[m.client] /\ req[m.client] - m.req < MsgLife
  BY DEF IdsFollowRequests, NetIsLive, Live
<1>3. PICK d \in Nat : d = req[m.client] - m.req
  BY <1>1, <1>2
<1>4. d < SeqMax
  BY <1>1, <1>2, <1>3, BoundsAssumption DEF NoIdReuse
<1>5. m.seq = IdBefore(m.client, d)
  BY <1>1, <1>3, <1>4, BoundsAssumption DEF IdsFollowRequests, Current
<1>6. d = 0
  BY <1>1, <1>4, <1>5, OwnId
<1> QED
  BY <1>1, <1>3, <1>6

LEMMA ExchangeInit == Init => ExchangeInv
  BY DEF Init, ExchangeInv, IdsFollowRequests, NetIsLive, AnswersHaveTlv,
         FollowUpClients, TimesOfFlow, InService

\* A step that moves no id and no request count, and puts under way only what
\* carries the client, id and number of something that was, keeps what
\* ExchangeInv says of the datagrams' ids.
LEMMA IdsKept ==
  ASSUME TypeOK, IdsFollowRequests, UNCHANGED <<seq, req>>,
         \A c \in Clients : (pc'[c] = "send") <=> (pc[c] = "send"),
         \A m \in (net \cup InService)' : \E n \in net \cup InService :
            m.client = n.client /\ m.seq = n.seq /\ m.req = n.req
  PROVE  IdsFollowRequests'
<1> SUFFICES ASSUME NEW m \in (net \cup InService)'
    PROVE /\ m.req <= req'[m.client]
          /\ Current(m.client)' - m.req <= SeqMax
               => m.seq = IdBefore(m.client, Current(m.client) - m.req)'
  BY DEF IdsFollowRequests
<1>1. PICK n \in net \cup InService :
        m.client = n.client /\ m.seq = n.seq /\ m.req = n.req
  OBVIOUS
<1>2. n.client \in Clients
  BY DEF TypeOK, InService, Message
<1>3. Current(m.client)' = Current(n.client)
  BY <1>1, <1>2 DEF Current
<1>4. /\ n.req <= req[n.client]
      /\ Current(n.client) - n.req <= SeqMax
           => n.seq = IdBefore(n.client, Current(n.client) - n.req)
  BY DEF IdsFollowRequests
<1> QED
  BY <1>1, <1>3, <1>4 DEF IdBefore

LEMMA ExchangeStep ==
  TypeInv /\ NoIdReuse /\ ExchangeInv /\ [Next]_vars => ExchangeInv'
<1> SUFFICES ASSUME TypeOK, NoIdReuse, ExchangeInv, [Next]_vars
             PROVE  ExchangeInv'
  BY DEF TypeInv
<1> USE DEF ExchangeInv
<1>1. ASSUME NEW c \in Clients, SendReqSync(c) PROVE ExchangeInv'
  <2> DEFINE m0 == ReqMessage(c, "Sync", req[c] + 1)
  <2>1. /\ m0.client = c /\ m0.seq = seq[c] /\ m0.req = req[c] + 1
        /\ m0.to = "service" /\ m0.type = "Sync"
    BY DEF ReqMessage
  <2>2. /\ req[c] \in Nat /\ seq[c] \in 1..SeqMax /\ pc[c] = "send"
        /\ req'[c] = req[c] + 1 /\ pc'[c] \in {"followUp", "poll"}
        /\ pc'[c] = "followUp" => c \in TwoStepClients
        /\ \A b \in Clients : b # c => req'[b] = req[b] /\ pc'[b] = pc[b]
        /\ seq' = seq /\ InService' = InService
    BY <1>1 DEF SendReqSync, BeginFlow, TypeOK, serviceVars, InService
  <2>3. \A b \in Clients : Current(b)' = Current(b)
    BY <2>2 DEF Current
  <2>4. \A m \in net' : m = m0 \/ (m \in net /\ (m.client = c => Live(m, req[c] + 1)))
    BY <1>1 DEF SendReqSync, Age
  <2>5. IdsFollowRequests'
    <3> SUFFICES ASSUME NEW m \in (net \cup InService)'
          PROVE /\ m.req <= req'[m.client]
                /\ Current(m.client)' - m.req <= SeqMax
                     => m.seq = IdBefore(m.client, Current(m.client) - m.req)'
      BY DEF IdsFollowRequests
    <3>1. CASE m = m0
      <4>1. Current(c)' = req[c] + 1
        BY <2>2 DEF Current
      <4> QED
        BY <2>1, <2>2, <3>1, <4>1 DEF IdBefore
    <3>2. CASE m \in net \cup InService
      <4>1. m.client \in Clients /\ m.req \in Nat /\ req[m.client] \in Nat
        BY <3>2 DEF TypeOK, InService, Message
      <4>2. /\ m.req <= req[m.client]
            /\ Current(m.client) - m.req <= SeqMax
                 => m.seq = IdBefore(m.client, Current(m.client) - m.req)
        BY <3>2 DEF IdsFollowRequests
      <4> QED
        BY <2>2, <2>3, <4>1, <4>2 DEF IdBefore
    <3> QED
      BY <2>2, <2>4, <3>1, <3>2
  <2>6. NetIsLive'
    <3> SUFFICES ASSUME NEW m \in net' PROVE Live(m, req'[m.client])
      BY DEF NetIsLive, Live
    <3>1. CASE m = m0
      BY <2>1, <2>2, <3>1, BoundsAssumption DEF Live
    <3>2. CASE m \in net /\ (m.client = c => Live(m, req[c] + 1))
      <4>1. m.client \in Clients
        BY <3>2 DEF TypeOK, Message
      <4> QED
        BY <2>2, <3>2, <4>1 DEF NetIsLive
    <3> QED
      BY <2>4, <3>1, <3>2
  <2>7. AnswersHaveTlv'
    BY <2>1, <2>4 DEF AnswersHaveTlv
  <2>8. FollowUpClients'
    BY <2>2 DEF FollowUpClients
  <2>9. TimesOfFlow'
    BY <1>1, <2>2 DEF TimesOfFlow, SendReqSync, BeginFlow, TypeOK, MsgTypes
  <2> QED
    BY <2>5, <2>6, <2>7, <2>8, <2>9
<1>2. ASSUME NEW c \in Clients, SendReqSyncFails(c) PROVE ExchangeInv'
  <2>1. IdsFollowRequests'
    BY <1>2, IdsKept DEF SendReqSyncFails, BeginFlow, serviceVars, InService
  <2>2. NetIsLive' /\ AnswersHaveTlv' /\ FollowUpClients'
    BY <1>2 DEF SendReqSyncFails, BeginFlow, NetIsLive, Live, AnswersHaveTlv, FollowUpClients
  <2>3. TimesOfFlow'
    BY <1>2 DEF SendReqSyncFails, BeginFlow, TimesOfFlow, TypeOK
  <2> QED BY <2>1, <2>2, <2>3
<1>3. ASSUME NEW c \in Clients, SendFollowUp(c) PROVE ExchangeInv'
  <2> DEFINE m0 == ReqMessage(c, "Follow_Up", req[c])
  <2>1. m0.client = c /\ m0.seq = seq[c] /\ m0.req = req[c] /\ m0.to = "service"
    BY DEF ReqMessage
  <2>2. /\ req[c] \in Nat /\ seq[c] \in 1..SeqMax
        /\ pc[c] = "followUp" /\ pc'[c] = "poll"
        /\ \A b \in Clients : b # c => pc'[b] = pc[b]
        /\ seq' = seq /\ req' = req /\ InService' = InService
        /\ net' = net \cup {m0}
    BY <1>3 DEF SendFollowUp, TypeOK, serviceVars, InService
  <2>3. \A b \in Clients : Current(b)' = Current(b)
    BY <2>2 DEF Current
  <2>4. IdsFollowRequests'
    <3> SUFFICES ASSUME NEW m \in (net \cup InService)'
          PROVE /\ m.req <= req'[m.client]
                /\ Current(m.client)' - m.req <= SeqMax
                     => m.seq = IdBefore(m.client, Current(m.client) - m.req)'
      BY DEF IdsFollowRequests
    <3>1. CASE m = m0
      <4>1. Current(c)' = req[c]
        BY <2>2 DEF Current
      <4> QED
        BY <2>1, <2>2, <3>1, <4>1 DEF IdBefore
    <3>2. CASE m \in net \cup InService
      <4>1. m.client \in Clients
        BY <3>2 DEF TypeOK, InService, Message
      <4> QED
        BY <2>2, <2>3, <3>2, <4>1 DEF IdsFollowRequests, IdBefore
    <3> QED
      BY <2>2, <3>1, <3>2
  <2>5. NetIsLive'
    BY <2>1, <2>2, BoundsAssumption DEF NetIsLive, Live
  <2>6. AnswersHaveTlv' /\ FollowUpClients'
    BY <2>1, <2>2 DEF AnswersHaveTlv, FollowUpClients
  <2>7. TimesOfFlow'
    BY <1>3, <2>2 DEF TimesOfFlow, SendFollowUp, times
  <2> QED BY <2>4, <2>5, <2>6, <2>7
<1>4. ASSUME NEW c \in Clients, SendFollowUpFails(c) PROVE ExchangeInv'
  BY <1>4 DEF SendFollowUpFails, NoIdReuse, FollowUpClients
<1>5. ASSUME NEW c \in Clients, PollTimeout(c) PROVE ExchangeInv'
  <2>1. IdsFollowRequests'
    BY <1>5, IdsKept DEF PollTimeout, serviceVars, InService
  <2> QED
    BY <1>5, <2>1
    DEF PollTimeout, NetIsLive, Live, AnswersHaveTlv, FollowUpClients, TimesOfFlow, times
<1>6. ASSUME NEW c \in Clients, RecvUnusable(c) PROVE ExchangeInv'
  <2>1. IdsFollowRequests'
    BY <1>6, IdsKept DEF RecvUnusable, serviceVars, InService
  <2> QED
    BY <1>6, <2>1
    DEF RecvUnusable, NetIsLive, Live, AnswersHaveTlv, FollowUpClients, TimesOfFlow, times
<1>7. ASSUME NEW c \in Clients, NEW m \in net, RecvStale(c, m) PROVE ExchangeInv'
  <2>1. IdsFollowRequests'
    BY <1>7, IdsKept DEF RecvStale, serviceVars, InService
  <2> QED
    BY <1>7, <2>1
    DEF RecvStale, NetIsLive, Live, AnswersHaveTlv, FollowUpClients, TimesOfFlow, times
<1>8. ASSUME NEW c \in Clients, NEW m \in net, RecvSync(c, m) PROVE ExchangeInv'
  <2>1. m.client = c /\ m.tlv /\ pc[c] = "poll" /\ m.req = req[c]
    BY <1>8, AcceptedIsCurrent DEF RecvSync, Accepts, Receives, Polling, AnswersHaveTlv
  <2>2. pc' = pc
    BY <1>8, <2>1 DEF RecvSync, TypeOK
  <2>3. IdsFollowRequests'
    BY <1>8, <2>2, IdsKept DEF RecvSync, serviceVars, InService
  <2>4. NetIsLive' /\ AnswersHaveTlv' /\ FollowUpClients'
    BY <1>8, <2>2 DEF RecvSync, NetIsLive, Live, AnswersHaveTlv, FollowUpClients
  <2>5. TimesOfFlow'
    BY <1>8, <2>1, <2>2 DEF RecvSync, TimesOfFlow, TypeOK, Stamp
  <2> QED BY <2>3, <2>4, <2>5
<1>9. ASSUME NEW c \in Clients, NEW m \in net, RecvFollowUp(c, m) PROVE ExchangeInv'
  <2>1. m.client = c /\ pc[c] = "poll" /\ m.req = req[c]
    BY <1>9, AcceptedIsCurrent DEF RecvFollowUp, Accepts, Receives, Polling
  <2>2. IdsFollowRequests'
    BY <1>9, IdsKept DEF RecvFollowUp, serviceVars, InService
  <2>3. NetIsLive' /\ AnswersHaveTlv' /\ FollowUpClients'
    BY <1>9 DEF RecvFollowUp, NetIsLive, Live, AnswersHaveTlv, FollowUpClients
  <2>4. TimesOfFlow'
    BY <1>9, <2>1 DEF RecvFollowUp, TimesOfFlow, TypeOK, Stamp
  <2> QED BY <2>2, <2>3, <2>4
<1>10. ASSUME NEW c \in Clients, FlowEnd(c) PROVE ExchangeInv'
  <2>1. /\ pc[c] = "poll" /\ pc'[c] = "send" /\ req' = req /\ net' = net
        /\ seq[c] \in 1..SeqMax /\ seq'[c] = NextSeq(seq[c]) /\ req[c] \in Nat
        /\ \A b \in Clients : b # c => seq'[b] = seq[b] /\ pc'[b] = pc[b]
        /\ InService' = InService
    BY <1>10 DEF FlowEnd, TypeOK, serviceVars, InService
  <2>2. IdsFollowRequests'
    <3> SUFFICES ASSUME NEW m \in net \cup InService
          PROVE /\ m.req <= req'[m.client]
                /\ Current(m.client)' - m.req <= SeqMax
                     => m.seq = IdBefore(m.client, Current(m.client) - m.req)'
      BY <2>1 DEF IdsFollowRequests
    <3>1. m.client \in Clients /\ m.req \in Nat
      BY DEF TypeOK, InService, Message
    <3>2. /\ m.req <= req[m.client]
          /\ Current(m.client) - m.req <= SeqMax
               => m.seq = IdBefore(m.client, Current(m.client) - m.req)
      BY DEF IdsFollowRequests
    <3>3. CASE m.client # c
      BY <2>1, <3>1, <3>2, <3>3 DEF Current, IdBefore
    <3>4. CASE m.client = c
      <4>1. PICK d \in Nat : d = req[c] - m.req
        BY <2>1, <3>1, <3>2, <3>4
      <4>2. Current(c) = req[c] /\ Current(c)' = req[c] + 1
        BY <2>1 DEF Current
      <4>3. ASSUME d + 1 <= SeqMax PROVE m.seq = IdBefore(c, d + 1)'
        <5>1. m.seq = IF seq[c] > d THEN seq[c] - d ELSE seq[c] - d + SeqMax
          BY <2>1, <3>1, <3>2, <3>4, <4>1, <4>2, <4>3, BoundsAssumption DEF IdBefore
        <5> QED
          BY <2>1, <4>3, <5>1, IdAdvances DEF IdBefore
      <4>4. Current(c)' - m.req = d + 1
        BY <2>1, <3>1, <4>1, <4>2
      <4>5. IdBefore(c, Current(c) - m.req)' = IdBefore(c, d + 1)'
        BY <4>4 DEF IdBefore
      <4> QED
        BY <2>1, <3>2, <3>4, <4>3, <4>4, <4>5
    <3> QED BY <3>3, <3>4
  <2>3. NetIsLive' /\ AnswersHaveTlv' /\ FollowUpClients'
    BY <2>1 DEF NetIsLive, Live, AnswersHaveTlv, FollowUpClients
  <2>4. TimesOfFlow'
    BY <1>10, <2>1 DEF FlowEnd, TimesOfFlow, times
  <2> QED BY <2>2, <2>3, <2>4
<1>11. ASSUME NEW m \in net, TakeRequest(m) PROVE ExchangeInv'
  <2>1. IdsFollowRequests'
    BY <1>11, IdsKept DEF TakeRequest, clientVars, InService
  <2> QED
    BY <1>11, <2>1
    DEF TakeRequest, NetIsLive, Live, AnswersHaveTlv, FollowUpClients, TimesOfFlow,
        clientVars, times
<1>12. ASSUME NEW m \in net, IgnoreFollowUp(m) PROVE ExchangeInv'
  <2>1. IdsFollowRequests'
    BY <1>12, IdsKept DEF IgnoreFollowUp, clientVars, serviceVars, InService
  <2> QED
    BY <1>12, <2>1
    DEF IgnoreFollowUp, NetIsLive, Live, AnswersHaveTlv, FollowUpClients, TimesOfFlow,
        clientVars, times
<1>13. ASSUME NEW type \in MsgTypes, spc # "poll", net' = Post(RespMessage(type)),
              spc' \in {"poll", "followUp"}, UNCHANGED <<params, clientVars>>
       PROVE ExchangeInv'
  <2> DEFINE m0 == RespMessage(type)
  <2>1. /\ m0.client = params.client /\ m0.seq = params.seq /\ m0.req = params.req
        /\ m0.to = "client" /\ m0.type = type /\ m0.tlv = (type = "Sync")
    BY DEF RespMessage
  <2>2. \A m \in net' : m \in net \/ (m = m0 /\ Live(m0, req[m0.client]))
    BY <1>13 DEF Post
  <2>3. params \in InService /\ InService' \subseteq InService
    BY <1>13 DEF InService
  <2>4. IdsFollowRequests'
    BY <1>13, <2>1, <2>2, <2>3, IdsKept DEF clientVars
  <2>5. NetIsLive' /\ AnswersHaveTlv'
    BY <1>13, <2>1, <2>2 DEF clientVars, NetIsLive, AnswersHaveTlv, Live
  <2>6. FollowUpClients' /\ TimesOfFlow'
    BY <1>13 DEF clientVars, times, FollowUpClients, TimesOfFlow
  <2> QED BY <2>4, <2>5, <2>6
<1>14. CASE SendRespSync
  BY <1>13, <1>14 DEF SendRespSync, MsgTypes
<1>15. CASE SendRespFollowUp
  BY <1>13, <1>15 DEF SendRespFollowUp, MsgTypes
<1>16. CASE ServiceSendFails
  <2>1. IdsFollowRequests'
    BY <1>16, IdsKept DEF ServiceSendFails, clientVars, InService
  <2> QED
    BY <1>16, <2>1
    DEF ServiceSendFails, NetIsLive, Live, AnswersHaveTlv, FollowUpClients, TimesOfFlow,
        clientVars, times
<1>17. ASSUME NEW m \in net, Duplicate(m) PROVE ExchangeInv'
  <2>1. m \in Message
    BY DEF TypeOK
  <2>2. ASSUME NEW i \in 1..2
        PROVE LET n == [m EXCEPT !.copy = i]
              IN  /\ n.client = m.client /\ n.seq = m.seq /\ n.req = m.req
                  /\ n.to = m.to /\ n.type = m.type /\ n.tlv = m.tlv
    BY <2>1 DEF Message
  <2>3. \A n \in net' : n \in net \/
          /\ n.client = m.client /\ n.seq = m.seq /\ n.req = m.req
          /\ n.to = m.to /\ n.type = m.type /\ n.tlv = m.tlv
    <3> SUFFICES ASSUME NEW n \in net', n \notin net
          PROVE /\ n.client = m.client /\ n.seq = m.seq /\ n.req = m.req
                /\ n.to = m.to /\ n.type = m.type /\ n.tlv = m.tlv
      OBVIOUS
    <3>1. n \in {[m EXCEPT !.copy = i] : i \in 1..2}
      BY <1>17, Zenon DEF Duplicate
    <3>2. PICK i \in 1..2 : n = [m EXCEPT !.copy = i]
      BY <3>1, Zenon
    <3> QED
      BY <2>2, <3>2, Zenon
  <2>4. IdsFollowRequests'
    BY <1>17, <2>3, IdsKept DEF Duplicate, clientVars, serviceVars, InService
  <2>5. NetIsLive' /\ AnswersHaveTlv'
    BY <1>17, <2>3 DEF Duplicate, clientVars, NetIsLive, Live, AnswersHaveTlv
  <2>6. FollowUpClients' /\ TimesOfFlow'
    BY <1>17 DEF Duplicate, clientVars, times, FollowUpClients, TimesOfFlow
  <2> QED BY <2>4, <2>5, <2>6
<1>18. ASSUME NEW c \in Clients, NEW two \in BOOLEAN, PlainSync(c, two)
       PROVE ExchangeInv'
  BY <1>18 DEF PlainSync, NoIdReuse
<1>19. CASE UNCHANGED vars
  <2>1. IdsFollowRequests'
    BY <1>19, IdsKept DEF vars, InService
  <2> QED
    BY <1>19, <2>1
    DEF vars, NetIsLive, Live, AnswersHaveTlv, FollowUpClients, TimesOfFlow
<1>20. CASE Finished
  BY <1>19, <1>20 DEF Finished
<1> QED
  BY <1>1, <1>2, <1>3, <1>4, <1>5, <1>6, <1>7, <1>8, <1>9, <1>10, <1>11, <1>12,
     <1>14, <1>15, <1>16, <1>17, <1>18, <1>19, <1>20
  DEF Next, ClientStep, ServiceStep, EnvStep

\* ExchangeInv holds in every behaviour of a system that does not reuse ids.
THEOREM ExchangeInvariance == ASSUME NoIdReuse PROVE Spec => []ExchangeInv
<1>1. Init => ExchangeInv
  BY ExchangeInit
<1>2. TypeInv /\ ExchangeInv /\ [Next]_vars => ExchangeInv'
  BY ExchangeStep
<1> QED
  BY <1>1, <1>2, TypeInvariance, PTL DEF Spec

\* A result is made of times that belong to the request it started with: with
\* ids not reused, no late or duplicated answer, however old, gets into a
\* result of client_main_flow.
THEOREM ResultsMatch == ASSUME NoIdReuse PROVE Spec => []Matched
<1>1. ExchangeInv => Matched
  BY DEF ExchangeInv, TimesOfFlow, Matched, Complete
<1> QED
  BY <1>1, ExchangeInvariance, PTL

\* While a flow waits, what is under way with its id answers its own request.
THEOREM IdsIdentifyRequests == ASSUME NoIdReuse PROVE Spec => []LiveIdsAreCurrent
<1>1. TypeInv /\ ExchangeInv => LiveIdsAreCurrent
  BY AcceptedIsCurrent DEF TypeInv, ExchangeInv, LiveIdsAreCurrent
<1> QED
  BY <1>1, TypeInvariance, ExchangeInvariance, PTL
=============================================================================
