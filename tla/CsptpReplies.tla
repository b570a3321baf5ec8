---------------------------- MODULE CsptpReplies ----------------------------
(***************************************************************************)
(* Theorems about the service's answers in the results of the clients, the *)
(* length of a client's flow and the pause after it, for any clients,      *)
(* bounds and faults that a theorem does not exclude.                      *)
(***************************************************************************)
EXTENDS CsptpProofs

\* A datagram from which a client takes times that it may report: an answer.
IsAnswer(m) == m.to = "client" /\ (m.tlv \/ m.type = "Follow_Up")

\* A datagram that the service answers.
IsRequest(m) == m.to = "service" /\ m.type = "Sync"

\* Somewhere there is a time of request n of client c with answer k: under way,
\* being made by the service, or collected by the flow.
Reading(c, n, k) ==
    \/ \E m \in net : IsAnswer(m) /\ m.client = c /\ m.req = n /\ m.rep = k
    \/ spc # "poll" /\ params.client = c /\ params.req = n /\ rep = k
    \/ /\ pc[c] # "send" /\ "Sync" \notin wait[c]
       /\ \E t \in {r1[c], r2[c]} : t.req = n /\ t.rep = k
    \/ /\ pc[c] # "send" /\ "Follow_Up" \notin wait[c]
       /\ t2[c].req = n /\ t2[c].rep = k

\* Times come from answers that the service gave to requests that were made.
Given ==
    /\ \A c \in Clients, n, k \in Nat : Reading(c, n, k) => k \in 1..rep /\ n <= req[c]
    /\ \A m \in net : IsRequest(m) => m.req <= req[m.client]

\* A request that is under way was not answered yet, and one that was answered
\* was answered once.
AnsweredOnce ==
    /\ \A c \in Clients, n, j, k \in Nat : Reading(c, n, j) /\ Reading(c, n, k) => j = k
    /\ \A m \in net : IsRequest(m) => \A k \in Nat : ~Reading(m.client, m.req, k)
    /\ \A l, m \in net : IsRequest(l) /\ IsRequest(m) /\ l.client = m.client /\ l.req = m.req
                            => l = m

ReplyInv == Given /\ ("duplicates" \notin Faults => AnsweredOnce)

-----------------------------------------------------------------------------

LEMMA ReplyInit == Init => ReplyInv
  BY DEF Init, ReplyInv, Given, AnsweredOnce, Reading

\* A step that brings up no time and no request keeps the invariant.
LEMMA NothingNew ==
  ASSUME TypeOK, ReplyInv, UNCHANGED rep,
         \A c \in Clients : req'[c] \in Nat /\ req[c] <= req'[c],
         \A m \in net' : IsRequest(m) => m \in net,
         \A c \in Clients, n, k \in Nat : Reading(c, n, k)' => Reading(c, n, k)
  PROVE  ReplyInv'
<1>1. \A m \in net : m.client \in Clients /\ m.req \in Nat /\ req[m.client] \in Nat
  BY DEF TypeOK, Message
<1>2. \A c \in Clients : req[c] \in Nat
  BY DEF TypeOK
<1>3. Given'
  <2>1. ASSUME NEW c \in Clients, NEW n \in Nat, NEW k \in Nat, Reading(c, n, k)'
        PROVE  k \in 1..rep' /\ n <= req'[c]
    <3>1. k \in 1..rep /\ n <= req[c]
      BY <2>1 DEF ReplyInv, Given
    <3> QED
      BY <1>2, <3>1
  <2>2. ASSUME NEW m \in net', IsRequest(m) PROVE m.req <= req'[m.client]
    <3>1. m \in net /\ m.req <= req[m.client]
      BY <2>2 DEF ReplyInv, Given
    <3> QED
      BY <1>1, <3>1
  <2> QED
    BY <2>1, <2>2 DEF Given, IsRequest
<1>4. ASSUME AnsweredOnce PROVE AnsweredOnce'
  <2>1. ASSUME NEW c \in Clients, NEW n \in Nat, NEW j \in Nat, NEW k \in Nat,
               Reading(c, n, j)', Reading(c, n, k)'
        PROVE  j = k
    BY <1>4, <2>1 DEF AnsweredOnce
  <2>2. ASSUME NEW m \in net', IsRequest(m), NEW k \in Nat
        PROVE  ~Reading(m.client, m.req, k)'
    <3>1. m \in net /\ ~Reading(m.client, m.req, k)
      BY <1>4, <2>2 DEF AnsweredOnce
    <3> QED
      BY <1>1, <3>1
  <2>3. ASSUME NEW l \in net', NEW m \in net', IsRequest(l), IsRequest(m),
               l.client = m.client, l.req = m.req
        PROVE  l = m
    BY <1>4, <2>3 DEF AnsweredOnce
  <2> QED
    BY <2>1, <2>2, <2>3 DEF AnsweredOnce, IsRequest
<1> QED
  BY <1>3, <1>4 DEF ReplyInv

\* A time that is collected comes from a datagram that was under way.
LEMMA CollectedWasUnderWay ==
  ASSUME TypeOK, NEW c \in Clients, NEW m \in net,
         RecvSync(c, m) \/ RecvFollowUp(c, m),
         NEW b \in Clients, NEW n \in Nat, NEW k \in Nat, Reading(b, n, k)'
  PROVE  Reading(b, n, k)
<1>1. /\ m \in Message /\ m.to = "client" /\ m.client = c
      /\ net' = net \ {m} /\ spc' = spc /\ params' = params /\ rep' = rep
      /\ pc[c] = "poll"
  BY DEF TypeOK, RecvSync, RecvFollowUp, Accepts, Receives, Polling, serviceVars
<1>2. CASE b # c
  <2>1. /\ pc'[b] = pc[b] /\ wait'[b] = wait[b]
        /\ r1'[b] = r1[b] /\ t2'[b] = t2[b] /\ r2'[b] = r2[b]
    BY <1>2 DEF TypeOK, RecvSync, RecvFollowUp
  <2> QED
    BY <1>1, <2>1 DEF Reading
<1>3. CASE b = c /\ RecvFollowUp(c, m)
  <2>1. /\ pc' = pc /\ r1' = r1 /\ r2' = r2 /\ m.type = "Follow_Up"
        /\ t2'[c] = Stamp(m) /\ wait'[c] = wait[c] \ {"Follow_Up"}
    BY <1>3 DEF TypeOK, RecvFollowUp
  <2>2. IsAnswer(m) /\ t2'[c].req = m.req /\ t2'[c].rep = m.rep
    BY <1>1, <2>1 DEF IsAnswer, Stamp
  <2> QED
    BY <1>1, <1>3, <2>1, <2>2 DEF Reading
<1>4. CASE b = c /\ RecvSync(c, m)
  <2>1. CASE ~m.tlv
    <3>1. pc'[c] = "send"
      BY <1>4, <2>1 DEF TypeOK, RecvSync
    <3> QED
      BY <1>1, <1>4, <3>1 DEF Reading
  <2>2. CASE m.tlv
    <3>1. /\ pc' = pc /\ r1'[c] = Stamp(m) /\ r2'[c] = Stamp(m)
          /\ t2'[c] = IF m.twoSteps THEN t2[c] ELSE Stamp(m)
          /\ m.twoSteps => wait'[c] = wait[c] \ {"Sync"}
      BY <1>4, <2>2 DEF TypeOK, RecvSync
    <3>2. IsAnswer(m) /\ Stamp(m).req = m.req /\ Stamp(m).rep = m.rep
      BY <1>1, <2>2 DEF IsAnswer, Stamp
    <3> QED
      BY <1>1, <1>4, <3>1, <3>2 DEF Reading
  <2> QED
    BY <2>1, <2>2
<1> QED
  BY <1>2, <1>3, <1>4

\* A duplicate differs from the datagram in its copy number only.
LEMMA CopiesAlike ==
  ASSUME NEW m \in Message, Duplicate(m)
  PROVE  \A l \in net' : l \in net \/
           /\ l.client = m.client /\ l.req = m.req /\ l.rep = m.rep
           /\ l.to = m.to /\ l.type = m.type /\ l.tlv = m.tlv
<1>1. ASSUME NEW i \in 1..2
      PROVE LET l == [m EXCEPT !.copy = i]
            IN  /\ l.client = m.client /\ l.req = m.req /\ l.rep = m.rep
                /\ l.to = m.to /\ l.type = m.type /\ l.tlv = m.tlv
  BY DEF Message
<1> SUFFICES ASSUME NEW l \in net', l \notin net
    PROVE /\ l.client = m.client /\ l.req = m.req /\ l.rep = m.rep
          /\ l.to = m.to /\ l.type = m.type /\ l.tlv = m.tlv
  OBVIOUS
<1>2. l \in {[m EXCEPT !.copy = i] : i \in 1..2}
  BY Zenon DEF Duplicate
<1>3. PICK i \in 1..2 : l = [m EXCEPT !.copy = i]
  BY <1>2, Zenon
<1> QED
  BY <1>1, <1>3, Zenon

LEMMA ReplyStep == TypeInv /\ ReplyInv /\ [Next]_vars => ReplyInv'
<1> SUFFICES ASSUME TypeOK, ReplyInv, [Next]_vars PROVE ReplyInv'
  BY DEF TypeInv
<1>0. \A c \in Clients : req[c] \in Nat
  BY DEF TypeOK
<1>1. ASSUME NEW c \in Clients, SendReqSync(c) PROVE ReplyInv'
  <2> DEFINE m0 == ReqMessage(c, "Sync", req[c] + 1)
  <2>1. m0.client = c /\ m0.req = req[c] + 1 /\ IsRequest(m0) /\ ~IsAnswer(m0)
    BY DEF ReqMessage, IsRequest, IsAnswer
  <2>2. /\ req'[c] = req[c] + 1 /\ pc[c] = "send" /\ wait'[c] = MsgTypes
        /\ \A b \in Clients : b # c =>
              req'[b] = req[b] /\ pc'[b] = pc[b] /\ wait'[b] = wait[b]
        /\ UNCHANGED <<spc, params, rep, r1, t2, r2>>
    BY <1>1 DEF SendReqSync, BeginFlow, TypeOK, serviceVars
  <2>3. \A m \in net' : m = m0 \/ m \in net
    BY <1>1 DEF SendReqSync, Age
  <2>4. \A b \in Clients, n, k \in Nat : Reading(b, n, k)' => Reading(b, n, k)
    BY <2>1, <2>2, <2>3 DEF Reading, MsgTypes
  <2>5. \A m \in net : m.client \in Clients /\ m.req \in Nat
    BY DEF TypeOK, Message
  <2>6. \A m \in net : IsRequest(m) => m.req <= req[m.client]
    BY DEF ReplyInv, Given
  <2>7. Given'
    <3>1. \A b \in Clients, n, k \in Nat : Reading(b, n, k)' => k \in 1..rep' /\ n <= req'[b]
      BY <1>0, <2>2, <2>4 DEF ReplyInv, Given
    <3>2. \A m \in net' : IsRequest(m) => m.req <= req'[m.client]
      BY <1>0, <2>1, <2>2, <2>3, <2>5, <2>6
    <3> QED
      BY <3>1, <3>2 DEF Given, IsRequest
  <2>8. ASSUME AnsweredOnce PROVE AnsweredOnce'
    <3>1. \A b \in Clients, n, j, k \in Nat : Reading(b, n, j)' /\ Reading(b, n, k)' => j = k
      BY <2>4, <2>8 DEF AnsweredOnce
    <3>2. \A m \in net' : IsRequest(m) => \A k \in Nat : ~Reading(m.client, m.req, k)'
      <4>1. \A k \in Nat : ~Reading(c, req[c] + 1, k)
        BY <1>0 DEF ReplyInv, Given
      <4>2. \A m \in net : IsRequest(m) => \A k \in Nat : ~Reading(m.client, m.req, k)
        BY <2>8 DEF AnsweredOnce
      <4> QED
        BY <1>0, <2>1, <2>3, <2>4, <2>5, <4>1, <4>2
    <3>3. \A l, m \in net' : IsRequest(l) /\ IsRequest(m) /\ l.client = m.client
                                /\ l.req = m.req => l = m
      <4>1. \A m \in net : IsRequest(m) /\ m.client = c => m.req # req[c] + 1
        BY <1>0, <2>5, <2>6
      <4> QED
        BY <2>1, <2>3, <2>8, <4>1 DEF AnsweredOnce
    <3> QED
      BY <3>1, <3>2, <3>3 DEF AnsweredOnce, IsRequest
  <2> QED
    BY <2>7, <2>8 DEF ReplyInv
<1>2. ASSUME NEW c \in Clients, SendReqSyncFails(c) PROVE ReplyInv'
  <2>1. \A b \in Clients, n, k \in Nat : Reading(b, n, k)' => Reading(b, n, k)
    BY <1>2 DEF SendReqSyncFails, BeginFlow, serviceVars, TypeOK, MsgTypes, Reading
  <2> QED
    BY <1>0, <1>2, <2>1, NothingNew DEF SendReqSyncFails, serviceVars
<1>3. ASSUME NEW c \in Clients, SendFollowUp(c) PROVE ReplyInv'
  <2>1. /\ ~IsRequest(ReqMessage(c, "Follow_Up", req[c]))
        /\ ~IsAnswer(ReqMessage(c, "Follow_Up", req[c]))
    BY DEF ReqMessage, IsRequest, IsAnswer
  <2>2. \A b \in Clients, n, k \in Nat : Reading(b, n, k)' => Reading(b, n, k)
    BY <1>3, <2>1 DEF SendFollowUp, serviceVars, times, TypeOK, Reading
  <2> QED
    BY <1>0, <1>3, <2>1, <2>2, NothingNew DEF SendFollowUp, serviceVars
<1>4. ASSUME NEW c \in Clients, SendFollowUpFails(c) PROVE ReplyInv'
  <2>1. \A b \in Clients, n, k \in Nat : Reading(b, n, k)' => Reading(b, n, k)
    BY <1>4 DEF SendFollowUpFails, serviceVars, times, TypeOK, Reading
  <2> QED
    BY <1>0, <1>4, <2>1, NothingNew DEF SendFollowUpFails, serviceVars
<1>5. ASSUME NEW c \in Clients, PollTimeout(c) \/ RecvUnusable(c) PROVE ReplyInv'
  <2>1. \A b \in Clients, n, k \in Nat : Reading(b, n, k)' => Reading(b, n, k)
    BY <1>5 DEF PollTimeout, RecvUnusable, serviceVars, times, Reading
  <2> QED
    BY <1>0, <1>5, <2>1, NothingNew DEF PollTimeout, RecvUnusable, serviceVars
<1>6. ASSUME NEW c \in Clients, NEW m \in net, RecvStale(c, m) PROVE ReplyInv'
  <2>1. \A b \in Clients, n, k \in Nat : Reading(b, n, k)' => Reading(b, n, k)
    BY <1>6 DEF RecvStale, serviceVars, times, Reading
  <2> QED
    BY <1>0, <1>6, <2>1, NothingNew DEF RecvStale, serviceVars
<1>7. ASSUME NEW c \in Clients, NEW m \in net, RecvSync(c, m) \/ RecvFollowUp(c, m)
      PROVE  ReplyInv'
  <2>1. \A b \in Clients, n, k \in Nat : Reading(b, n, k)' => Reading(b, n, k)
    BY <1>7, CollectedWasUnderWay
  <2> QED
    BY <1>0, <1>7, <2>1, NothingNew DEF RecvSync, RecvFollowUp, serviceVars
<1>8. ASSUME NEW c \in Clients, FlowEnd(c) PROVE ReplyInv'
  <2>1. \A b \in Clients, n, k \in Nat : Reading(b, n, k)' => Reading(b, n, k)
    BY <1>8 DEF FlowEnd, serviceVars, times, TypeOK, Reading
  <2> QED
    BY <1>0, <1>8, <2>1, NothingNew DEF FlowEnd, serviceVars
<1>9. ASSUME NEW m \in net, TakeRequest(m) PROVE ReplyInv'
  <2>1. /\ IsRequest(m) /\ net' = net \ {m} /\ params' = m /\ rep' = rep + 1
        /\ spc = "poll" /\ rep \in Nat /\ rep + 1 \in 1..rep' /\ req' = req
    BY <1>9 DEF TakeRequest, IsRequest, clientVars, TypeOK
  <2>2. m.client \in Clients /\ m.req \in Nat /\ m.req <= req[m.client]
    BY <2>1 DEF TypeOK, Message, ReplyInv, Given
  <2>3. ASSUME NEW b \in Clients, NEW n \in Nat, NEW k \in Nat, Reading(b, n, k)'
        PROVE  Reading(b, n, k) \/ (b = m.client /\ n = m.req /\ k = rep + 1)
    BY <1>9, <2>1, <2>3 DEF TakeRequest, clientVars, times, Reading
  <2>4. Given'
    BY <2>1, <2>2, <2>3 DEF ReplyInv, Given, IsRequest
  <2>5. ASSUME AnsweredOnce PROVE AnsweredOnce'
    <3>1. \A k \in Nat : ~Reading(m.client, m.req, k)
      BY <2>1, <2>5 DEF AnsweredOnce
    <3>2. \A b \in Clients, n, j, k \in Nat : Reading(b, n, j)' /\ Reading(b, n, k)' => j = k
      BY <2>3, <2>5, <3>1 DEF AnsweredOnce
    <3>3. \A l \in net' : IsRequest(l) => \A k \in Nat : ~Reading(l.client, l.req, k)'
      <4>1. \A l \in net' : l.client \in Clients /\ l.req \in Nat
        BY <2>1 DEF TypeOK, Message
      <4>2. \A l \in net' : IsRequest(l) => ~(l.client = m.client /\ l.req = m.req)
        BY <2>1, <2>5 DEF AnsweredOnce
      <4>3. \A l \in net' : IsRequest(l) => \A k \in Nat : ~Reading(l.client, l.req, k)
        BY <2>1, <2>5 DEF AnsweredOnce
      <4> QED
        BY <2>3, <4>1, <4>2, <4>3
    <3> QED
      BY <2>1, <2>5, <3>2, <3>3 DEF AnsweredOnce, IsRequest
  <2> QED
    BY <2>4, <2>5 DEF ReplyInv
<1>10. ASSUME NEW m \in net, IgnoreFollowUp(m) PROVE ReplyInv'
  <2>1. \A b \in Clients, n, k \in Nat : Reading(b, n, k)' => Reading(b, n, k)
    BY <1>10 DEF IgnoreFollowUp, clientVars, serviceVars, times, Reading
  <2> QED
    BY <1>0, <1>10, <2>1, NothingNew DEF IgnoreFollowUp, clientVars, serviceVars
<1>11. ASSUME NEW type \in MsgTypes, spc # "poll", net' = Post(RespMessage(type)),
              UNCHANGED <<params, rep, clientVars>>
       PROVE ReplyInv'
  <2>1. /\ RespMessage(type).client = params.client /\ RespMessage(type).req = params.req
        /\ RespMessage(type).rep = rep /\ ~IsRequest(RespMessage(type))
    BY DEF RespMessage, IsRequest
  <2>2. \A m \in net' : m \in net \/ m = RespMessage(type)
    BY <1>11 DEF Post
  <2>3. \A b \in Clients, n, k \in Nat : Reading(b, n, k)' => Reading(b, n, k)
    BY <1>11, <2>1, <2>2 DEF clientVars, times, Reading
  <2> QED
    BY <1>0, <1>11, <2>1, <2>2, <2>3, NothingNew DEF clientVars
<1>12. CASE SendRespSync
  BY <1>11, <1>12 DEF SendRespSync, MsgTypes
<1>13. CASE SendRespFollowUp
  BY <1>11, <1>13 DEF SendRespFollowUp, MsgTypes
<1>14. CASE ServiceSendFails
  <2>1. \A b \in Clients, n, k \in Nat : Reading(b, n, k)' => Reading(b, n, k)
    BY <1>14 DEF ServiceSendFails, clientVars, times, Reading
  <2> QED
    BY <1>0, <1>14, <2>1, NothingNew DEF ServiceSendFails, clientVars
<1>15. ASSUME NEW m \in net, Duplicate(m) PROVE ReplyInv'
  <2>1. m \in Message
    BY DEF TypeOK
  <2>2. \A l \in net' : l \in net \/
          /\ l.client = m.client /\ l.req = m.req /\ l.rep = m.rep
          /\ l.to = m.to /\ l.type = m.type /\ l.tlv = m.tlv
    BY <1>15, <2>1, CopiesAlike
  <2>3. Given'
    <3>1. \A b \in Clients, n, k \in Nat : Reading(b, n, k)' => Reading(b, n, k)
      BY <1>15, <2>2 DEF Duplicate, clientVars, serviceVars, times, Reading, IsAnswer
    <3>2. UNCHANGED <<req, rep>>
      BY <1>15 DEF Duplicate, clientVars, serviceVars
    <3>3. \A l \in net' : IsRequest(l) => l.req <= req[l.client]
      BY <2>2 DEF IsRequest, ReplyInv, Given
    <3> QED
      BY <3>1, <3>2, <3>3 DEF ReplyInv, Given, IsRequest
  <2> QED
    BY <1>15, <2>3 DEF ReplyInv, Duplicate
<1>16. ASSUME NEW c \in Clients, NEW two \in BOOLEAN, PlainSync(c, two)
       PROVE ReplyInv'
  <2>1. \A l \in net' : l \in net \/ (~IsAnswer(l) /\ ~IsRequest(l))
    BY <1>16 DEF PlainSync, IsAnswer, IsRequest
  <2>2. \A b \in Clients, n, k \in Nat : Reading(b, n, k)' => Reading(b, n, k)
    BY <1>16, <2>1 DEF PlainSync, clientVars, serviceVars, times, Reading
  <2>3. UNCHANGED <<req, rep>>
    BY <1>16 DEF PlainSync, clientVars, serviceVars
  <2> QED
    BY <1>0, <2>1, <2>2, <2>3, NothingNew
<1>17. CASE UNCHANGED vars
  <2>1. \A b \in Clients, n, k \in Nat : Reading(b, n, k)' => Reading(b, n, k)
    BY <1>17 DEF vars, Reading
  <2> QED
    BY <1>0, <1>17, <2>1, NothingNew DEF vars
<1>18. CASE Finished
  BY <1>17, <1>18 DEF Finished
<1> QED
  BY <1>1, <1>2, <1>3, <1>4, <1>5, <1>6, <1>7, <1>8, <1>9, <1>10, <1>12,
     <1>13, <1>14, <1>15, <1>16, <1>17, <1>18
  DEF Next, ClientStep, ServiceStep, EnvStep

LEMMA ReplyInvariance == Spec => []ReplyInv
<1> QED
  BY ReplyInit, ReplyStep, TypeInvariance, PTL DEF Spec

-----------------------------------------------------------------------------

\* Whatever the environment does, the times of a result come from answers that
\* the service gave: client_main_flow returns at a Sync without a RESPONSE TLV
\* and completes on answers only.
THEOREM TimesFromAnswers == Spec => []OnlyAnswers
<1>1. TypeInv /\ ReplyInv => OnlyAnswers
  <2> SUFFICES ASSUME TypeOK, ReplyInv, NEW c \in Clients, Complete(c),
                      NEW t \in {r1[c], t2[c], r2[c]}
               PROVE  t.rep \in 1..rep
    BY DEF TypeInv, OnlyAnswers
  <2>1. t.req \in Nat /\ t.rep \in Nat
    BY DEF TypeOK, Time
  <2>2. Reading(c, t.req, t.rep)
    BY DEF Complete, Reading
  <2> QED
    BY <2>1, <2>2 DEF ReplyInv, Given
<1> QED
  BY <1>1, TypeInvariance, ReplyInvariance, PTL

\* Over a network that duplicates nothing, and with ids not reused, T2 and R2
\* of a result are the departure and arrival of one answer, and R1 is the
\* arrival it answers, although they come in two datagrams.
THEOREM OneAnswer ==
  ASSUME NoIdReuse, "duplicates" \notin Faults PROVE Spec => []SameReply
<1>1. TypeInv /\ ReplyInv /\ Matched => SameReply
  <2> SUFFICES ASSUME TypeOK, AnsweredOnce, Matched, NEW c \in Clients, Complete(c)
               PROVE  r1[c] = r2[c] /\ t2[c] = r2[c]
    BY DEF TypeInv, ReplyInv, SameReply
  <2>1. r1[c] \in Time /\ t2[c] \in Time /\ r2[c] \in Time
    BY DEF TypeOK
  <2>2. r1[c].req = r2[c].req /\ t2[c].req = r2[c].req
    BY DEF Matched
  <2>3. \A t \in {r1[c], t2[c], r2[c]} : Reading(c, r2[c].req, t.rep)
    BY <2>2 DEF Complete, Reading
  <2>4. r1[c].rep = r2[c].rep /\ t2[c].rep = r2[c].rep
    BY <2>1, <2>3 DEF AnsweredOnce, Time
  <2> QED
    BY <2>1, <2>2, <2>4 DEF Time
<1> QED
  BY <1>1, TypeInvariance, ReplyInvariance, ResultsMatch, PTL

-----------------------------------------------------------------------------
(* The flows implement CsptpExchange: the safety part of the refinement.   *)

\* Between its two sends a flow has received nothing.
WaitsForBoth == \A c \in Clients : pc[c] = "followUp" => wait[c] = MsgTypes

LEMMA WaitsInvariance == Spec => []WaitsForBoth
<1>1. Init => WaitsForBoth
  BY DEF Init, WaitsForBoth
<1>2. TypeInv /\ WaitsForBoth /\ [Next]_vars => WaitsForBoth'
  <2> SUFFICES ASSUME TypeOK, WaitsForBoth, [Next]_vars PROVE WaitsForBoth'
    BY DEF TypeInv
  <2>1. ASSUME NEW c \in Clients, ClientStep(c) PROVE WaitsForBoth'
    BY <2>1 DEF ClientStep, SendReqSync, SendReqSyncFails, BeginFlow, SendFollowUp,
           SendFollowUpFails, PollTimeout, RecvUnusable, RecvStale, RecvSync, RecvFollowUp,
           Accepts, Polling, FlowEnd, TypeOK, WaitsForBoth
  <2>2. CASE ServiceStep
    BY <2>2 DEF ServiceStep, TakeRequest, IgnoreFollowUp, SendRespSync, SendRespFollowUp,
           ServiceSendFails, clientVars, WaitsForBoth
  <2>3. CASE EnvStep \/ Finished \/ UNCHANGED vars
    BY <2>3 DEF EnvStep, Duplicate, PlainSync, Finished, clientVars, vars, WaitsForBoth
  <2> QED
    BY <2>1, <2>2, <2>3 DEF Next
<1> QED
  BY <1>1, <1>2, TypeInvariance, PTL DEF Spec

\* A step that leaves every client's phase and result.
LEMMA Stutters ==
  ASSUME UNCHANGED <<req, rep>>,
         \A b \in Clients : Phase(b)' = Phase(b) /\ ResultOf(b)' = ResultOf(b)
  PROVE  UNCHANGED Exchange!vars
  BY DEF Exchange!vars

\* A step that may change the phase and the result of one client.
LEMMA OneMoves ==
  ASSUME NEW c \in Clients, NEW p, NEW r, Phase(c)' = p, ResultOf(c)' = r,
         \A b \in Clients : b # c => Phase(b)' = Phase(b) /\ ResultOf(b)' = ResultOf(b)
  PROVE  /\ [b \in Clients |-> Phase(b)]' = [[b \in Clients |-> Phase(b)] EXCEPT ![c] = p]
         /\ [b \in Clients |-> ResultOf(b)]' = [[b \in Clients |-> ResultOf(b)] EXCEPT ![c] = r]
  OBVIOUS

\* Every step of the system is one of the abstract exchange: a request opens an
\* exchange, the datagram that completes a flow obtains the result, the end of
\* a flow closes the exchange, a request taken up is answered; all else is
\* inside.
LEMMA ExchangeStepsStep ==
  ASSUME TypeOK, WaitsForBoth, AnswersHaveTlv, [Next]_vars,
         TypeOK', OnlyAnswers', SameReply', Matched'
  PROVE  [Exchange!Next]_Exchange!vars
<1>1. ASSUME NEW c \in Clients, SendReqSync(c) PROVE Exchange!Ask(c)
  <2>1. /\ Phase(c) = "closed" /\ Phase(c)' = "open" /\ ResultOf(c)' = ResultOf(c)
        /\ \A b \in Clients : b # c => Phase(b)' = Phase(b) /\ ResultOf(b)' = ResultOf(b)
    BY <1>1 DEF SendReqSync, BeginFlow, TypeOK, Phase, ResultOf, Complete, MsgTypes
  <2>2. /\ [b \in Clients |-> Phase(b)]' = [[b \in Clients |-> Phase(b)] EXCEPT ![c] = "open"]
        /\ [b \in Clients |-> ResultOf(b)]' = [b \in Clients |-> ResultOf(b)]
    BY <2>1
  <2> QED
    BY <1>1, <2>1, <2>2 DEF Exchange!Ask, SendReqSync, serviceVars
<1>2. ASSUME NEW c \in Clients, SendReqSyncFails(c) PROVE UNCHANGED Exchange!vars
  <2>1. \A b \in Clients : Phase(b)' = Phase(b) /\ ResultOf(b)' = ResultOf(b)
    BY <1>2 DEF SendReqSyncFails, BeginFlow, TypeOK, Phase, ResultOf, Complete
  <2> QED
    BY <1>2, <2>1, Stutters DEF SendReqSyncFails, serviceVars
<1>3. ASSUME NEW c \in Clients, SendFollowUp(c) PROVE UNCHANGED Exchange!vars
  <2>1. wait[c] # {}
    BY <1>3 DEF SendFollowUp, WaitsForBoth, MsgTypes
  <2>2. \A b \in Clients : Phase(b)' = Phase(b) /\ ResultOf(b)' = ResultOf(b)
    BY <1>3, <2>1 DEF SendFollowUp, TypeOK, times, Phase, ResultOf, Complete
  <2> QED
    BY <1>3, <2>2, Stutters DEF SendFollowUp, serviceVars
<1>4. ASSUME NEW c \in Clients, UNCHANGED <<req, rep>>, pc[c] # "send", pc'[c] = "send",
             \A b \in Clients : b # c => Phase(b)' = Phase(b) /\ ResultOf(b)' = ResultOf(b)
      PROVE  Exchange!Close(c)
  <2>1. Phase(c) # "closed" /\ Phase(c)' = "closed" /\ ResultOf(c)' = Exchange!NoResult
    BY <1>4 DEF Phase, ResultOf, Complete, Exchange!NoResult
  <2>2. /\ [b \in Clients |-> Phase(b)]' = [[b \in Clients |-> Phase(b)] EXCEPT ![c] = "closed"]
        /\ [b \in Clients |-> ResultOf(b)]'
              = [[b \in Clients |-> ResultOf(b)] EXCEPT ![c] = Exchange!NoResult]
    BY <1>4, <2>1, OneMoves
  <2> QED
    BY <1>4, <2>1, <2>2 DEF Exchange!Close
<1>5. ASSUME NEW c \in Clients, SendFollowUpFails(c) \/ FlowEnd(c) PROVE Exchange!Close(c)
  <2>1. /\ pc[c] # "send" /\ pc'[c] = "send" /\ UNCHANGED <<req, rep>>
        /\ \A b \in Clients : b # c => Phase(b)' = Phase(b) /\ ResultOf(b)' = ResultOf(b)
    BY <1>5 DEF SendFollowUpFails, FlowEnd, TypeOK, times, serviceVars, Phase, ResultOf, Complete
  <2> QED
    BY <1>4, <2>1
<1>6. ASSUME NEW c \in Clients, PollTimeout(c) \/ RecvUnusable(c) PROVE UNCHANGED Exchange!vars
  <2>1. \A b \in Clients : Phase(b)' = Phase(b) /\ ResultOf(b)' = ResultOf(b)
    BY <1>6 DEF PollTimeout, RecvUnusable, times, Phase, ResultOf, Complete
  <2> QED
    BY <1>6, <2>1, Stutters DEF PollTimeout, RecvUnusable, serviceVars
<1>7. ASSUME NEW c \in Clients, NEW m \in net, RecvStale(c, m) PROVE UNCHANGED Exchange!vars
  <2>1. \A b \in Clients : Phase(b)' = Phase(b) /\ ResultOf(b)' = ResultOf(b)
    BY <1>7 DEF RecvStale, times, Phase, ResultOf, Complete
  <2> QED
    BY <1>7, <2>1, Stutters DEF RecvStale, serviceVars
<1>8. ASSUME NEW c \in Clients, NEW m \in net, RecvSync(c, m) \/ RecvFollowUp(c, m)
      PROVE  Exchange!Obtain(c) \/ UNCHANGED Exchange!vars
  <2>1. /\ pc[c] = "poll" /\ pc' = pc /\ wait[c] # {} /\ UNCHANGED <<req, rep>>
        /\ \A b \in Clients : b # c => Phase(b)' = Phase(b) /\ ResultOf(b)' = ResultOf(b)
    <3>1. CASE RecvSync(c, m)
      <4>1. m.tlv /\ pc[c] = "poll"
        BY <3>1 DEF RecvSync, Accepts, Receives, Polling, AnswersHaveTlv
      <4> QED
        BY <3>1, <4>1
        DEF RecvSync, Accepts, Polling, TypeOK, serviceVars, Phase, ResultOf, Complete
    <3>2. CASE RecvFollowUp(c, m)
      BY <3>2
      DEF RecvFollowUp, Accepts, Polling, TypeOK, serviceVars, Phase, ResultOf, Complete
    <3> QED
      BY <1>8, <3>1, <3>2
  <2>2. CASE wait'[c] # {}
    <3>1. \A b \in Clients : Phase(b)' = Phase(b) /\ ResultOf(b)' = ResultOf(b)
      BY <2>1, <2>2 DEF Phase, ResultOf, Complete
    <3> QED
      BY <2>1, <3>1, Stutters
  <2>3. CASE wait'[c] = {}
    <3> DEFINE k == r2[c].rep'
    <3>1. Phase(c) = "open" /\ Phase(c)' = "complete" /\ Complete(c)'
      BY <2>1, <2>3 DEF Phase, Complete
    <3>2. k \in 1..rep
      BY <2>1, <3>1 DEF OnlyAnswers
    <3>3. /\ t1[c]' = req[c] /\ r1[c]' = r2[c]' /\ t2[c]' = r2[c]' /\ r2[c].req' = req[c]
      BY <2>1, <3>1 DEF Matched, SameReply
    <3>4. ResultOf(c)' = Exchange!Result(req[c], k)
      BY <3>1, <3>3 DEF ResultOf, Exchange!Result, Pair
    <3>5. /\ [b \in Clients |-> Phase(b)]' = [[b \in Clients |-> Phase(b)] EXCEPT ![c] = "complete"]
          /\ [b \in Clients |-> ResultOf(b)]'
                = [[b \in Clients |-> ResultOf(b)] EXCEPT ![c] = Exchange!Result(req[c], k)]
      BY <2>1, <3>1, <3>4, OneMoves
    <3> QED
      BY <2>1, <3>1, <3>2, <3>5 DEF Exchange!Obtain
  <2> QED
    BY <2>2, <2>3
<1>9. ASSUME NEW m \in net, TakeRequest(m) PROVE Exchange!Answer
  <2>1. \A b \in Clients : Phase(b)' = Phase(b) /\ ResultOf(b)' = ResultOf(b)
    BY <1>9 DEF TakeRequest, clientVars, times, Phase, ResultOf, Complete
  <2> QED
    BY <1>9, <2>1 DEF TakeRequest, clientVars, Exchange!Answer
<1>10. ASSUME UNCHANGED <<clientVars, rep>> PROVE UNCHANGED Exchange!vars
  <2>1. \A b \in Clients : Phase(b)' = Phase(b) /\ ResultOf(b)' = ResultOf(b)
    BY <1>10 DEF clientVars, times, Phase, ResultOf, Complete
  <2> QED
    BY <1>10, <2>1, Stutters DEF clientVars
<1>11. ASSUME ServiceStep PROVE Exchange!Answer \/ UNCHANGED Exchange!vars
  BY <1>9, <1>10, <1>11
  DEF ServiceStep, IgnoreFollowUp, SendRespSync, SendRespFollowUp, ServiceSendFails, serviceVars
<1>12. ASSUME EnvStep \/ Finished \/ UNCHANGED vars PROVE UNCHANGED Exchange!vars
  BY <1>10, <1>12
  DEF EnvStep, Duplicate, PlainSync, Finished, vars, clientVars, times, pollVars, serviceVars
<1> QED
  BY <1>1, <1>2, <1>3, <1>5, <1>6, <1>7, <1>8, <1>11, <1>12
  DEF Next, ClientStep, Exchange!Next

\* With ids not reused, and over a network that duplicates nothing, the flows
\* of client_main_flow and the service's main_flow do what the abstract
\* exchange allows and nothing else: no result but one of its own request and
\* of one answer to it, once for each exchange.
THEOREM StepsOfExchange ==
  ASSUME NoIdReuse, "duplicates" \notin Faults PROVE Spec => ImplementsExchangeSteps
<1>1. Init => Exchange!Init
  BY DEF Init, Exchange!Init, Exchange!NoResult, Phase, ResultOf, Complete
<1>2. /\ TypeInv /\ TypeInv' /\ WaitsForBoth /\ ExchangeInv /\ [Next]_vars
      /\ OnlyAnswers' /\ SameReply' /\ Matched'
      => [Exchange!Next]_Exchange!vars
  BY ExchangeStepsStep DEF TypeInv, ExchangeInv
<1> QED
  BY <1>1, <1>2, TypeInvariance, WaitsInvariance, ExchangeInvariance, ResultsMatch,
     TimesFromAnswers, OneAnswer, PTL DEF Spec, ImplementsExchangeSteps
-----------------------------------------------------------------------------
(* The length of a client's flow, over a network that duplicates nothing.  *)

\* The service is at work on request n of client c.
Serves(c, n) == spc # "poll" /\ params.client = c /\ params.req = n

\* An answer to request n of client c is under way.
Arriving(m, c, n) == m.to = "client" /\ m.client = c /\ m.req = n

\* The service sends one Sync, then at most one Follow_Up, to a request.
SentOnce ==
    \A c \in Clients, n \in Nat : \A m \in net : Arriving(m, c, n) =>
        /\ \A l \in net : Arriving(l, c, n) /\ l.type = m.type => l = m
        /\ Serves(c, n) => spc = "followUp" /\ m.type = "Sync"

\* What a flow no longer waits for does not come again.
Awaited ==
    \A c \in Clients : pc[c] # "send" /\ wait[c] # {} => \A type \in MsgTypes \ wait[c] :
        /\ \A m \in net : Arriving(m, c, req[c]) => m.type # type
        /\ Serves(c, req[c]) => spc = "followUp" /\ type = "Sync"

Received(c) == IF wait[c] = MsgTypes THEN 0 ELSE IF wait[c] = {} THEN 2 ELSE 1

\* Each poll takes one from the budget or brings a message waited for.
PollsCounted ==
    /\ PollsBounded
    /\ \A c \in Clients : pc[c] # "send" => polls[c] + loops[c] <= WaitLoop + Received(c)

PollInv == SentOnce /\ Awaited /\ PollsCounted

\* A system that duplicates nothing and does not reuse ids, in a state that the
\* other invariants describe.
Known ==
    /\ NoIdReuse /\ "duplicates" \notin Faults
    /\ TypeOK /\ ExchangeInv /\ ReplyInv

-----------------------------------------------------------------------------

LEMMA PollInit == Init => PollInv
  BY BoundsAssumption
  DEF Init, PollInv, SentOnce, Awaited, PollsCounted, PollsBounded, MsgTypes, Received

\* A step that sends and takes up no answer, and collects none, keeps what is
\* said of the answers.
LEMMA NoAnswerMoves ==
  ASSUME TypeOK, SentOnce, Awaited,
         \A m \in net' : m.to = "client" => m \in net,
         spc' = "poll" \/ UNCHANGED <<spc, params>>,
         \A c \in Clients :
            \/ pc'[c] = "send" \/ wait'[c] \in {{}, MsgTypes}
            \/ pc[c] # "send" /\ wait'[c] = wait[c] /\ req'[c] = req[c]
  PROVE  SentOnce' /\ Awaited'
<1>1. SentOnce'
  BY DEF SentOnce, Arriving, Serves
<1>2. Awaited'
  <2> SUFFICES ASSUME NEW c \in Clients, pc'[c] # "send", wait'[c] # {},
                      NEW type \in MsgTypes \ wait'[c]
               PROVE  /\ \A m \in net' : Arriving(m, c, req'[c]) => m.type # type
                      /\ Serves(c, req[c])' => spc' = "followUp" /\ type = "Sync"
    BY DEF Awaited, Arriving
  <2>1. pc[c] # "send" /\ wait'[c] = wait[c] /\ req'[c] = req[c]
    OBVIOUS
  <2> QED
    BY <2>1 DEF Awaited, Arriving, Serves
<1> QED
  BY <1>1, <1>2

\* A step that moves no client, sends or takes up no answer, and collects none.
LEMMA QuietClients ==
  ASSUME TypeOK, SentOnce, Awaited,
         \A m \in net' : m.to = "client" => m \in net,
         spc' = "poll" \/ UNCHANGED <<spc, params>>,
         \A c \in Clients :
            \/ wait'[c] = MsgTypes
            \/ pc'[c] = pc[c] /\ wait'[c] = wait[c] /\ req'[c] = req[c]
  PROVE  SentOnce' /\ Awaited'
<1>1. \A c \in Clients :
        \/ pc'[c] = "send" \/ wait'[c] \in {{}, MsgTypes}
        \/ pc[c] # "send" /\ wait'[c] = wait[c] /\ req'[c] = req[c]
  OBVIOUS
<1> QED
  BY <1>1, NoAnswerMoves

\* A flow accepts only what it waits for, from its own request.
LEMMA AcceptedIsAwaited ==
  ASSUME Known, Awaited, NEW c \in Clients, NEW m \in net, Accepts(c, m)
  PROVE  m.type \in wait[c] /\ Arriving(m, c, req[c])
<1>1. /\ pc[c] = "poll" /\ wait[c] # {} /\ m.to = "client" /\ m.client = c
      /\ m.type \in MsgTypes
  BY DEF Known, TypeOK, Message, Accepts, Receives, Polling
<1>2. m.req = req[c]
  BY <1>1, AcceptedIsCurrent DEF Known, ExchangeInv, Accepts
<1> QED
  BY <1>1, <1>2 DEF Awaited, Arriving

\* What a flow has collected shows that its request was answered.
LEMMA CollectedIsReading ==
  ASSUME Known, NEW c \in Clients, pc[c] # "send", NEW type \in MsgTypes \ wait[c]
  PROVE  \E k \in Nat : Reading(c, req[c], k)
<1>1. r1[c].rep \in Nat /\ t2[c].rep \in Nat
  BY DEF Known, TypeOK, Time
<1>2. CASE type = "Sync"
  BY <1>1, <1>2 DEF Known, ExchangeInv, TimesOfFlow, Reading
<1>3. CASE type = "Follow_Up"
  BY <1>1, <1>3 DEF Known, ExchangeInv, TimesOfFlow, Reading
<1> QED
  BY <1>2, <1>3 DEF MsgTypes

\* A message that arrives shows that its request was answered.
LEMMA ArrivingIsReading ==
  ASSUME Known, NEW c \in Clients, NEW n \in Nat, NEW m \in net, Arriving(m, c, n)
  PROVE  \E k \in Nat : Reading(c, n, k)
<1>1. IsAnswer(m) /\ m.rep \in Nat
  BY DEF Known, TypeOK, Message, MsgTypes, ExchangeInv, AnswersHaveTlv, Arriving, IsAnswer
<1> QED
  BY <1>1 DEF Reading, Arriving

\* The answers and what a flow still waits for, over every step.
LEMMA AnswersStep ==
  ASSUME Known, SentOnce, Awaited, [Next]_vars PROVE SentOnce' /\ Awaited'
<1> USE DEF Known
<1>1. ASSUME NEW c \in Clients, SendReqSync(c) \/ SendReqSyncFails(c)
      PROVE  SentOnce' /\ Awaited'
  <2>1. /\ wait'[c] = MsgTypes /\ UNCHANGED <<spc, params>>
        /\ \A b \in Clients : b # c =>
              pc'[b] = pc[b] /\ wait'[b] = wait[b] /\ req'[b] = req[b]
    BY <1>1 DEF SendReqSync, SendReqSyncFails, BeginFlow, TypeOK, serviceVars
  <2>2. \A m \in net' : m.to = "client" => m \in net
    BY <1>1 DEF SendReqSync, SendReqSyncFails, Age, ReqMessage
  <2> QED
    BY <2>1, <2>2, QuietClients
<1>2. ASSUME NEW c \in Clients, SendFollowUp(c) \/ SendFollowUpFails(c) \/ FlowEnd(c)
      PROVE  SentOnce' /\ Awaited'
  <2>1. UNCHANGED <<wait, req, spc, params>>
    BY <1>2 DEF SendFollowUp, SendFollowUpFails, FlowEnd, serviceVars
  <2>2. \A b \in Clients : pc'[b] = "send" \/ pc[b] # "send"
    BY <1>2 DEF SendFollowUp, SendFollowUpFails, FlowEnd, TypeOK
  <2>3. \A m \in net' : m.to = "client" => m \in net
    BY <1>2 DEF SendFollowUp, SendFollowUpFails, FlowEnd, ReqMessage
  <2> QED
    BY <2>1, <2>2, <2>3, NoAnswerMoves
<1>3. ASSUME NEW c \in Clients,
             PollTimeout(c) \/ RecvUnusable(c) \/ \E m \in net : RecvStale(c, m)
      PROVE  SentOnce' /\ Awaited'
  <2>1. UNCHANGED <<pc, wait, req, spc, params>> /\ net' \subseteq net
    BY <1>3 DEF PollTimeout, RecvUnusable, RecvStale, serviceVars
  <2> QED
    BY <2>1, QuietClients
<1>4. ASSUME NEW c \in Clients, NEW m \in net, RecvSync(c, m) \/ RecvFollowUp(c, m)
      PROVE  SentOnce' /\ Awaited'
  <2>1. /\ Arriving(m, c, req[c]) /\ net' = net \ {m} /\ UNCHANGED <<spc, params, req>>
        /\ pc[c] = "poll" /\ wait[c] # {}
    BY <1>4, AcceptedIsAwaited
    DEF RecvSync, RecvFollowUp, Accepts, Polling, serviceVars
  <2>2. /\ wait'[c] \in {{}, wait[c] \ {m.type}}
        /\ \A b \in Clients : b # c => pc'[b] = pc[b] /\ wait'[b] = wait[b]
    BY <1>4 DEF RecvSync, RecvFollowUp, TypeOK
  <2>3. SentOnce'
    BY <2>1 DEF SentOnce, Arriving, Serves
  <2>4. Awaited'
    <3> SUFFICES ASSUME NEW b \in Clients, pc'[b] # "send", wait'[b] # {},
                        NEW type \in MsgTypes \ wait'[b]
                 PROVE  /\ \A l \in net' : Arriving(l, b, req[b]) => l.type # type
                        /\ Serves(b, req[b]) => spc = "followUp" /\ type = "Sync"
      BY <2>1 DEF Awaited, Arriving, Serves
    <3>1. CASE b = c /\ type = m.type
      <4>1. req[c] \in Nat
        BY DEF TypeOK
      <4> QED
        BY <2>1, <3>1, <4>1 DEF SentOnce
    <3>2. CASE b = c /\ type # m.type
      BY <2>1, <2>2, <3>2 DEF Awaited
    <3>3. CASE b # c
      BY <2>1, <2>2, <3>3 DEF Awaited
    <3> QED
      BY <3>1, <3>2, <3>3
  <2> QED
    BY <2>3, <2>4
<1>5. ASSUME NEW m \in net, TakeRequest(m) PROVE SentOnce' /\ Awaited'
  <2>1. /\ IsRequest(m) /\ net' = net \ {m} /\ params' = m /\ spc = "poll"
        /\ UNCHANGED <<pc, wait, req>>
    BY <1>5 DEF TakeRequest, IsRequest, clientVars
  <2>2. m.client \in Clients /\ m.req \in Nat /\ \A c \in Clients : req[c] \in Nat
    BY DEF TypeOK, Message
  <2>3. \A k \in Nat : ~Reading(m.client, m.req, k)
    BY <2>1 DEF ReplyInv, AnsweredOnce
  <2>4. \A l \in net : ~Arriving(l, m.client, m.req)
    BY <2>2, <2>3, ArrivingIsReading
  <2>5. \A c \in Clients : pc[c] # "send" /\ c = m.client /\ req[c] = m.req
          => \A type \in MsgTypes : type \in wait[c]
    BY <2>3, CollectedIsReading
  <2>6. SentOnce'
    BY <2>1, <2>4 DEF SentOnce, Arriving, Serves
  <2>7. Awaited'
    BY <2>1, <2>5 DEF Awaited, Arriving, Serves
  <2> QED
    BY <2>6, <2>7
<1>6. ASSUME NEW m \in net, IgnoreFollowUp(m) PROVE SentOnce' /\ Awaited'
  <2>1. UNCHANGED <<pc, wait, req, spc, params>> /\ net' \subseteq net
    BY <1>6 DEF IgnoreFollowUp, clientVars, serviceVars
  <2> QED
    BY <2>1, QuietClients
<1>7. CASE SendRespSync
  <2> DEFINE m0 == RespMessage("Sync")
  <2>1. /\ spc = "respSync" /\ spc' \in {"poll", "followUp"}
        /\ UNCHANGED <<pc, wait, req, params>>
    BY <1>7 DEF SendRespSync, clientVars
  <2>2. \A m \in net' : m \in net \/ m = m0
    BY <1>7 DEF SendRespSync, Post
  <2>3. m0.to = "client" /\ m0.client = params.client /\ m0.req = params.req /\ m0.type = "Sync"
    BY DEF RespMessage
  <2>4. SentOnce'
    BY <2>1, <2>2, <2>3 DEF SentOnce, Arriving, Serves
  <2>5. \A c \in Clients : pc[c] # "send" /\ wait[c] # {} /\ Serves(c, req[c])
          => \A type \in MsgTypes : type \in wait[c]
    BY <2>1 DEF Awaited
  <2>6. Awaited'
    BY <2>1, <2>2, <2>3, <2>5 DEF Awaited, Arriving, Serves
  <2> QED
    BY <2>4, <2>6
<1>8. CASE SendRespFollowUp
  <2> DEFINE m0 == RespMessage("Follow_Up")
  <2>1. spc = "followUp" /\ spc' = "poll" /\ UNCHANGED <<pc, wait, req, params>>
    BY <1>8 DEF SendRespFollowUp, clientVars
  <2>2. \A m \in net' : m \in net \/ m = m0
    BY <1>8 DEF SendRespFollowUp, Post
  <2>3. /\ m0.to = "client" /\ m0.client = params.client /\ m0.req = params.req
        /\ m0.type = "Follow_Up"
    BY DEF RespMessage
  <2>4. SentOnce'
    BY <2>1, <2>2, <2>3 DEF SentOnce, Arriving, Serves
  <2>5. Awaited'
    BY <2>1, <2>2, <2>3 DEF Awaited, Arriving, Serves
  <2> QED
    BY <2>4, <2>5
<1>9. CASE ServiceSendFails
  <2>1. spc' = "poll" /\ UNCHANGED <<pc, wait, req, net>>
    BY <1>9 DEF ServiceSendFails, clientVars
  <2> QED
    BY <2>1, QuietClients
<1>10. CASE EnvStep
  BY <1>10 DEF EnvStep, Duplicate, PlainSync, NoIdReuse
<1>11. CASE Finished \/ UNCHANGED vars
  <2>1. UNCHANGED <<pc, wait, req, net, spc, params>>
    BY <1>11 DEF Finished, vars
  <2> QED
    BY <2>1, QuietClients
<1> QED
  BY <1>1, <1>2, <1>3, <1>4, <1>5, <1>6, <1>7, <1>8, <1>9, <1>10, <1>11
  DEF Next, ClientStep, ServiceStep

\* The count of the polls, over every step.
LEMMA CountStep ==
  ASSUME Known, Awaited, PollsCounted, [Next]_vars PROVE PollsCounted'
<1> USE BoundsAssumption DEF Known, PollsCounted, PollsBounded
<1>0. \A c \in Clients : loops[c] \in Nat /\ polls[c] \in Nat /\ wait[c] \subseteq MsgTypes
  BY DEF TypeOK
<1>1. ASSUME NEW c \in Clients, SendReqSync(c) \/ SendReqSyncFails(c) PROVE PollsCounted'
  <2>1. /\ loops'[c] = WaitLoop /\ polls'[c] = 0 /\ wait'[c] = MsgTypes
        /\ \A b \in Clients : b # c => /\ pc'[b] = pc[b] /\ loops'[b] = loops[b]
                                       /\ polls'[b] = polls[b] /\ wait'[b] = wait[b]
    BY <1>1 DEF SendReqSync, SendReqSyncFails, BeginFlow, TypeOK
  <2> QED
    BY <1>0, <2>1 DEF Received
<1>2. ASSUME NEW c \in Clients, SendFollowUp(c) \/ SendFollowUpFails(c) \/ FlowEnd(c)
      PROVE  PollsCounted'
  <2>1. /\ UNCHANGED <<loops, polls, wait>>
        /\ \A b \in Clients : pc'[b] = "send" \/ pc[b] # "send"
    BY <1>2 DEF SendFollowUp, SendFollowUpFails, FlowEnd, TypeOK, pollVars
  <2> QED
    BY <1>0, <2>1 DEF Received
<1>3. ASSUME NEW c \in Clients, Polling(c)
      PROVE  polls'[c] <= polls[c] + 1 /\ polls'[c] <= WaitLoop + 1
             /\ \A b \in Clients : b # c => polls'[b] = polls[b]
  BY <1>0, <1>3 DEF Polling, TypeOK, Received
<1>4. ASSUME NEW c \in Clients,
             PollTimeout(c) \/ RecvUnusable(c) \/ \E m \in net : RecvStale(c, m)
      PROVE  PollsCounted'
  <2>1. /\ Polling(c) /\ UNCHANGED <<pc, wait>> /\ loops'[c] = loops[c] - 1
        /\ \A b \in Clients : b # c => loops'[b] = loops[b]
    BY <1>4 DEF PollTimeout, RecvUnusable, RecvStale, TypeOK
  <2> QED
    BY <1>0, <1>3, <2>1 DEF Received, Polling, TypeOK
<1>5. ASSUME NEW c \in Clients, NEW m \in net, RecvSync(c, m) \/ RecvFollowUp(c, m)
      PROVE  PollsCounted'
  <2>1. /\ Polling(c) /\ wait[c] # {} /\ pc[c] # "send" /\ UNCHANGED loops
        /\ wait'[c] \in {{}, wait[c] \ {m.type}}
        /\ \A b \in Clients : b # c => pc'[b] = pc[b] /\ wait'[b] = wait[b]
    BY <1>5 DEF RecvSync, RecvFollowUp, Accepts, Polling, TypeOK
  <2>2. m.type \in wait[c]
    BY <1>5, AcceptedIsAwaited DEF RecvSync, RecvFollowUp
  <2>3. Received(c)' >= Received(c) + 1
    BY <1>0, <2>1, <2>2 DEF Received, MsgTypes
  <2>4. \A b \in Clients : b # c => Received(b)' = Received(b)
    BY <2>1 DEF Received
  <2>5. \A b \in Clients : Received(b) \in Nat /\ Received(b)' \in Nat
    BY DEF Received
  <2>6. polls'[c] \in Nat
    BY <1>0, <2>1 DEF Polling, PollsMax, TypeOK
  <2> QED
    BY <1>0, <1>3, <2>1, <2>3, <2>4, <2>5, <2>6
<1>6. CASE ServiceStep \/ EnvStep \/ Finished \/ UNCHANGED vars
  <2>1. UNCHANGED <<pc, loops, polls, wait>>
    BY <1>6 DEF ServiceStep, TakeRequest, IgnoreFollowUp, SendRespSync, SendRespFollowUp,
           ServiceSendFails, EnvStep, Duplicate, PlainSync, Finished, vars, clientVars, pollVars
  <2> QED
    BY <1>0, <2>1 DEF Received
<1> QED
  BY <1>1, <1>2, <1>4, <1>5, <1>6 DEF Next, ClientStep

-----------------------------------------------------------------------------

\* Over a network that duplicates nothing, and with ids not reused, a flow
\* polls at most once more than WAIT_LOOP, although an accepted datagram takes
\* no poll from the budget: it is accepted once.
THEOREM FlowsPollLittle ==
  ASSUME NoIdReuse, "duplicates" \notin Faults PROVE Spec => []PollsBounded
<1>1. TypeInv /\ ExchangeInv /\ ReplyInv /\ PollInv /\ [Next]_vars => PollInv'
  BY AnswersStep, CountStep DEF TypeInv, Known, PollInv
<1>2. PollInv => PollsBounded
  BY DEF PollInv, PollsCounted
<1> QED
  BY <1>1, <1>2, PollInit, TypeInvariance, ExchangeInvariance, ReplyInvariance, PTL DEF Spec

-----------------------------------------------------------------------------
(* A system without faults: no poll expires, hence a cycle is kept.        *)

\* The flow of client c waits for an answer.
Waits(c) == pc[c] # "send" /\ wait[c] # {}

\* An answer of that type to the request of client c is still to come: asked
\* for, in the making, or on its way. A Sync of a one-step service is all.
Coming(c, type) ==
    \/ \E m \in net : IsRequest(m) /\ m.client = c
    \/ Serves(c, req[c]) /\ (type = "Sync" => spc = "respSync")
    \/ \E m \in net : Arriving(m, c, req[c]) /\ (m.type = type \/ ~UseTxTwoSteps)

\* What is under way belongs to a flow that waits for it.
OfFlow ==
    /\ \A m \in net : IsRequest(m) \/ m.to = "client" => Waits(m.client) /\ m.req = req[m.client]
    /\ spc # "poll" => Waits(params.client) /\ params.req = req[params.client]

\* The service answers in as many steps as it is set to.
StepsAsSet ==
    /\ spc = "followUp" => UseTxTwoSteps
    /\ \A m \in net : m.to = "client" =>
          m.twoSteps = UseTxTwoSteps /\ (m.type = "Follow_Up" => UseTxTwoSteps)

\* Nothing takes a poll from the budget, and what a flow waits for is coming.
InTime ==
    \A c \in Clients :
        /\ timeouted[c] = 0
        /\ pc[c] = "send" => slept[c] >= CycleMs
        /\ pc[c] # "send" => loops[c] = WaitLoop /\ \A type \in wait[c] : Coming(c, type)

TimelyInv == OfFlow /\ StepsAsSet /\ InTime

\* No faults, a cycle that t_sleep can sleep, and what is known of the rest.
Faultless ==
    /\ Faults = {} /\ CycleMs >= 1000
    /\ Known /\ SentOnce /\ Awaited

-----------------------------------------------------------------------------

LEMMA TimelyInit == Init => TimelyInv
  BY BoundsAssumption
  DEF Init, TimelyInv, OfFlow, StepsAsSet, InTime, Coming, Serves

\* A flow that is sent back to sleep has slept a whole cycle: none of its time
\* went by in expired polls.
LEMMA WholePause == CycleMs >= 1000 => CyclePause(0) = CycleMs
<1>1. 0 * PollMs = 0 /\ CycleMs - 0 = CycleMs
  BY BoundsAssumption
<1> QED
  BY <1>1, BoundsAssumption DEF CyclePause, Sleep

\* What a flow waits for keeps coming over a step that takes nothing from the
\* network and leaves the service and the flow as they are.
LEMMA StillComing ==
  ASSUME NEW c \in Clients, NEW type, Coming(c, type), req'[c] = req[c],
         \A m \in net : m.client = c /\ (IsRequest(m) \/ Arriving(m, c, req[c])) => m \in net',
         UNCHANGED <<spc, params>>
  PROVE  Coming(c, type)'
  BY DEF Coming, Serves, Arriving, IsRequest

LEMMA TimelyStep ==
  ASSUME Faultless, TimelyInv, [Next]_vars PROVE TimelyInv'
<1> USE BoundsAssumption DEF Faultless, Known, TimelyInv
<1>0. /\ \A c \in Clients : /\ req[c] \in Nat /\ loops[c] \in Nat /\ wait[c] \subseteq MsgTypes
                            /\ seq[c] \in 1..SeqMax
      /\ \A m \in net : m.client \in Clients /\ m.type \in MsgTypes /\ m.req \in Nat
  BY DEF TypeOK, Message
<1>1. ASSUME NEW c \in Clients, SendReqSync(c) PROVE TimelyInv'
  <2> DEFINE m0 == ReqMessage(c, "Sync", req[c] + 1)
  <2>1. /\ pc[c] = "send" /\ pc'[c] # "send" /\ req'[c] = req[c] + 1 /\ wait'[c] = MsgTypes
        /\ loops'[c] = WaitLoop /\ timeouted'[c] = 0
        /\ UNCHANGED <<spc, params, rep>>
        /\ \A b \in Clients : b # c =>
              /\ pc'[b] = pc[b] /\ req'[b] = req[b] /\ wait'[b] = wait[b]
              /\ loops'[b] = loops[b] /\ timeouted'[b] = timeouted[b] /\ slept'[b] = slept[b]
    BY <1>1 DEF SendReqSync, BeginFlow, TypeOK, serviceVars
  <2>2. m0.client = c /\ m0.to = "service" /\ m0.type = "Sync" /\ m0.req = req[c] + 1
    BY DEF ReqMessage
  <2>3. /\ net' \subseteq net \cup {m0} /\ m0 \in net'
        /\ \A m \in net : m.client # c => m \in net'
    BY <1>1 DEF SendReqSync, Age
  <2> HIDE DEF m0
  <2>4. ~Waits(c)
    BY <2>1 DEF Waits
  <2>5. OfFlow'
    <3>1. Waits(c)' /\ \A b \in Clients : b # c => (Waits(b)' <=> Waits(b))
      BY <2>1 DEF Waits, MsgTypes
    <3>2. ASSUME NEW m \in net', IsRequest(m) \/ m.to = "client"
          PROVE  Waits(m.client)' /\ m.req = req'[m.client]
      <4>1. CASE m = m0
        BY <2>1, <2>2, <3>1, <4>1
      <4>2. CASE m # m0
        <5>1. m \in net /\ Waits(m.client) /\ m.req = req[m.client]
          BY <2>3, <3>2, <4>2 DEF OfFlow
        <5> QED
          BY <1>0, <2>1, <2>4, <3>1, <5>1
      <4> QED
        BY <4>1, <4>2
    <3>3. spc # "poll" => params.client \in Clients /\ Waits(params.client)
                          /\ params.req = req[params.client]
      BY DEF TypeOK, Message, OfFlow
    <3>4. spc # "poll" => Waits(params.client)' /\ params.req = req'[params.client]
      BY <2>1, <2>4, <3>1, <3>3
    <3> QED
      BY <2>1, <3>2, <3>4 DEF OfFlow
  <2>6. StepsAsSet'
    BY <2>1, <2>2, <2>3 DEF StepsAsSet
  <2>7. \A type \in MsgTypes : Coming(c, type)'
    BY <2>2, <2>3 DEF Coming, IsRequest
  <2>8. ASSUME NEW b \in Clients, b # c, NEW type, Coming(b, type) PROVE Coming(b, type)'
    BY <2>1, <2>3, <2>8, StillComing
  <2>9. InTime'
    BY <2>1, <2>7, <2>8 DEF InTime
  <2> QED
    BY <2>5, <2>6, <2>9
<1>2. ASSUME NEW c \in Clients, SendFollowUp(c) PROVE TimelyInv'
  <2> DEFINE m0 == ReqMessage(c, "Follow_Up", req[c])
  <2>1. /\ pc[c] # "send" /\ UNCHANGED <<req, wait, loops, timeouted, slept, spc, params>>
        /\ \A b \in Clients : pc'[b] # "send" <=> pc[b] # "send"
    BY <1>2 DEF SendFollowUp, TypeOK, serviceVars, pollVars
  <2>2. net' = net \cup {m0} /\ m0.to = "service" /\ m0.type = "Follow_Up"
    BY <1>2 DEF SendFollowUp, ReqMessage
  <2> HIDE DEF m0
  <2>3. OfFlow' /\ StepsAsSet'
    <3>1. \A m \in net : (Waits(m.client)' <=> Waits(m.client)) /\ req'[m.client] = req[m.client]
      BY <1>0, <2>1 DEF Waits
    <3>2. spc # "poll" => (Waits(params.client)' <=> Waits(params.client))
      BY <2>1 DEF Waits, TypeOK, Message
    <3> QED
      BY <2>1, <2>2, <3>1, <3>2 DEF OfFlow, IsRequest, StepsAsSet
  <2>4. \A b \in Clients : \A type \in MsgTypes : Coming(b, type) => Coming(b, type)'
    BY <2>1, <2>2, StillComing
  <2>5. InTime'
    BY <1>0, <2>1, <2>4 DEF InTime
  <2> QED
    BY <2>3, <2>5
<1>3. ASSUME NEW c \in Clients, PollTimeout(c) PROVE TimelyInv'
  <2>1. ~Outstanding(c) /\ pc[c] = "poll" /\ wait[c] # {}
    BY <1>3 DEF PollTimeout, Polling
  <2>2. PICK type \in wait[c] : Coming(c, type)
    BY <2>1 DEF InTime
  <2> QED
    BY <2>1, <2>2 DEF Outstanding, Coming, Serves, Arriving
<1>4. ASSUME NEW c \in Clients, NEW m \in net, RecvStale(c, m) PROVE TimelyInv'
  <2>1. m.to = "client" /\ m.client = c /\ pc[c] = "poll" /\ m.seq # seq[c]
    BY <1>4 DEF RecvStale, Receives, Polling
  <2>2. m.req = req[c]
    BY <2>1 DEF OfFlow
  <2>3. Current(c) - m.req = 0
    BY <1>0, <2>1, <2>2 DEF Current
  <2>4. m.seq = IdBefore(c, 0)
    BY <1>0, <2>1, <2>3 DEF ExchangeInv, IdsFollowRequests
  <2> QED
    BY <1>0, <2>1, <2>4 DEF IdBefore
<1>5. ASSUME NEW c \in Clients, NEW m \in net, RecvSync(c, m) \/ RecvFollowUp(c, m)
      PROVE  TimelyInv'
  <2>1. /\ m.type \in wait[c] /\ Arriving(m, c, req[c]) /\ net' = net \ {m}
        /\ UNCHANGED <<spc, params, req, loops, timeouted, slept>> /\ pc[c] = "poll"
    BY <1>5, AcceptedIsAwaited
    DEF RecvSync, RecvFollowUp, Accepts, Polling, serviceVars
  <2>2. /\ UNCHANGED pc
        /\ \A b \in Clients : b # c => wait'[b] = wait[b]
        /\ wait'[c] = IF UseTxTwoSteps THEN wait[c] \ {m.type} ELSE {}
    <3>1. m.to = "client" /\ m.twoSteps = UseTxTwoSteps /\ (m.type = "Follow_Up" => UseTxTwoSteps)
      BY <2>1 DEF StepsAsSet, Arriving
    <3>2. CASE RecvSync(c, m)
      <4>1. m.tlv
        BY <3>1, <3>2 DEF RecvSync, ExchangeInv, AnswersHaveTlv
      <4> QED
        BY <3>1, <3>2, <4>1, FlagAssumption DEF RecvSync, TypeOK
    <3>3. CASE RecvFollowUp(c, m)
      BY <3>1, <3>3 DEF RecvFollowUp, TypeOK
    <3> QED
      BY <1>5, <3>2, <3>3
  <2>3. StepsAsSet'
    BY <2>1 DEF StepsAsSet
  <2>4. \A type \in wait'[c] : Coming(c, type)'
    <3> SUFFICES ASSUME NEW type \in wait'[c] PROVE Coming(c, type)'
      OBVIOUS
    <3>1. UseTxTwoSteps /\ type \in wait[c] /\ type # m.type
      BY <2>2
    <3>2. Coming(c, type)
      BY <2>1, <3>1 DEF InTime
    <3>3. ~IsRequest(m)
      BY <2>1 DEF IsRequest, Arriving
    <3> QED
      BY <2>1, <3>1, <3>2, <3>3 DEF Coming, Serves, Arriving
  <2>5. ASSUME NEW b \in Clients, b # c, NEW type, Coming(b, type) PROVE Coming(b, type)'
    BY <2>1, <2>5, StillComing DEF Arriving
  <2>6. InTime'
    BY <2>1, <2>2, <2>4, <2>5 DEF InTime
  <2>7. wait'[c] = {} => /\ \A l \in net' : (~IsRequest(l) /\ l.to # "client") \/ l.client # c
                         /\ spc # "poll" => params.client # c
    <3> SUFFICES ASSUME wait'[c] = {}
                 PROVE  /\ \A l \in net' : (~IsRequest(l) /\ l.to # "client") \/ l.client # c
                        /\ spc # "poll" => params.client # c
      OBVIOUS
    <3>1. \A l \in net : IsRequest(l) => l.client # c
      <4> SUFFICES ASSUME NEW l \in net, IsRequest(l), l.client = c PROVE FALSE
        OBVIOUS
      <4>1. l.req = req[c] /\ \A k \in Nat : ~Reading(c, req[c], k)
        BY DEF OfFlow, ReplyInv, AnsweredOnce
      <4> QED
        BY <1>0, <2>1, <4>1, ArrivingIsReading
    <3>2. \A l \in net' : l.to = "client" => l.client # c
      <4> SUFFICES ASSUME NEW l \in net', l.to = "client", l.client = c PROVE FALSE
        OBVIOUS
      <4>1. l \in net /\ l # m /\ Arriving(l, c, req[c])
        BY <2>1 DEF OfFlow, Arriving
      <4>2. l.type # m.type
        BY <1>0, <2>1, <4>1 DEF SentOnce
      <4>3. CASE UseTxTwoSteps
        <5>1. l.type \in MsgTypes \ wait[c]
          BY <1>0, <2>2, <4>1, <4>2, <4>3
        <5> QED
          BY <2>1, <4>1, <5>1 DEF Awaited
      <4>4. CASE ~UseTxTwoSteps
        BY <1>0, <2>1, <4>1, <4>2, <4>4 DEF StepsAsSet, Arriving, MsgTypes
      <4> QED
        BY <4>3, <4>4
    <3>3. spc # "poll" => params.client # c
      <4> SUFFICES ASSUME spc # "poll", params.client = c PROVE FALSE
        OBVIOUS
      <4>1. Serves(c, req[c])
        BY DEF OfFlow, Serves
      <4>2. spc = "followUp" /\ m.type = "Sync"
        BY <1>0, <2>1, <4>1 DEF SentOnce
      <4>3. "Follow_Up" \in MsgTypes \ wait[c]
        BY <2>2, <4>2 DEF StepsAsSet, MsgTypes
      <4> QED
        BY <2>1, <4>1, <4>3 DEF Awaited
    <3> QED
      BY <2>1, <3>1, <3>2, <3>3
  <2>8. OfFlow'
    <3>1. \A b \in Clients : b # c \/ wait'[c] # {} => (Waits(b) => Waits(b)')
      BY <2>1, <2>2 DEF Waits
    <3>2. \A l \in net' : IsRequest(l) \/ l.to = "client" => l.client # c \/ wait'[c] # {}
      BY <2>7
    <3>3. spc # "poll" => params.client \in Clients /\ (params.client # c \/ wait'[c] # {})
      BY <2>7 DEF TypeOK, Message
    <3> QED
      BY <1>0, <2>1, <3>1, <3>2, <3>3 DEF OfFlow
  <2> QED
    BY <2>3, <2>6, <2>8
<1>6. ASSUME NEW c \in Clients, FlowEnd(c) PROVE TimelyInv'
  <2>1. /\ pc[c] = "poll" /\ loops[c] = WaitLoop /\ timeouted[c] = 0
        /\ UNCHANGED <<req, wait, loops, timeouted, net, spc, params>>
        /\ slept'[c] = CyclePause(0)
        /\ \A b \in Clients : b # c => slept'[b] = slept[b] /\ pc'[b] = pc[b]
    BY <1>6 DEF FlowEnd, InTime, TypeOK, serviceVars, pollVars
  <2>2. wait[c] = {}
    BY <1>6, <2>1 DEF FlowEnd
  <2>3. OfFlow' /\ StepsAsSet'
    <3>1. \A b \in Clients : Waits(b) => Waits(b)'
      BY <2>1, <2>2 DEF Waits
    <3>2. spc # "poll" => params.client \in Clients
      BY DEF TypeOK, Message
    <3> QED
      BY <1>0, <2>1, <3>1, <3>2 DEF OfFlow, StepsAsSet
  <2>4. slept'[c] >= CycleMs
    BY <2>1, WholePause
  <2>5. \A b \in Clients : \A type \in MsgTypes : Coming(b, type) => Coming(b, type)'
    BY <2>1, StillComing
  <2>6. InTime'
    BY <1>0, <2>1, <2>2, <2>4, <2>5 DEF InTime
  <2> QED
    BY <2>3, <2>6
<1>7. ASSUME NEW m \in net, TakeRequest(m) PROVE TimelyInv'
  <2>1. /\ IsRequest(m) /\ net' = net \ {m} /\ params' = m /\ spc = "poll" /\ spc' = "respSync"
        /\ UNCHANGED <<pc, req, wait, loops, timeouted, slept>>
    BY <1>7 DEF TakeRequest, IsRequest, clientVars, pollVars
  <2>2. Waits(m.client) /\ m.req = req[m.client]
    BY <2>1 DEF OfFlow
  <2>3. OfFlow' /\ StepsAsSet'
    BY <2>1, <2>2 DEF OfFlow, StepsAsSet, Waits
  <2>4. ASSUME NEW b \in Clients, NEW type \in MsgTypes, Coming(b, type) PROVE Coming(b, type)'
    <3>1. CASE b = m.client
      BY <2>1, <2>2, <3>1 DEF Coming, Serves
    <3>2. CASE b # m.client
      BY <2>1, <2>4, <3>2 DEF Coming, Serves, Arriving
    <3> QED
      BY <3>1, <3>2
  <2>5. InTime'
    BY <1>0, <2>1, <2>4 DEF InTime
  <2> QED
    BY <2>3, <2>5
<1>8. ASSUME NEW m \in net, IgnoreFollowUp(m) PROVE TimelyInv'
  <2>1. /\ m.to = "service" /\ m.type = "Follow_Up" /\ net' = net \ {m}
        /\ UNCHANGED <<pc, req, wait, loops, timeouted, slept, spc, params>>
    BY <1>8 DEF IgnoreFollowUp, clientVars, serviceVars, pollVars
  <2>2. OfFlow' /\ StepsAsSet'
    BY <2>1 DEF OfFlow, StepsAsSet, Waits
  <2>3. \A b \in Clients : \A type \in MsgTypes : Coming(b, type) => Coming(b, type)'
    BY <2>1, StillComing DEF IsRequest, Arriving
  <2>4. InTime'
    BY <1>0, <2>1, <2>3 DEF InTime
  <2> QED
    BY <2>2, <2>4
<1>9. ASSUME NEW t \in MsgTypes, net' = Post(RespMessage(t)), spc # "poll",
             t = "Sync" => spc = "respSync" /\ spc' = IF UseTxTwoSteps THEN "followUp" ELSE "poll",
             t = "Follow_Up" => spc = "followUp" /\ spc' = "poll",
             UNCHANGED <<params, pc, req, wait, loops, timeouted, slept>>
      PROVE  TimelyInv'
  <2> DEFINE m0 == RespMessage(t)
  <2>1. /\ m0.to = "client" /\ m0.client = params.client /\ m0.req = params.req /\ m0.type = t
        /\ m0.twoSteps = UseTxTwoSteps
    BY DEF RespMessage
  <2>2. params.client \in Clients /\ Waits(params.client) /\ params.req = req[params.client]
    BY <1>9 DEF TypeOK, Message, OfFlow
  <2>3. net' = net \cup {m0}
    BY <1>0, <1>9, <2>1, <2>2 DEF Post, Live
  <2> HIDE DEF m0
  <2>4. OfFlow'
    BY <1>9, <2>1, <2>2, <2>3 DEF OfFlow, Waits, IsRequest
  <2>5. StepsAsSet'
    <3>1. UseTxTwoSteps \/ (t = "Sync" /\ spc' = "poll")
      BY <1>9 DEF StepsAsSet, MsgTypes
    <3> QED
      BY <1>9, <2>1, <2>3, <3>1 DEF StepsAsSet, MsgTypes
  <2>6. ASSUME NEW b \in Clients, NEW type \in MsgTypes, Coming(b, type) PROVE Coming(b, type)'
    <3>1. CASE b = params.client /\ (type = t \/ ~UseTxTwoSteps)
      BY <1>9, <2>1, <2>2, <2>3, <3>1 DEF Coming, Arriving
    <3>2. CASE b = params.client /\ type # t /\ UseTxTwoSteps
      <4>1. CASE t = "Sync"
        BY <1>9, <2>2, <3>2, <4>1 DEF Coming, Serves
      <4>2. CASE t = "Follow_Up"
        <5>1. spc # "respSync" /\ type = "Sync"
          BY <1>9, <3>2, <4>2 DEF MsgTypes
        <5> QED
          BY <1>9, <2>3, <2>6, <5>1 DEF Coming, Serves, Arriving
      <4> QED
        BY <4>1, <4>2 DEF MsgTypes
    <3>3. CASE b # params.client
      BY <1>9, <2>3, <2>6, <3>3 DEF Coming, Serves, Arriving
    <3> QED
      BY <3>1, <3>2, <3>3
  <2>7. InTime'
    BY <1>0, <1>9, <2>6 DEF InTime
  <2> QED
    BY <2>4, <2>5, <2>7
<1>10. CASE SendRespSync
  BY <1>9, <1>10 DEF SendRespSync, clientVars, pollVars, MsgTypes
<1>11. CASE SendRespFollowUp
  BY <1>9, <1>11 DEF SendRespFollowUp, clientVars, pollVars, MsgTypes
<1>12. CASE Finished \/ UNCHANGED vars
  <2>1. UNCHANGED <<pc, req, wait, loops, timeouted, slept, net, spc, params>>
    BY <1>12 DEF Finished, vars
  <2>2. OfFlow' /\ StepsAsSet'
    BY <2>1 DEF OfFlow, StepsAsSet, Waits
  <2>3. \A b \in Clients : \A type \in MsgTypes : Coming(b, type) => Coming(b, type)'
    BY <2>1, StillComing
  <2>4. InTime'
    BY <1>0, <2>1, <2>3 DEF InTime
  <2> QED
    BY <2>2, <2>4
<1>13. ~EnvStep /\ ~ServiceSendFails
       /\ \A c \in Clients : ~SendReqSyncFails(c) /\ ~SendFollowUpFails(c) /\ ~RecvUnusable(c)
  BY DEF EnvStep, Duplicate, PlainSync, ServiceSendFails, SendReqSyncFails, SendFollowUpFails,
         RecvUnusable
<1> QED
  BY <1>1, <1>2, <1>3, <1>4, <1>5, <1>6, <1>7, <1>8, <1>10, <1>11, <1>12, <1>13
  DEF Next, ClientStep, ServiceStep

-----------------------------------------------------------------------------

\* Without faults, a cycle passes between two flows of a client, if it is of a
\* second or more: every flow gets its answers before a poll expires, and then
\* sleeps for the whole cycle.
THEOREM CyclesKept ==
  ASSUME Faults = {}, MsgLife <= SeqMax, CycleMs >= 1000 PROVE Spec => []CycleKept
<1>1. NoIdReuse /\ "duplicates" \notin Faults
  BY DEF NoIdReuse
<1>2. TypeInv /\ ExchangeInv /\ ReplyInv /\ PollInv /\ TimelyInv /\ [Next]_vars
        => PollInv' /\ TimelyInv'
  BY <1>1, AnswersStep, CountStep, TimelyStep DEF TypeInv, Known, PollInv, Faultless
<1>3. TypeInv /\ TimelyInv => CycleKept
  <2> SUFFICES ASSUME TypeOK, InTime, NEW c \in Clients, pc[c] = "send"
               PROVE  timeouted[c] * PollMs + slept[c] >= CycleMs
    BY DEF TypeInv, TimelyInv, CycleKept
  <2>1. timeouted[c] = 0 /\ slept[c] >= CycleMs /\ slept[c] \in Nat
    BY DEF InTime, TypeOK
  <2>2. 0 * PollMs = 0
    BY BoundsAssumption
  <2> QED
    BY <2>1, <2>2, BoundsAssumption
<1> QED
  BY <1>1, <1>2, <1>3, PollInit, TimelyInit, TypeInvariance, ExchangeInvariance, ReplyInvariance,
     PTL DEF Spec
=============================================================================
