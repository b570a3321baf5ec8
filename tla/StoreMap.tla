------------------------------ MODULE StoreMap ------------------------------
(***************************************************************************)
(* What the store promises, without lists, nodes or a mutex: a map from    *)
(* client addresses to the time last put for them, with the sequenceId it  *)
(* was put for. Put, Fetch and the removal of an old record are atomic.    *)
(***************************************************************************)
EXTENDS Integers

CONSTANTS Workers, Ips, SeqIds, Times

VARIABLES
    map,     \* of each address: its record, or NoRecord
    result,  \* of each worker: what its last fetch gave, -1 when nothing
    now

vars == <<map, result, now>>

NoRecord == [seq |-> 0, ts |-> 0, last |-> 0]

Init ==
    /\ map = [ip \in Ips |-> NoRecord]
    /\ result = [w \in Workers |-> -1]
    /\ now = 0

Put(ip, seq, ts) ==
    /\ map' = [map EXCEPT ![ip] = [seq |-> seq, ts |-> ts, last |-> now]]
    /\ UNCHANGED <<result, now>>

\* A fetch gives the time put for this address and this sequenceId, and
\* clears it when it is told to.
Fetch(w, ip, seq, clear) ==
    /\ IF map[ip].seq = seq
       THEN /\ result' = [result EXCEPT ![w] = map[ip].ts]
            /\ IF clear THEN map' = [map EXCEPT ![ip].ts = 0] ELSE UNCHANGED map
       ELSE /\ result' = [result EXCEPT ![w] = -1]
            /\ UNCHANGED map
    /\ UNCHANGED now

\* A record not written in this second may be cleaned up.
Expire(ip) ==
    /\ map[ip] # NoRecord
    /\ map[ip].last < now
    /\ map' = [map EXCEPT ![ip] = NoRecord]
    /\ UNCHANGED <<result, now>>

Forget ==
    /\ map' = [ip \in Ips |-> NoRecord]
    /\ UNCHANGED <<result, now>>

Tick ==
    /\ now' = now + 1
    /\ UNCHANGED <<map, result>>

Next ==
    \/ \E ip \in Ips, seq \in SeqIds, ts \in Times : Put(ip, seq, ts)
    \/ \E w \in Workers, ip \in Ips, seq \in SeqIds, clear \in BOOLEAN : Fetch(w, ip, seq, clear)
    \/ \E ip \in Ips : Expire(ip)
    \/ Forget
    \/ Tick

Spec == Init /\ [][Next]_vars
=============================================================================
