--------------------------- MODULE CsptpExchange ---------------------------
(***************************************************************************)
(* What the exchange promises, without ids, polls or datagrams: a client   *)
(* opens an exchange by asking; the exchange either completes with four    *)
(* times that all belong to one answer to that very request, or it is      *)
(* given up; then the next one may be opened.                              *)
(***************************************************************************)
EXTENDS Naturals

CONSTANT Clients

VARIABLES
    phase,   \* of each client: "closed", "open" or "complete"
    asked,   \* requests each client made
    given,   \* answers the service took up
    result   \* of each client: the times of its complete exchange

vars == <<phase, asked, given, result>>

NoResult == [t1 |-> 0, r1 |-> <<0, 0>>, t2 |-> <<0, 0>>, r2 |-> <<0, 0>>]

\* The times of an exchange whose request n was answered by answer k.
Result(n, k) == [t1 |-> n, r1 |-> <<n, k>>, t2 |-> <<n, k>>, r2 |-> <<n, k>>]

Init ==
    /\ phase = [c \in Clients |-> "closed"]
    /\ asked = [c \in Clients |-> 0]
    /\ given = 0
    /\ result = [c \in Clients |-> NoResult]

Ask(c) ==
    /\ phase[c] = "closed"
    /\ phase' = [phase EXCEPT ![c] = "open"]
    /\ asked' = [asked EXCEPT ![c] = @ + 1]
    /\ UNCHANGED <<given, result>>

Answer ==
    /\ given' = given + 1
    /\ UNCHANGED <<phase, asked, result>>

Obtain(c) ==
    /\ phase[c] = "open"
    /\ phase' = [phase EXCEPT ![c] = "complete"]
    /\ \E k \in 1..given : result' = [result EXCEPT ![c] = Result(asked[c], k)]
    /\ UNCHANGED <<asked, given>>

\* The exchange is over: its result, if there is one, has been reported.
Close(c) ==
    /\ phase[c] # "closed"
    /\ phase' = [phase EXCEPT ![c] = "closed"]
    /\ result' = [result EXCEPT ![c] = NoResult]
    /\ UNCHANGED <<asked, given>>

Next == Answer \/ \E c \in Clients : Ask(c) \/ Obtain(c) \/ Close(c)

\* An exchange does not stay open for ever.
Spec == Init /\ [][Next]_vars /\ \A c \in Clients : WF_vars(Close(c))
=============================================================================
