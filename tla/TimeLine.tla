------------------------------ MODULE TimeLine ------------------------------
(***************************************************************************)
(* What a time stamp and PTP clocks are to a program: numbers of           *)
(* nanoseconds. The program has a time in hand and, between opening and    *)
(* closing it, one clock of its own. It sets and steps that clock with the *)
(* time in hand, or asks it for a correction of its phase, which it makes  *)
(* bit by bit; nothing else happens to a clock.                            *)
(***************************************************************************)
EXTENDS Integers

CONSTANTS
    Clocks,
    NoClock   \* what the program has before it opened a clock

VARIABLES
    inHand,   \* the time in the program's hand
    own,      \* the program's own clock
    shows,    \* of each clock, the time it shows
    owed      \* of each clock, the correction that it has still to make

Init ==
    /\ inHand = 0
    /\ own = NoClock
    /\ shows = [c \in Clocks |-> 0]
    /\ owed = [c \in Clocks |-> 0]

\* The program computes a time, or reads a clock.
Take == inHand' \in Int /\ UNCHANGED <<own, shows, owed>>

Open(c) == own = NoClock /\ own' = c /\ UNCHANGED <<inHand, shows, owed>>
Close   == own' = NoClock /\ UNCHANGED <<inHand, shows, owed>>

\* Operations on the program's own clock.
Set     == shows' = [shows EXCEPT ![own] = inHand] /\ UNCHANGED <<inHand, own, owed>>
Step    == shows' = [shows EXCEPT ![own] = @ + inHand] /\ UNCHANGED <<inHand, own, owed>>
Correct == owed' = [owed EXCEPT ![own] = inHand] /\ UNCHANGED <<inHand, own, shows>>

\* A clock makes a part of the correction that it owes, in its direction and no
\* more than is owed.
Slew(c) ==
    \E part \in (0..owed[c]) \union (owed[c]..0) :
        /\ shows' = [shows EXCEPT ![c] = @ + part]
        /\ owed' = [owed EXCEPT ![c] = @ - part]
        /\ UNCHANGED <<inHand, own>>

Next ==
    \/ Take \/ Close
    \/ own \in Clocks /\ (Set \/ Step \/ Correct)
    \/ \E c \in Clocks : Open(c) \/ Slew(c)

Spec == Init /\ [][Next]_<<inHand, own, shows, owed>>
=============================================================================
