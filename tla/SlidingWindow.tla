--------------------------- MODULE SlidingWindow ---------------------------
(***************************************************************************)
(* What a receive rate promises: packets are taken in the order they came, *)
(* and every report counts exactly the packets taken so far that came in   *)
(* the last Extent units of time, whatever was asked before and however    *)
(* long nobody asked.  Packets that wait to be taken are not counted, but  *)
(* are when they are taken in time: their age is that of their arrival.    *)
(***************************************************************************)
EXTENDS Naturals, FiniteSets

CONSTANTS
    Extent,  \* the length of the window
    Numbers  \* the packets that may arrive

VARIABLES
    clock,     \* the time
    waiting,   \* the packets that have arrived: a set of <<number, time>>
    taken,     \* the ones taken out of it
    reported   \* the last report, the number of packets in the window

window == <<clock, waiting, taken, reported>>

Recent == {a \in taken : clock - a[2] <= Extent}

Init ==
    /\ clock = 0
    /\ waiting = {}
    /\ taken = {}
    /\ reported = 0

Tick == clock' = clock + 1 /\ UNCHANGED <<waiting, taken, reported>>

Arrive(n) ==
    /\ waiting' = waiting \union {<<n, clock>>}
    /\ UNCHANGED <<clock, taken, reported>>

\* One of the packets that have waited longest.
Take(a) ==
    /\ \A b \in waiting : a[2] <= b[2]
    /\ waiting' = waiting \ {a}
    /\ taken' = taken \union {a}
    /\ UNCHANGED <<clock, reported>>

Report ==
    /\ reported' = Cardinality(Recent)
    /\ UNCHANGED <<clock, waiting, taken>>

Next == Tick \/ (\E n \in Numbers : Arrive(n)) \/ (\E a \in waiting : Take(a)) \/ Report

Spec == Init /\ [][Next]_window
=============================================================================
