---------------------------- MODULE OneWaySender ----------------------------
(***************************************************************************)
(* sender/send1way.cc: a host that floods its own three LTE interfaces     *)
(* over the Internet and keeps a window of MAX_OUTSTANDING packets open to *)
(* each destination in use.  One loop probes every destination at times,   *)
(* settles the oldest packets, refills the windows and then blocks in      *)
(* poll() until an interface has a packet for it.                          *)
(*                                                                         *)
(* Time is counted in units of 100 ms, the granularity of the probes, and  *)
(* starts late enough that a packet never sent, whose sent_time is zero,   *)
(* looks timed out.  `packetstats' of the code is the three functions      *)
(* sent_time, dest and received over the packet numbers.                   *)
(***************************************************************************)
EXTENDS Integers, FiniteSets, FiniteSetsExt

CONSTANTS
    NumDests,        \* the number of LTE interfaces, 3 in the code
    NumPackets,      \* bound: NUM_PACKETS, the length of packetstats
    MaxOutstanding,  \* MAX_OUTSTANDING
    Timeout,         \* TIMEOUT, 500 ms
    FlipPeriod,      \* 20 s, after which another window is kept open
    MaxTime          \* bound: how far the clock runs

ASSUME OneWayAssumption ==
    /\ {NumDests, NumPackets, MaxOutstanding, FlipPeriod} \subseteq Nat \ {0}
    /\ {Timeout, MaxTime} \subseteq Nat

VARIABLES
    lossy,            \* does the network lose packets?
    pc,               \* where the loop is
    now,              \* the clock
    the_time,         \* the clock as read at the top of the loop
    last_time,        \* when the probes last went out
    numextra,         \* windows kept open besides that of destination 0
    packets_sent,
    next_unacked,
    num_outstanding,  \* per destination
    sent_time, dest, received,  \* packetstats
    refilling,        \* the destination whose window is refilled next
    net,              \* packets on their way
    timedOut          \* history: the entries the loop has timed out

stats    == <<sent_time, dest, received>>
loopVars == <<the_time, last_time, numextra, packets_sent, next_unacked, num_outstanding,
              stats, refilling>>
vars     == <<lossy, pc, now, loopVars, net, timedOut>>

Dests   == 0 .. NumDests - 1
Packets == 0 .. NumPackets - 1
Epoch   == Timeout + 1

Init ==
    /\ lossy \in BOOLEAN
    /\ pc = "top"
    /\ now = Epoch /\ the_time = Epoch /\ last_time = Epoch
    /\ numextra = 0
    /\ packets_sent = 0
    /\ next_unacked = 0
    /\ num_outstanding = [i \in Dests |-> 0]
    /\ sent_time = [p \in Packets |-> 0]
    /\ dest = [p \in Packets |-> 0]
    /\ received = [p \in Packets |-> FALSE]
    /\ refilling = 0
    /\ net = {}
    /\ timedOut = {}

Tick ==
    /\ now < Epoch + MaxTime
    /\ now' = now + 1
    /\ UNCHANGED <<lossy, pc, loopVars, net, timedOut>>

-----------------------------------------------------------------------------
(* The loop, from its top to poll().                                       *)

\* It runs until NUM_PACKETS packets are sent and reads the clock once.
ReadClock ==
    /\ pc = "top"
    /\ packets_sent < NumPackets
    /\ the_time' = now
    /\ pc' = "probe"
    /\ UNCHANGED <<lossy, now, last_time, numextra, packets_sent, next_unacked, num_outstanding,
                   stats, refilling, net, timedOut>>

\* Send n packets, the k-th of them to to[k].  The model has no packets beyond
\* NumPackets, where the code writes past the end of packetstats.
SendBurst(n, to) ==
    LET burst == {p \in Packets : packets_sent <= p /\ p < packets_sent + n}
        target(p) == to[p - packets_sent]
    IN  /\ sent_time' = [p \in Packets |-> IF p \in burst THEN now ELSE sent_time[p]]
        /\ dest' = [p \in Packets |-> IF p \in burst THEN target(p) ELSE dest[p]]
        /\ net' = net \union burst
        /\ packets_sent' = packets_sent + Cardinality(burst)
        /\ num_outstanding' = [i \in Dests |->
               num_outstanding[i] + Cardinality({p \in burst : target(p) = i})]

\* Once in 100 ms a probe to every destination; after 20 s, another window.
Probe ==
    /\ pc = "probe"
    /\ pc' = "settle"
    /\ IF the_time # last_time
       THEN /\ numextra' = IF the_time \div FlipPeriod # last_time \div FlipPeriod
                           THEN (numextra + 1) % NumDests ELSE numextra
            /\ last_time' = the_time
            /\ SendBurst(NumDests, [k \in Dests |-> k])
       ELSE UNCHANGED <<numextra, last_time, sent_time, dest, net, packets_sent, num_outstanding>>
    /\ UNCHANGED <<lossy, now, the_time, next_unacked, received, refilling, timedOut>>

\* the_time - sent_time > TIMEOUT on unsigned numbers: the difference wraps
\* when the packet was sent after the clock was read.
Expired(p) == the_time < sent_time[p] \/ the_time - sent_time[p] > Timeout

\* Bug: what was timed out before is taken off again when it arrives.
NewlySettledAll(S) == S

\* The packets of S that num_outstanding still counts.
NewlySettled(S) == {p \in S : ~received[p]}

\* The packets of S are received, or timed out.
SettlePackets(S) ==
    /\ received' = [p \in Packets |-> received[p] \/ p \in S]
    /\ num_outstanding' = [i \in Dests |->
           num_outstanding[i] - Cardinality({p \in NewlySettled(S) : dest[p] = i})]

\* Bug: the last packet passed is not settled.
PassedBut(next) == next_unacked + 1 .. next - 2

\* The packets the loop on next_unacked passes on its way to next.
Passed(next) == next_unacked + 1 .. next - 1

\* The loop on next_unacked: from a packet that is received it moves up to the
\* first that is neither received nor timed out, and times out what it passes.
\* Nothing stops it at packets_sent; with no such packet it leaves packetstats.
Settle ==
    LET kept == {p \in Packets : p > next_unacked /\ ~received[p] /\ ~Expired(p)}
        next == IF kept = {} THEN NumPackets ELSE Min(kept)
    IN  /\ pc = "settle"
        /\ IF received[next_unacked]
           THEN /\ next_unacked' = next
                /\ SettlePackets(Passed(next))
                /\ timedOut' = timedOut \union {p \in Passed(next) : ~received[p]}
                /\ pc' = IF kept = {} THEN "overrun" ELSE "refill"
           ELSE /\ pc' = "refill"
                /\ UNCHANGED <<next_unacked, received, num_outstanding, timedOut>>
        /\ refilling' = 0
        /\ UNCHANGED <<lossy, now, the_time, last_time, numextra, packets_sent, sent_time, dest, net>>

\* Bug: a whole window is sent.
ShortfallWhole(i) == IF num_outstanding[i] < MaxOutstanding THEN MaxOutstanding ELSE 0

\* Bug: a window is refilled when it is empty.
ShortfallWhenEmpty(i) == IF num_outstanding[i] = 0 THEN MaxOutstanding ELSE 0

\* Bug: the comparison is the wrong way round.
ShortfallReversed(i) ==
    IF num_outstanding[i] > MaxOutstanding THEN num_outstanding[i] - MaxOutstanding ELSE 0

\* packets_to_send, zero when the window is full.
Shortfall(i) ==
    IF num_outstanding[i] < MaxOutstanding THEN MaxOutstanding - num_outstanding[i] ELSE 0

\* The window of one destination is topped up to MAX_OUTSTANDING.
Refill ==
    /\ pc = "refill"
    /\ SendBurst(Shortfall(refilling), [k \in 0 .. MaxOutstanding |-> refilling])
    /\ IF refilling < numextra
       THEN refilling' = refilling + 1 /\ UNCHANGED pc
       ELSE pc' = "poll" /\ UNCHANGED refilling
    /\ UNCHANGED <<lossy, now, the_time, last_time, numextra, next_unacked, received, timedOut>>

-----------------------------------------------------------------------------
\* poll() returns when some interface has a packet; one packet is read from
\* each that has.  What was timed out before it arrived is only reported.
Poll(S) ==
    /\ pc = "poll"
    /\ S # {} /\ S \subseteq net
    /\ \A p, q \in S : p # q => dest[p] # dest[q]
    /\ SettlePackets(S)
    /\ net' = net \ S
    /\ pc' = "top"
    /\ UNCHANGED <<lossy, now, the_time, last_time, numextra, packets_sent, next_unacked, sent_time,
                   dest, refilling, timedOut>>

Lose(p) ==
    /\ lossy
    /\ p \in net
    /\ net' = net \ {p}
    /\ UNCHANGED <<lossy, pc, now, loopVars, timedOut>>

Next ==
    \/ Tick
    \/ ReadClock
    \/ Probe
    \/ Settle
    \/ Refill
    \/ \E S \in SUBSET Packets : Poll(S)
    \/ \E p \in Packets : Lose(p)

Spec == Init /\ [][Next]_vars

\* The process runs, and what the network does not lose it delivers.
Fairness ==
    /\ WF_vars(ReadClock) /\ WF_vars(Probe) /\ WF_vars(Settle) /\ WF_vars(Refill)
    /\ WF_vars(\E S \in SUBSET Packets : Poll(S))

FairSpec == Spec /\ Fairness
-----------------------------------------------------------------------------
Sent == 0 .. packets_sent - 1

TypeOK ==
    /\ lossy \in BOOLEAN
    /\ pc \in {"top", "probe", "settle", "refill", "poll", "overrun"}
    /\ now \in Epoch .. Epoch + MaxTime
    /\ {the_time, last_time} \subseteq Epoch .. now
    /\ numextra \in Dests /\ refilling \in Dests
    /\ packets_sent \in 0 .. NumPackets
    /\ next_unacked \in 0 .. NumPackets
    /\ num_outstanding \in [Dests -> Int]
    /\ pc # "overrun" => num_outstanding \in [Dests -> Nat]
    /\ sent_time \in [Packets -> {0} \union Epoch .. now]
    /\ dest \in [Packets -> Dests]
    /\ received \in [Packets -> BOOLEAN]
    /\ net \subseteq Sent
    /\ timedOut \subseteq Packets

\* As long as the loop stays within packetstats num_outstanding is the number
\* of packets sent to the destination and neither received nor timed out: what
\* arrives after its timeout is not taken off twice.
OutstandingExact ==
    pc # "overrun" => \A i \in Dests :
        num_outstanding[i] = Cardinality({p \in Sent : dest[p] = i /\ ~received[p]})

\* The types, and the counters that are kept beside the packets they count.
CountersConsistent == TypeOK /\ OutstandingExact

\* Everything before next_unacked is settled.
PrefixSettled == \A p \in Packets : p < next_unacked => received[p]

\* A window is exceeded by no more than the probes, one for each 100 ms.
WindowBound == \A i \in Dests : num_outstanding[i] <= MaxOutstanding + (now - Epoch)

\* With two or more packets per window, of which each turn of the loop takes at
\* most one, it never leaves the packets sent before it has timed one out.
OverrunNeedsTimeout == next_unacked > packets_sent => timedOut \cap Sent # {}

\* Over a network that loses nothing the loop sends all its packets, unless it
\* leaves packetstats: the windows never all close for good.
SendsAll == ~lossy => <>(packets_sent = NumPackets \/ pc = "overrun")
=============================================================================
