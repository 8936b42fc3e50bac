---------------------------- MODULE SelfSenders ----------------------------
(***************************************************************************)
(* Three programs that send to themselves: from the Ethernet interface of  *)
(* a machine to its LTE interface, whose public address each of them first *)
(* learns with get_nat_addr().                                             *)
(*   "steered"  (sender/controlled-delay.cc) keeps the queue at a target   *)
(*              duration by steering the time of its next transmission.    *)
(*   "setpoint" (sender/buffer-setpoint.cc) keeps a number of packets en   *)
(*              route and makes a histogram of the times between arrivals. *)
(*   "threads"  (one-way-delay/sender/ethernetToLte.cc) sends in its main  *)
(*              thread while a second one receives, smooths the transit    *)
(*              times and sets the packet rate and size.                   *)
(* The network loses, delays and reorders, and may still hold a packet of  *)
(* an earlier run.  The wall clock may be set back once.                   *)
(***************************************************************************)
EXTENDS Integers, Sequences, FiniteSetsExt

CONSTANTS
    Packets,        \* NUM_PACKETS of "threads", PACKETS_TO_SEND of "setpoint"
    MaxSteered,     \* bound: the packets "steered" sends
    MaxEnRoute,     \* MAX_PACKETS_EN_ROUTE
    Coarse,         \* COARSE_TIMEOUT
    Interval,       \* AVERAGE_INTERVAL, which is QUEUE_DURATION_TARGET and 2 * STEERING_TIME too
    BinWidth,       \* of the histogram
    IntTop,         \* the first time that does not fit an int (2^31 ns)
    Wrap,           \* what the unsigned numbers wrap at
    Threshold,      \* 0.75 * TARGET_TT
    TopRate,        \* the largest packet rate and size, in steps of the additive increase
    Start, End      \* bound: the clock runs from Start to End

ASSUME SendersAssumption ==
    /\ {Packets, MaxSteered, MaxEnRoute, Coarse, Interval, BinWidth, IntTop, Wrap, TopRate, Start} \subseteq Nat \ {0}
    /\ {Threshold, End} \subseteq Nat
    /\ MaxEnRoute < Wrap /\ 2 * MaxSteered < Wrap
    /\ Start <= End

VARIABLES
    program, lossy,
    leftover,     \* did the network still hold a packet of an earlier run?
    neighbour,    \* "threads": do the four bytes behind numSent differ from zero?
    stage,        \* where the main thread is
    now,          \* Socket::timestamp()
    flight,       \* packets in the network: <<of this run?, sequence number>>
    sent,         \* packets_sent, numSent
    received,     \* packets_received; for "steered" a history variable
    outstanding,  \* packets_outstanding, packets_en_route
    last,         \* last_transmission, last_ts
    wake,         \* next_transmission
    history,      \* when the packets in the rate estimate were received
    rate,         \* current_rate in packets per interval (0: none), currentPacketRate
    storage,      \* the histogram: bin -> count
    sent_time,    \* packetstats: sequence number -> sent_time
    stt, sendBytes,
    adjusting,    \* the receiver thread has yet to set the rate
    lost,         \* history: own packets lost
    jumped,       \* history: the clock was set back
    wasReset,     \* history: "steered" has given up counting packets
    first,        \* history: when "setpoint" received its first packet
    samples       \* history: the least and the greatest transit time "threads" has measured

netVars      == <<program, lossy, leftover, neighbour, lost, jumped>>
steeredVars  == <<wake, history, wasReset>>
setpointVars == <<storage, first>>
threadVars   == <<sent_time, stt, sendBytes, adjusting, samples>>
vars == <<netVars, stage, now, flight, sent, received, outstanding, last, rate,
          steeredVars, setpointVars, threadVars>>

Seqs == 0 .. Packets - 1
Ended == {"done", "exit", "blocked", "aborted", "crashed"}

Init ==
    /\ program \in {"steered", "setpoint", "threads"}
    /\ lossy \in BOOLEAN
    /\ neighbour \in (IF program = "threads" THEN BOOLEAN ELSE {FALSE})
    /\ stage = "nat"
    /\ now = Start
    /\ leftover \in BOOLEAN
    /\ flight \in IF leftover THEN {{<<FALSE, Packets - 1>>}} ELSE {{}}
    /\ sent = 0 /\ received = 0 /\ outstanding = 0
    /\ last = (IF program = "steered" THEN Start ELSE 0)
    /\ wake = Start
    /\ history = <<>>
    /\ rate = (IF program = "steered" THEN 0 ELSE 1)
    /\ storage = [b \in 0 .. IntTop \div BinWidth |-> 0]
    /\ sent_time = [s \in Seqs |-> 0]
    /\ stt = 0 /\ sendBytes = 1
    /\ adjusting = FALSE
    /\ lost = 0 /\ jumped = FALSE /\ wasReset = FALSE /\ first = 0 /\ samples = {}

Top == CASE program = "steered" -> "loop" [] program = "setpoint" -> "fill" [] OTHER -> "stamp"

\* Ten random bytes go from the LTE to the Ethernet socket and tell the address.
\* If they are lost recv() blocks; if others come first the program exits.
GetNatAddr ==
    /\ stage = "nat"
    /\ stage' \in {Top, "exit"} \union IF lossy THEN {"blocked"} ELSE {}
    /\ UNCHANGED <<netVars, now, flight, sent, received, outstanding, last, rate,
                   steeredVars, setpointVars, threadVars>>

-----------------------------------------------------------------------------
(* The network and the clock.                                              *)

Lose(p) ==
    /\ lossy /\ p \in flight /\ stage \notin Ended
    /\ flight' = flight \ {p}
    /\ lost' = IF p[1] THEN lost + 1 ELSE lost
    /\ UNCHANGED <<program, lossy, leftover, neighbour, jumped, stage, now, sent, received, outstanding,
                   last, rate, steeredVars, setpointVars, threadVars>>

Tick ==
    /\ now < End /\ stage \notin Ended
    /\ now' = now + 1
    /\ UNCHANGED <<netVars, stage, flight, sent, received, outstanding, last, rate,
                   steeredVars, setpointVars, threadVars>>

\* By as much as the run has lasted.
SetBack ==
    /\ ~jumped /\ now > Start /\ stage \notin Ended
    /\ jumped' = TRUE
    /\ now' = Start
    /\ UNCHANGED <<program, lossy, leftover, neighbour, lost, stage, flight, sent, received, outstanding,
                   last, rate, steeredVars, setpointVars, threadVars>>

-----------------------------------------------------------------------------
(* sender/controlled-delay.cc.                                             *)

\* housekeeping() pops the packets at the front until one is young enough,
Recent(received_at) ==
    LET young == {k \in 1 .. Len(received_at) : now - received_at[k] <= Interval}
    IN  IF young = {} THEN <<>> ELSE SubSeq(received_at, Min(young), Len(received_at))

\* Bug: a packet received in this very moment fails the assertion.
SaneStrictly(received_at) == \A k \in DOMAIN received_at : now > received_at[k]

\* and asserts that none of those it looks at is ahead of the clock.
Sane(received_at) == Recent(received_at) = <<>> \/ now >= Head(Recent(received_at))

\* get_rate() takes 1/8 of the sample and 7/8 of the old rate every time it is
\* called; that is abstracted to any rate between the two.
Rates(n) ==
    IF n <= 2 THEN {1} ELSE IF rate = 0 THEN {n} ELSE Min({rate, n}) .. Max({rate, n})

\* Bug: the number of packets outstanding is taken as a signed one.
ExtraPacketsSigned(r, o) == 3 * r - 2 * (IF o < Wrap \div 2 THEN o ELSE o - Wrap)

\* Twice the packets that bring the queue to its target within STEERING_TIME.
ExtraPackets(r, o) == 3 * r - 2 * o

Delay(extra) == IF extra > 0 THEN Interval \div extra ELSE Coarse

\* One pass of the loop, until it waits: send if it is time, and schedule.
\* A negative extra rate resets the counter before and after the transmission.
Pass ==
    /\ stage = "loop"
    /\ IF ~Sane(history)
       THEN /\ stage' = "aborted"
            /\ UNCHANGED <<flight, sent, outstanding, last, rate, steeredVars>>
       ELSE \E r \in Rates(Len(Recent(history))) :
              LET extra == ExtraPackets(r, outstanding)
                  sends == last + Delay(extra) <= now
              IN  /\ sends => sent < MaxSteered
                  /\ stage' = "poll"
                  /\ history' = Recent(history)
                  /\ rate' = IF Len(history') <= 2 THEN rate ELSE r
                  /\ flight' = IF sends THEN flight \union {<<TRUE, sent>>} ELSE flight
                  /\ sent' = IF sends THEN sent + 1 ELSE sent
                  /\ last' = IF sends THEN now ELSE last
                  /\ outstanding' = IF extra <= 0 THEN 0
                                    ELSE IF sends THEN (outstanding + 1) % Wrap ELSE outstanding
                  /\ wasReset' = (wasReset \/ extra <= 0)
                  /\ wake' = last' + Delay(extra)
    /\ UNCHANGED <<netVars, now, received, setpointVars, threadVars>>

Timeout ==
    /\ stage = "poll"
    /\ now >= wake
    /\ stage' = "loop"
    /\ UNCHANGED <<netVars, now, flight, sent, received, outstanding, last, rate,
                   steeredVars, setpointVars, threadVars>>

\* Bug: packets of earlier runs are counted as well.
OwnAny(p) == TRUE

Own(p) == p[1]

\* poll() finds a packet; add_packet() adds it and does the housekeeping.
TakeSteered(p) ==
    /\ stage = "poll"
    /\ p \in flight
    /\ flight' = flight \ {p}
    /\ IF Own(p) /\ Sane(Append(history, now))
       THEN /\ history' = Recent(Append(history, now))
            /\ outstanding' = (outstanding - 1) % Wrap
            /\ received' = received + 1
       ELSE UNCHANGED <<outstanding, received, history>>
    /\ stage' = IF Own(p) => Sane(Append(history, now)) THEN "loop" ELSE "aborted"
    /\ UNCHANGED <<netVars, now, sent, last, rate, wake, wasReset, setpointVars, threadVars>>

-----------------------------------------------------------------------------
(* sender/buffer-setpoint.cc and its histogram.                            *)

Fill ==
    /\ stage = "fill"
    /\ IF received < Packets /\ outstanding < MaxEnRoute
       THEN /\ flight' = flight \union {<<TRUE, sent>>}
            /\ sent' = sent + 1
            /\ outstanding' = outstanding + 1
            /\ UNCHANGED stage
       ELSE /\ stage' = IF received < Packets THEN "recv" ELSE "done"
            /\ UNCHANGED <<flight, sent, outstanding>>
    /\ UNCHANGED <<netVars, now, received, last, rate, steeredVars, setpointVars, threadVars>>

\* The uint64_t difference of two times as the int it is passed as.
Sample(t) == ((t + IntTop) % (2 * IntTop)) - IntTop

\* Bug: the bins begin, instead of being centred, at multiples of their width.
BinBeginning(sample) == IF sample < 0 THEN -1 ELSE sample \div BinWidth

\* C divides towards zero; the sum overflows to a negative number.
Bin(sample) ==
    LET sum == Sample(sample + BinWidth \div 2)
    IN  IF sum < 0 THEN -((-sum) \div BinWidth) ELSE sum \div BinWidth

\* Bug: packets_en_route is left alone.
EnRouteAfterNone(n) == n

EnRouteAfter(n) == n - 1

\* recv(): record() asserts that the sample has a bin.
TakeSetpoint(p) ==
    /\ stage = "recv"
    /\ p \in flight
    /\ flight' = flight \ {p}
    /\ IF ~Own(p)
       THEN stage' = "fill" /\ UNCHANGED <<outstanding, received, last, setpointVars>>
       ELSE LET bin == Bin(Sample(now - last))
            IN  IF last > 0 /\ bin < 0
                THEN stage' = "aborted" /\ UNCHANGED <<outstanding, received, last, setpointVars>>
                ELSE /\ stage' = "fill"
                     /\ storage' = IF last > 0 THEN [storage EXCEPT ![bin] = @ + 1] ELSE storage
                     /\ first' = IF last > 0 THEN first ELSE now
                     /\ last' = now
                     /\ outstanding' = EnRouteAfter(outstanding)
                     /\ received' = received + 1
    /\ UNCHANGED <<netVars, now, sent, rate, steeredVars, threadVars>>

-----------------------------------------------------------------------------
(* one-way-delay/sender/ethernetToLte.cc.                                  *)

\* Bug: the packet goes out without its time.
StampedNever(s, times) == times

\* sent_time as the packet goes out.
Stamped(s, times) == [times EXCEPT ![s] = now]

\* The main thread, after its sleep: the time of the packet is noted ...
Stamp ==
    /\ stage = "stamp"
    /\ IF sent < Packets
       THEN /\ sent_time' = Stamped(sent, sent_time)
            /\ stage' = "send"
       ELSE /\ stage' = "done"
            /\ UNCHANGED sent_time
    /\ UNCHANGED <<netVars, now, flight, sent, received, outstanding, last, rate,
                   steeredVars, setpointVars, stt, sendBytes, adjusting, samples>>

\* ... and then the packet is sent.
SendStamped ==
    /\ stage = "send"
    /\ flight' = flight \union {<<TRUE, sent>>}
    /\ sent' = sent + 1
    /\ stage' = "stamp"
    /\ UNCHANGED <<netVars, now, received, outstanding, last, rate,
                   steeredVars, setpointVars, threadVars>>

UpdateStt(tt, s) == IF s = 0 THEN tt ELSE (tt + 7 * s) \div 8

\* Bug: halving goes down to nothing.
AdjustedToZero(value, s) ==
    IF s > Threshold THEN value \div 2 ELSE IF s < Threshold THEN Min({value + 1, TopRate}) ELSE value

\* Bug: the increase goes on until halving would start at the target itself.
AdjustedLate(value, s) ==
    IF s > Threshold + 1 THEN Max({value \div 2, 1}) ELSE Min({value + 1, TopRate})

\* checkCongestion(), of the rate or the size: halve, increase or leave.
Adjusted(value, s) ==
    IF s > Threshold THEN Max({value \div 2, 1})
    ELSE IF s < Threshold THEN Min({value + 1, TopRate})
    ELSE value

\* The receiver thread: a packet has arrived and its transit time is smoothed
\* (it takes at least one tick unless the clock was set back).  The eight bytes
\* of the sequence number include the four behind numSent; if these differ from
\* zero the lookup is far outside the vector.
Hear(p) ==
    /\ program = "threads" /\ stage \in {"stamp", "send"}
    /\ ~adjusting
    /\ p \in flight
    /\ flight' = flight \ {p}
    /\ LET tt == (now - sent_time[p[2]]) % Wrap
       IN  /\ tt # 0
           /\ IF neighbour
              THEN stage' = "crashed" /\ UNCHANGED <<stt, sendBytes, adjusting, samples>>
              ELSE /\ stt' = UpdateStt(tt, stt)
                   /\ samples' = {Min(samples \union {tt}), Max(samples \union {tt})}
                   /\ sendBytes' = Adjusted(sendBytes, stt')
                   /\ adjusting' = TRUE
                   /\ UNCHANGED stage
    /\ UNCHANGED <<netVars, now, sent, received, outstanding, last, rate,
                   steeredVars, setpointVars, sent_time>>

\* The result of checkCongestion() is assigned.
SetRate ==
    /\ adjusting /\ stage \notin Ended
    /\ rate' = Adjusted(rate, stt)
    /\ adjusting' = FALSE
    /\ UNCHANGED <<netVars, stage, now, flight, sent, received, outstanding, last,
                   steeredVars, setpointVars, sent_time, stt, sendBytes, samples>>

-----------------------------------------------------------------------------
Packet == BOOLEAN \X (0 .. Packets + MaxEnRoute + MaxSteered)

MainThread == GetNatAddr \/ Pass \/ Timeout \/ Fill \/ Stamp \/ SendStamped
Take(p)    == TakeSteered(p) \/ TakeSetpoint(p) \/ Hear(p)

Next ==
    \/ MainThread \/ Tick \/ SetBack \/ SetRate
    \/ \E p \in flight : Lose(p) \/ Take(p)

Spec == Init /\ [][Next]_vars

\* The main thread runs, and a packet that is not lost arrives.
FairSpec ==
    Spec /\ WF_vars(MainThread) /\ WF_vars(\E p \in flight : Take(p))
-----------------------------------------------------------------------------
TypeOK ==
    /\ program \in {"steered", "setpoint", "threads"}
    /\ {lossy, leftover, neighbour, adjusting, jumped, wasReset} \subseteq BOOLEAN
    /\ stage \in {"nat", "loop", "poll", "fill", "recv", "stamp", "send"} \union Ended
    /\ {now, last, wake, first} \subseteq 0 .. End + Coarse + Interval
    /\ flight \subseteq Packet
    /\ sent \in 0 .. Packets + MaxEnRoute + MaxSteered
    /\ received \in 0 .. Packets + MaxSteered
    /\ outstanding \in 0 .. Wrap - 1
    /\ \A k \in DOMAIN history : history[k] \in Start .. End
    /\ storage \in [0 .. IntTop \div BinWidth -> 0 .. Packets]
    /\ sent_time \in [Seqs -> 0 .. End]
    /\ {stt} \union samples \subseteq 0 .. Wrap - 1
    /\ rate \in IF program = "threads" THEN 1 .. TopRate ELSE 0 .. MaxSteered
    /\ sendBytes \in 1 .. TopRate
    /\ lost \in 0 .. Packets + MaxEnRoute + MaxSteered

\* Up to the first time the sender believes its queue is too long, the packets
\* it counts as outstanding are those that have not come back.  From then on the
\* comment of controlled-delay.cc:112, that all have timed out, is not so.
CountExact == program = "steered" /\ ~wasReset => outstanding = sent - received

\* The counter that packets still under way take below zero never stays there:
\* the next pass takes the huge number for a full queue and starts from zero.
WrapHeals == program = "steered" /\ stage = "poll" => outstanding <= sent

\* The assertions of housekeeping() and of record() hold unless the clock was
\* set back or a gap between arrivals does not fit the int it is passed as.
AssertionsHold ==
    stage = "aborted" =>
        jumped \/ (program = "setpoint" /\ now - last + BinWidth \div 2 >= IntTop)

\* While buffer-setpoint.cc waits, what is under way and what was ever lost make
\* up the set-point: a lost packet shrinks the buffer for good.
SetPointErodes ==
    stage = "recv" => Cardinality({p \in flight : p[1]}) + lost = MaxEnRoute

\* What the counters of packets under way are worth in both programs that keep one.
CountersConsistent == TypeOK /\ CountExact /\ WrapHeals /\ SetPointErodes

\* f[0] + ... + f[n].
Total(f, n) == LET sum[k \in Nat] == IF k = 0 THEN f[0] ELSE sum[k - 1] + f[k] IN sum[n]

\* The number of gaps in a histogram, and what they make up.
Gaps(bins) == Total(bins, IntTop \div BinWidth)
Span(bins) == Total([b \in DOMAIN bins |-> b * BinWidth * bins[b]], IntTop \div BinWidth)

\* The histogram adds up: the gaps it counts, each rounded to the middle of its bin,
\* make up the time from the first arrival to the last.  (Gaps that
\* do not fit an int may also end up in a wrong bin, without an assertion.)
HistogramSpans ==
    LET count == Gaps(storage)
        error == Span(storage) - (last - first)
        fits  == last - first + BinWidth \div 2 < IntTop
    IN  program = "setpoint" /\ ~jumped /\ received > 0 /\ fits =>
            /\ count = received - 1
            /\ 2 * error \in -(BinWidth * count) .. BinWidth * count

\* The smoothed transit time lies between the least and the greatest measured,
\* and none is longer than the program has run: the receiver thread never looks
\* up a time that is not there yet.  Packets of an earlier run, which carry
\* nothing to tell them by, and a clock set back are the exceptions.
SttCredible ==
    program = "threads" /\ samples # {} =>
        /\ Min(samples) <= stt /\ stt <= Max(samples)
        /\ ~jumped /\ ~leftover => Max(samples) <= End - Start

\* A sender whose packets all took longer than the threshold has not speeded up.
CongestionHeeded ==
    program = "threads" /\ (\A tt \in samples : tt > Threshold) => rate = 1 /\ sendBytes = 1

\* What the receiver thread concludes from the transit times is justified by them.
TransitTimesHeeded == SttCredible /\ CongestionHeeded

\* What ends by itself ends: the program with the two threads whatever is lost,
\* the one with the set-point if nothing is.
Ends ==
    (program = "threads" \/ (program = "setpoint" /\ ~lossy)) ~> stage \in Ended
=============================================================================
