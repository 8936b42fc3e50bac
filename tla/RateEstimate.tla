---------------------------- MODULE RateEstimate ----------------------------
(***************************************************************************)
(* Class RateEstimate of DataCollection/controlled-delay: the packets of   *)
(* the last averaging_extent_ms (one second), from which the receiver      *)
(* takes the rate and the one-way latency it feeds back.                   *)
(*                                                                         *)
(* Time is a natural number.  The receive rate is 1000 * size / extent in  *)
(* packets per second; it is counted here in packets per AveragingExtent,  *)
(* so it is the size of the list.                                          *)
(***************************************************************************)
EXTENDS Integers, Sequences, FiniteSets

CONSTANTS
    AveragingExtent,  \* averaging_extent_ms
    EmptyRate         \* empty_rate_estimate, MINIMUM_RX_RATE of the servo

ASSUME AveragingExtentAssumption == AveragingExtent \in Nat \ {0}
ASSUME EmptyRateAssumption       == EmptyRate \in Nat \ {0}

VARIABLE history  \* the packets kept: when each was sent and received

NoLatency == -1   \* empty_latency_estimate

RateInit == history = <<>>

\* Bug: a packet is dropped one unit too early.
ExpiredEarly(p, now) == now - p.recv >= AveragingExtent

\* The test of housekeeping().
Expired(p, now) == now - p.recv > AveragingExtent

\* RateEstimate::housekeeping at time now: pop the oldest until one is fresh.
Housekeep(packets, now) ==
    LET fresh == {i \in 1 .. Len(packets) : ~Expired(packets[i], now)}
    IN  IF fresh = {} THEN <<>>
        ELSE SubSeq(packets, CHOOSE i \in fresh : \A j \in fresh : i <= j, Len(packets))

\* RateEstimate::add_packet.
AddPacket(p, now) == history' = Housekeep(Append(history, p), now)

\* RateEstimate::get_rate after its housekeeping.
Rate(packets) == IF Len(packets) <= 2 THEN EmptyRate ELSE Len(packets)

\* Bug: the timestamps are subtracted without the casts to a signed type.
SampleUnsigned(p) == (p.recv - p.sent) % 2 ^ 16

\* The latency of a packet, negative when the clocks of the hosts disagree.
Sample(p) == p.recv - p.sent
Usable(packets) == {i \in 1 .. Len(packets) : Sample(packets[i]) >= 0}

\* The sum of the samples that are not negative.
TotalLatency(packets) ==
    LET total[n \in 0 .. Len(packets)] ==
            IF n = 0 THEN 0
            ELSE total[n - 1] + (IF n \in Usable(packets) THEN Sample(packets[n]) ELSE 0)
    IN  total[Len(packets)]

\* RateEstimate::get_latency after its housekeeping: the average of the samples
\* that are not negative, when there are at least two.
Latency(packets) ==
    IF Len(packets) <= 2 \/ Cardinality(Usable(packets)) < 2 THEN NoLatency
    ELSE TotalLatency(packets) \div Cardinality(Usable(packets))
=============================================================================
