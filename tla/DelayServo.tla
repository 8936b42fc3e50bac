----------------------------- MODULE DelayServo -----------------------------
(***************************************************************************)
(* One direction of the two-way saturator: the DelayServoSender of one     *)
(* host, the DelayServoReceiver of the other with its RateEstimate and its *)
(* History, the link that carries the data and the one that carries the    *)
(* feedback back (DataCollection/controlled-delay/delay-servo.{hh,cc}).    *)
(*                                                                         *)
(* The sender transmits at twice the rate the receiver reports, so that    *)
(* the bottleneck always has a queue, and backs off when the latency is    *)
(* too high.  Time is a natural number; both loops may stall, so nothing   *)
(* makes a program act when its deadline has come.  The second that rates  *)
(* are counted over is AveragingExtent units: a rate of r is one packet    *)
(* every AveragingExtent \div r units.                                     *)
(*                                                                         *)
(* A packet has two times at the receiver: the kernel stamps it when it    *)
(* reaches the socket, the program handles it in a later pass of its loop, *)
(* after the tick of that pass.  The rate and the latency are taken from   *)
(* the first, the silence that makes the receiver purge from the second.   *)
(***************************************************************************)
EXTENDS History, RateEstimate

CONSTANTS
    MaxTime,         \* bound: the last time the clock shows
    MaxSent,         \* bound: data packets sent
    MaxFeedback,     \* bound: feedback datagrams in flight
    BackoffRate,     \* BACKOFF_RATE
    MinimumTxRate,   \* MINIMUM_TX_RATE
    FeedbackPeriod,  \* 20 ms between feedbacks
    SilenceLimit,    \* 2 s without a packet before an active purge
    ReorderWindow,   \* reorder_window of the History, 20 ms
    PurgeStep,       \* how far an active purge reaches (10 in the code)
    LatencyLimit,    \* 10 s: the latency that makes the sender back off
    MaxSkew          \* bound: how far the clocks of the hosts disagree, either way

ASSUME ServoAssumption ==
    /\ {MaxTime, MaxSent, MaxFeedback, SilenceLimit, MaxSkew} \subseteq Nat
    /\ {BackoffRate, MinimumTxRate, FeedbackPeriod} \subseteq Nat \ {0}
    /\ {ReorderWindow, PurgeStep, LatencyLimit} \subseteq Nat \ {0}
    /\ BackoffRate < MinimumTxRate

VARIABLES
    now,           \* the clock of the receiver
    skew,          \* how far the clock of the sender is ahead of it, or behind
    current_rate,  \* sender: _current_rate
    packets_sent,  \* sender: _packets_sent
    tx_next,       \* sender: its _next_transmission, on the clock of the receiver
    data,          \* the queue of the bottleneck link
    socket,        \* the buffer of the receiver's data socket
    feedbacks,     \* the feedback datagrams in flight
    pass,          \* receiver: what its loop does next, "tick" or "poll"
    fb_next,       \* receiver: its _next_transmission
    last_stat,     \* receiver: _last_stat
    taken,         \* history: <<number, time of arrival>> of every packet read
    left,          \* history: packets left in the socket when one was last read
    reported,      \* history: packets counted by the last feedback
    worst          \* history: the longest transit of a packet read

senderVars   == <<current_rate, packets_sent, tx_next>>
receiverVars == <<histVars, history, pass, fb_next, last_stat>>
linkVars     == <<data, socket, feedbacks>>
ghostVars    == <<taken, left, reported, worst>>
vars == <<now, skew, senderVars, receiverVars, linkVars, ghostVars>>

Init ==
    /\ HistInit
    /\ RateInit
    /\ now = 0
    /\ skew \in -MaxSkew .. MaxSkew
    /\ current_rate = BackoffRate
    /\ packets_sent = 0
    /\ tx_next = 0
    /\ data = <<>>
    /\ socket = <<>>
    /\ feedbacks = {}
    /\ pass = "tick"
    /\ fb_next = 0
    /\ last_stat = 0
    /\ taken = {}
    /\ left = 0
    /\ reported = 0
    /\ worst = 0

Tick ==
    /\ now < MaxTime
    /\ now' = now + 1
    /\ UNCHANGED <<skew, senderVars, receiverVars, linkVars, ghostVars>>

-----------------------------------------------------------------------------
(* The sender.                                                             *)

\* DelayServoSender::tick: one packet when its time has come.
SenderTick ==
    /\ packets_sent < MaxSent
    /\ tx_next <= now
    /\ data' = Append(data, [seq |-> packets_sent, sent |-> now + skew])
    /\ packets_sent' = packets_sent + 1
    /\ tx_next' = now + AveragingExtent \div current_rate
    /\ UNCHANGED <<now, skew, current_rate, receiverVars, socket, feedbacks, ghostVars>>

\* Bug: the rate is not kept above MINIMUM_TX_RATE.
RateForUnbounded(f) == IF f.latency >= LatencyLimit THEN BackoffRate ELSE 2 * f.rate

\* The rate a feedback asks for.
RateFor(f) ==
    IF f.latency >= LatencyLimit THEN BackoffRate ELSE Larger(2 * f.rate, MinimumTxRate)

\* DelayServoSender::recv.  Feedback carries no number: the sender acts on
\* whatever comes, in the order it comes.
SenderRecv(f) ==
    /\ f \in feedbacks
    /\ feedbacks' = feedbacks \ {f}
    /\ current_rate' = RateFor(f)
    /\ UNCHANGED <<now, skew, packets_sent, tx_next, receiverVars, data, socket, ghostVars>>

-----------------------------------------------------------------------------
(* The receiver.                                                           *)

\* The reorder window of the history in packets, from the rate estimate.
Window(rate) == (rate * ReorderWindow + AveragingExtent - 1) \div AveragingExtent

\* Bug: the receiver does not note when it read the packet.
ReceiverRecvUnnoted ==
    /\ socket # <<>>
    /\ LET p == [sent |-> Head(socket).sent, recv |-> Head(socket).recv]
       IN  /\ AddPacket(p, now)
           /\ PacketReceived(Head(socket).seq, Window(Rate(history')))
           /\ taken' = taken \union {<<Head(socket).seq, p.recv>>}
           /\ worst' = Larger(worst, p.recv + skew - p.sent)
    /\ socket' = Tail(socket)
    /\ left' = Len(socket')
    /\ UNCHANGED <<fb_next, last_stat, reported>>

\* DelayServoReceiver::recv on the packet that has waited longest.
ReceiverRecv ==
    /\ socket # <<>>
    /\ LET p == [sent |-> Head(socket).sent, recv |-> Head(socket).recv]
       IN  /\ AddPacket(p, now)
           /\ PacketReceived(Head(socket).seq, Window(Rate(history')))
           /\ taken' = taken \union {<<Head(socket).seq, p.recv>>}
           /\ worst' = Larger(worst, p.recv + skew - p.sent)
    /\ socket' = Tail(socket)
    /\ left' = Len(socket')
    /\ last_stat' = now
    /\ UNCHANGED <<fb_next, reported>>

\* The poll of a pass: the oldest packet of the socket is handled.  Or nothing
\* is: the socket is empty and the timer or the other socket ends the poll, or a
\* datagram of another run is read first and dropped by its id.
ReceiverPoll ==
    /\ pass = "poll"
    /\ pass' = "tick"
    /\ \/ ReceiverRecv
       \/ UNCHANGED <<histVars, history, fb_next, last_stat, socket, ghostVars>>
    /\ UNCHANGED <<now, skew, senderVars, data, feedbacks>>

\* Bug: the purge does not start a new period of silence.
PurgeIfSilentUnnoted ==
    IF now > last_stat + SilenceLimit
    THEN ActivePurge(max_rx_seq_no + PurgeStep) /\ UNCHANGED last_stat
    ELSE UNCHANGED <<histVars, last_stat>>

\* The first half of DelayServoReceiver::tick.
PurgeIfSilent ==
    IF now > last_stat + SilenceLimit
    THEN ActivePurge(max_rx_seq_no + PurgeStep) /\ last_stat' = now
    ELSE UNCHANGED <<histVars, last_stat>>

\* The second half: every FeedbackPeriod a feedback with the rate and the
\* latency of the window; a receiver that fell behind makes up for it.  The
\* network drops what it has no room for.
FeedBack ==
    IF now > fb_next
    THEN /\ history' = Housekeep(history, now)
         /\ LET f == [rate |-> Rate(history'), latency |-> Latency(history')]
            IN  feedbacks' = IF Cardinality(feedbacks) < MaxFeedback THEN feedbacks \union {f}
                                                                     ELSE feedbacks
         /\ fb_next' = fb_next + FeedbackPeriod
         /\ reported' = Len(history')
    ELSE UNCHANGED <<history, feedbacks, fb_next, reported>>

\* DelayServoReceiver::tick, before the poll of every pass.
ReceiverTick ==
    /\ pass = "tick"
    /\ pass' = "poll"
    /\ PurgeIfSilent
    /\ FeedBack
    /\ UNCHANGED <<now, skew, senderVars, data, socket, taken, left, worst>>

-----------------------------------------------------------------------------
(* The network: queues overflow, datagrams are lost on the way, and what   *)
(* arrives waits in the socket, with the time at which the kernel took it. *)

Arrive ==
    /\ data # <<>>
    /\ socket' = Append(socket, [seq |-> Head(data).seq, sent |-> Head(data).sent, recv |-> now])
    /\ data' = Tail(data)
    /\ UNCHANGED <<now, skew, senderVars, receiverVars, feedbacks, ghostVars>>

LoseData ==
    /\ data # <<>>
    /\ data' = Tail(data)
    /\ UNCHANGED <<now, skew, senderVars, receiverVars, socket, feedbacks, ghostVars>>

LoseFeedback(f) ==
    /\ f \in feedbacks
    /\ feedbacks' = feedbacks \ {f}
    /\ UNCHANGED <<now, skew, senderVars, receiverVars, data, socket, ghostVars>>

Next ==
    \/ Tick
    \/ SenderTick
    \/ \E f \in feedbacks : SenderRecv(f)
    \/ ReceiverTick
    \/ ReceiverPoll
    \/ Arrive
    \/ LoseData
    \/ \E f \in feedbacks : LoseFeedback(f)

Spec == Init /\ [][Next]_vars
-----------------------------------------------------------------------------
TypeOK ==
    /\ now \in 0 .. MaxTime
    /\ skew \in -MaxSkew .. MaxSkew
    /\ packets_sent \in 0 .. MaxSent
    /\ current_rate \in {BackoffRate} \union
                           MinimumTxRate .. Larger(MinimumTxRate, 2 * Larger(MaxSent, EmptyRate))
    /\ \A i \in 1 .. Len(data) :
           data[i] \in [seq : 0 .. MaxSent - 1, sent : skew .. now + skew]
    /\ \A i \in 1 .. Len(socket) :
           socket[i] \in [seq : 0 .. MaxSent - 1, sent : skew .. now + skew, recv : 0 .. now]
    /\ feedbacks \subseteq [rate : 1 .. Larger(MaxSent, EmptyRate),
                           latency : NoLatency .. MaxTime + MaxSkew]
    /\ Cardinality(feedbacks) <= MaxFeedback
    /\ pass \in {"tick", "poll"}
    /\ {fb_next, last_stat, left, worst, reported} \subseteq Nat

\* The packets that have arrived and that the receiver has not read.
Unread == {<<socket[i].seq, socket[i].recv>> : i \in 1 .. Len(socket)}

\* The reports of the receiver are those of an exact sliding window of what it
\* has read, by the time the kernel took each packet: only packets that still
\* wait in the socket, the last ones to arrive, are missing from a report.
RateWindow == INSTANCE SlidingWindow WITH
    Extent <- AveragingExtent, Numbers <- 0 .. MaxSent - 1,
    clock <- now, waiting <- Unread, taken <- taken, reported <- reported

ReportsWindow == RateWindow!Spec

\* Losses the receiver makes up: active purges push the highest number received
\* beyond the packets sent by at most PurgeStep for each SilenceLimit of time.
PurgeBudget ==
    max_rx_seq_no <= packets_sent + PurgeStep * (now \div (SilenceLimit + 1))

\* The state is bounded, the numbers the receiver makes up included.
StateBounded == TypeOK /\ PurgeBudget

\* What the receiver had read, or left in its socket, when it last read a packet.
Known == taken \union {<<socket[i].seq, socket[i].recv>> : i \in 1 .. left}

\* A purge comes only after a long silence: when the highest number received moves
\* on and nothing is read, every packet read so far, and every one that waited
\* behind the last of them, came more than SilenceLimit ago.  Of packets that came
\* after the last read nothing is said: the tick of a pass comes before its poll,
\* so they may just have come, wait in the socket and be passed.
PurgeOnlyInSilence ==
    [][max_rx_seq_no' # max_rx_seq_no /\ taken' = taken
        => \A a \in Known : now - a[2] > SilenceLimit]_vars

\* The sender goes back to BACKOFF_RATE only when some packet was on its way for
\* LatencyLimit, less what the clock of the sender is behind, plus what it is
\* ahead: the clocks alone can bring a back-off that much too early or late.
BackoffJustified ==
    [][current_rate' = BackoffRate /\ current_rate # BackoffRate
        => worst >= LatencyLimit + skew]_vars
=============================================================================
