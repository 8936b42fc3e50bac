------------------------------ MODULE History ------------------------------
(***************************************************************************)
(* The receiver-side packet history of the two-way saturator: class        *)
(* History of DataCollection/controlled-delay/history.{hh,cc}.  It keeps   *)
(* the sequence numbers received out of order and from them the number of  *)
(* packets lost and outstanding, for the log line of every arrival.        *)
(*                                                                         *)
(* `received' is a std::list whose order is never looked at and from which *)
(* the number that has just arrived is removed before it is pushed, so it  *)
(* is a set here.  Sequence numbers stay below 2^31, where the casts to    *)
(* int of the unsigned differences are exact.                              *)
(*                                                                         *)
(* An operator marked "Bug" is a mistake the code does not make; the runs  *)
(* show that a property notices it.                                        *)
(***************************************************************************)
EXTENDS Integers, FiniteSets

VARIABLES
    received,            \* _received: arrived ahead of next_exp_seq_no
    num_outstanding_rx,  \* _num_outstanding_rx
    num_lost,            \* _num_lost
    next_exp_seq_no,     \* _next_exp_seq_no
    max_rx_seq_no        \* _max_rx_seq_no

histVars == <<received, num_outstanding_rx, num_lost, next_exp_seq_no, max_rx_seq_no>>

HistInit ==
    /\ received = {}
    /\ num_outstanding_rx = 0
    /\ num_lost = 0
    /\ next_exp_seq_no = 0
    /\ max_rx_seq_no = 0

Larger(a, b) == IF a >= b THEN a ELSE b

\* Bug: the clamp is missing.
MonusUnclamped(a, b) == a - b

\* std::max(0, (int)(a - b)): an unsigned difference clamped at zero.
Monus(a, b) == IF a >= b THEN a - b ELSE 0

\* (int)(seq - current_rate * 20ms), clamped at zero.  The conversion
\* truncates towards zero, so a rate of r packets per second makes the
\* reorder window w the ceiling of r/50: never less than one packet.
PurgeSeq(seq, w) == Monus(seq, w)

\* Bug: only purge_seq itself is removed.
PurgedEqual(S, purge_seq) == {x \in S : x = purge_seq}

\* What remove_if takes out of the buffer: what is on or before purge_seq.
Purged(S, purge_seq) == {x \in S : x <= purge_seq}

\* Bug: what was received out of order is not taken off.
LostIgnoringReceived(purge_seq, expected, purged) == Monus(purge_seq, expected)

\* Bug: one number too few is expected by every purge.
LostExpectingFewer(purge_seq, expected, purged) ==
    Monus(Monus(purge_seq, expected + 1), Cardinality(purged))

\* pkts_to_be_received less pkts_rx_before_purge_seq.
Lost(purge_seq, expected, purged) ==
    Monus(Monus(purge_seq, expected), Cardinality(purged))

\* Bug: what was received out of order is not taken off.
OutstandingIgnoringReceived(top, next, S) == Monus(top, next)

\* The numbers up to the highest received that are not accounted for.
Outstanding(top, next, S) == Monus(top - next, Cardinality(S))

\* The tail both handlers share: purge, count the losses, move on to `next' and
\* recompute the number outstanding.  `buffered' and `expected' are _received
\* and _next_exp_seq_no before it, `top' is the new _max_rx_seq_no.
Purge(buffered, expected, purge_seq, next, top) ==
    /\ received' = buffered \ Purged(buffered, purge_seq)
    /\ num_lost' = num_lost + Lost(purge_seq, expected, Purged(buffered, purge_seq))
    /\ next_exp_seq_no' = next
    /\ max_rx_seq_no' = top
    /\ num_outstanding_rx' = Outstanding(top, next, received')

\* Bug: what is below the highest number received is taken for late.
BufferedInOrder(seq) ==
    IF seq > max_rx_seq_no THEN received \union {seq} ELSE received \ {seq}

\* Bug: the number that has arrived is not removed first.
BufferedTwice(seq) == IF seq > next_exp_seq_no THEN received \union {seq} ELSE received

\* The buffer once seq has been removed and, when it is ahead, pushed.
Buffered(seq) == IF seq > next_exp_seq_no THEN received \union {seq} ELSE received \ {seq}

\* Bug: the maximum is not taken.
NextAfterPurgeOnly(expected, purge_seq) == purge_seq

\* _next_exp_seq_no after a purge.
NextAfter(expected, purge_seq) == Larger(expected, purge_seq)

\* History::packet_received for sequence number seq and reorder window w.
PacketReceived(seq, w) ==
    LET expected == IF seq = next_exp_seq_no THEN next_exp_seq_no + 1 ELSE next_exp_seq_no
    IN  Purge(Buffered(seq), expected, PurgeSeq(seq, w),
              NextAfter(expected, PurgeSeq(seq, w)), Larger(max_rx_seq_no, seq))

\* History::active_purge; its guard is the assertion on its argument.
ActivePurge(purge_seq) ==
    /\ purge_seq > max_rx_seq_no
    /\ Purge(received, next_exp_seq_no, purge_seq, purge_seq, purge_seq)
=============================================================================
