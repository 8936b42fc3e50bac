--------------------------- MODULE LossAccounting ---------------------------
(***************************************************************************)
(* The History of the receiver against the packets its peer really sent.   *)
(* The sender numbers packets 0, 1, 2, ... (DelayServoSender::tick); the   *)
(* network loses and delays them, and depending on its kind reorders and   *)
(* duplicates them; after a silence DelayServoReceiver::tick purges ten    *)
(* numbers ahead of the highest one received.  The history variables       *)
(* `arrived', `timedOut' and `skipped' remember what happened, for the     *)
(* properties.                                                             *)
(***************************************************************************)
EXTENDS History

CONSTANTS
    MaxSent,      \* bound: packets the sender sends
    MaxSeq,       \* bound: no active purge beyond this number
    Windows,      \* reorder windows, in packets, the rate estimates give
    PurgeStep,    \* how far an active purge reaches (10 in the code)
    Networks      \* the kinds of network: what it does to packets but lose them

ASSUME MaxSentAssumption     == MaxSent \in Nat
ASSUME MaxSeqAssumption      == MaxSeq \in Nat
ASSUME WindowsAssumption     == Windows \subseteq Nat \ {0}
ASSUME PurgeStepAssumption   == PurgeStep \in Nat \ {0}
ASSUME NetworksAssumption    == Networks \subseteq {"fifo", "reordering", "duplicating"}

VARIABLES
    network,       \* the kind of network there is
    packets_sent,  \* _packets_sent of the peer's DelayServoSender
    arrived,       \* history: the numbers that have arrived at least once
    timedOut,      \* history: the numbers some purge passed before they arrived
    skipped        \* history: the numbers next_exp_seq_no passed before they arrived

vars == <<histVars, network, packets_sent, arrived, timedOut, skipped>>

Init ==
    /\ HistInit
    /\ network \in Networks
    /\ packets_sent = 0
    /\ arrived = {}
    /\ timedOut = {}
    /\ skipped = {}

\* DelayServoSender::tick puts the next number on the wire.
Send ==
    /\ packets_sent < MaxSent
    /\ packets_sent' = packets_sent + 1
    /\ UNCHANGED <<histVars, network, arrived, timedOut, skipped>>

\* The packets the network may deliver next.
Deliverable ==
    {seq \in 0 .. packets_sent - 1 :
        /\ network # "duplicating" => seq \notin arrived
        /\ network = "fifo" => \A x \in arrived : x < seq}

\* DelayServoReceiver::recv hands a data packet to the history.
Receive(seq, w) ==
    /\ seq \in Deliverable
    /\ PacketReceived(seq, w)
    /\ arrived' = arrived \union {seq}
    /\ timedOut' = timedOut \union ((0 .. PurgeSeq(seq, w)) \ arrived')
    /\ skipped' = skipped \union ((0 .. next_exp_seq_no' - 1) \ arrived')
    /\ UNCHANGED <<network, packets_sent>>

\* DelayServoReceiver::tick after two seconds without a packet.
PurgeOnSilence ==
    LET purge_seq == max_rx_seq_no + PurgeStep
    IN  /\ purge_seq <= MaxSeq
        /\ ActivePurge(purge_seq)
        /\ timedOut' = timedOut \union ((0 .. purge_seq) \ arrived)
        /\ skipped' = skipped \union ((0 .. next_exp_seq_no' - 1) \ arrived)
        /\ UNCHANGED <<network, packets_sent, arrived>>

Next ==
    \/ Send
    \/ \E seq \in 0 .. MaxSent - 1, w \in Windows : Receive(seq, w)
    \/ PurgeOnSilence

Spec == Init /\ [][Next]_vars
-----------------------------------------------------------------------------
TypeOK ==
    /\ received \subseteq Nat
    /\ IsFiniteSet(received)
    /\ num_outstanding_rx \in Nat
    /\ num_lost \in Nat
    /\ next_exp_seq_no \in Nat
    /\ max_rx_seq_no \in Nat
    /\ network \in Networks
    /\ packets_sent \in 0 .. MaxSent
    /\ arrived \subseteq 0 .. packets_sent - 1
    /\ timedOut \subseteq Nat /\ skipped \subseteq Nat
    /\ IsFiniteSet(timedOut) /\ IsFiniteSet(skipped)

\* The buffer lies between the next number expected and the highest number
\* received, whatever order packets and purges come in.  It is what makes the
\* assertion new_size==0 of active_purge (history.cc:71) hold.
ReceivedWindow ==
    /\ received \subseteq next_exp_seq_no .. max_rx_seq_no
    /\ next_exp_seq_no <= max_rx_seq_no + 1

\* No arrival is forgotten: every number beyond the next one expected that has
\* ever arrived is still in the buffer, and the buffer holds only arrivals.
NothingForgotten ==
    /\ received \subseteq arrived
    /\ \A x \in arrived : x > next_exp_seq_no => x \in received

\* num_outstanding_rx is the number of holes up to the highest number received,
\* short by at most one: the next number expected is a hole it leaves out.
OutstandingAccuracy ==
    Cardinality((next_exp_seq_no .. max_rx_seq_no) \ arrived) - num_outstanding_rx \in {0, 1}

\* Every packet counted as lost was passed by some purge before it arrived: no
\* order of arrivals, duplicates and purges makes the count exceed those.
LossNotOvercounted == num_lost <= Cardinality(timedOut)

\* The packets below the next one expected that never came are all counted, but
\* for at most one: the purge counts purge_seq among those received and not
\* among those expected.  Only for a network that does not duplicate.
LossNotUndercounted ==
    network # "duplicating" =>
        Cardinality((0 .. next_exp_seq_no - 1) \ arrived) <= num_lost + 1

\* Over a network that keeps packets in order num_lost is the number of packets
\* that were given up before they came, short by at most one.  (Each purge also
\* passes the number it goes on to expect, which may still come in time.)
LossAccuracy == network = "fifo" => Cardinality(skipped) - num_lost \in {0, 1}

\* The losses counted are right over every kind of network: never more than the
\* purges passed, and as close to that as the network lets the receiver know.
LossCounts == LossNotOvercounted /\ LossNotUndercounted /\ LossAccuracy

\* A step never takes a count back: an arrival far behind, or a purge computed
\* from a smaller rate, moves neither the numbers passed nor the losses back.
NeverBackwards ==
    [][ /\ next_exp_seq_no' >= next_exp_seq_no
        /\ max_rx_seq_no' >= max_rx_seq_no
        /\ num_lost' >= num_lost ]_vars
=============================================================================
