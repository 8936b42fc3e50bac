------------------------ MODULE LossAccountingProofs ------------------------
(***************************************************************************)
(* Proofs about LossAccounting for every number of packets, every set of   *)
(* reorder windows, every purge step and every network.  IInv is the       *)
(* inductive invariant: the types, the position of the buffer between the  *)
(* next number expected and the highest one received, the fact that no     *)
(* arrival beyond the next number expected is missing from the buffer, and *)
(* what num_outstanding_rx was computed from.  Losses is the one for the   *)
(* number of losses, on top of it.                                         *)
(***************************************************************************)
EXTENDS LossAccounting, FiniteSetTheorems, TLAPS

\* num_outstanding_rx is up to date with the fields it is computed from.
OutstandingCurrent ==
    num_outstanding_rx = Outstanding(max_rx_seq_no, next_exp_seq_no, received)

IInv ==
    /\ TypeOK
    /\ ReceivedWindow
    /\ NothingForgotten
    /\ OutstandingCurrent

-----------------------------------------------------------------------------
(* The operators of History.                                               *)

\* A clamped difference is a natural number.
LEMMA MonusNat ==
    ASSUME NEW a \in Int, NEW b \in Int
    PROVE  Monus(a, b) \in Nat
  BY DEF Monus

\* A purge number is a natural number no larger than the number that arrived.
LEMMA PurgeSeqBound ==
    ASSUME NEW seq \in Nat, NEW w \in Nat
    PROVE  PurgeSeq(seq, w) \in 0 .. seq
  BY DEF PurgeSeq, Monus

\* What a purge counts is a natural number.
LEMMA LostNat ==
    ASSUME NEW purge_seq \in Nat, NEW expected \in Nat, NEW S, IsFiniteSet(S)
    PROVE  Lost(purge_seq, expected, S) \in Nat
  <1>1. Cardinality(S) \in Nat
    BY FS_CardinalityType
  <1>2. Monus(purge_seq, expected) \in Nat
    BY MonusNat
  <1>3. Monus(Monus(purge_seq, expected), Cardinality(S)) \in Nat
    BY <1>1, <1>2, MonusNat
  <1> QED
    BY <1>3 DEF Lost

LEMMA OutstandingNat ==
    ASSUME NEW top \in Int, NEW next \in Int, NEW S, IsFiniteSet(S)
    PROVE  Outstanding(top, next, S) \in Nat
  <1>1. Cardinality(S) \in Nat
    BY FS_CardinalityType
  <1> DEFINE held == Cardinality(S)
  <1>2. held \in Int /\ top - next \in Int
    BY <1>1
  <1> HIDE DEF held
  <1>3. Monus(top - next, held) \in Nat
    BY <1>2, MonusNat
  <1> QED
    BY <1>3 DEF Outstanding, held

\* The numbers up to n that are not in A, added to a finite set of numbers.
LEMMA FiniteGrowth ==
    ASSUME NEW n \in Int, NEW T, T \subseteq Nat, IsFiniteSet(T), NEW A
    PROVE  T \union ((0 .. n) \ A) \subseteq Nat /\ IsFiniteSet(T \union ((0 .. n) \ A))
  <1>1. IsFiniteSet(0 .. n)
    BY FS_Interval
  <1>2. IsFiniteSet((0 .. n) \ A)
    BY <1>1, FS_Difference
  <1>3. IsFiniteSet(T \union ((0 .. n) \ A))
    BY <1>2, FS_Union
  <1>4. T \union ((0 .. n) \ A) \subseteq Nat
    <2>1. ASSUME NEW x \in T \union ((0 .. n) \ A)
          PROVE  x \in Nat
      <3>1. CASE x \in T
        BY <3>1
      <3>2. CASE x \in 0 .. n
        BY <3>2
      <3> QED
        BY <2>1, <3>1, <3>2, Zenon
    <2> QED
      BY <2>1, Zenon
  <1> QED
    BY <1>3, <1>4, Zenon

\* The shared tail of the two handlers, from a buffer that lies between the
\* number expected and top: it leaves a buffer that lies between the new next
\* number and top, and takes nothing out of it that is beyond the next number.
LEMMA PurgeTail ==
    ASSUME TypeOK,
           NEW buffered, buffered \subseteq Nat, IsFiniteSet(buffered),
           NEW expected \in Nat, NEW purge_seq \in Nat, NEW next \in Nat, NEW top \in Nat,
           buffered \subseteq expected .. top,
           next = Larger(expected, purge_seq),
           next <= top + 1,
           Purge(buffered, expected, purge_seq, next, top)
    PROVE  /\ received' \subseteq Nat /\ IsFiniteSet(received')
           /\ num_lost' \in Nat /\ num_lost' >= num_lost
           /\ num_outstanding_rx' \in Nat
           /\ next_exp_seq_no' = next /\ max_rx_seq_no' = top
           /\ ReceivedWindow'
           /\ OutstandingCurrent'
           /\ received' \subseteq buffered
           /\ \A x \in buffered : x > next => x \in received'
  <1>1. received' = {x \in buffered : ~(x <= purge_seq)}
    BY DEF Purge, Purged
  <1>2. received' \subseteq buffered /\ IsFiniteSet(received')
    BY <1>1, FS_Subset
  <1>3. IsFiniteSet(Purged(buffered, purge_seq))
    BY FS_Subset DEF Purged
  <1>4. num_lost' \in Nat /\ num_lost' >= num_lost
    <2>1. Lost(purge_seq, expected, Purged(buffered, purge_seq)) \in Nat
      BY <1>3, LostNat
    <2>2. num_lost' = num_lost + Lost(purge_seq, expected, Purged(buffered, purge_seq))
      BY DEF Purge
    <2> QED
      BY <2>1, <2>2 DEF TypeOK
  <1>5. num_outstanding_rx' \in Nat
    BY <1>2, OutstandingNat DEF Purge
  <1>6. received' \subseteq next .. top
    <2>1. ASSUME NEW x \in received'
          PROVE  x \in next .. top
      <3>1. x \in buffered /\ ~(x <= purge_seq)
        BY <1>1, <2>1
      <3>2. x \in Nat /\ x >= expected /\ x <= top
        BY <3>1
      <3> QED
        BY <3>1, <3>2 DEF Larger
    <2> QED
      BY <2>1
  <1>7. \A x \in buffered : x > next => x \in received'
    BY <1>1 DEF Larger
  <1> QED
    BY <1>2, <1>4, <1>5, <1>6, <1>7 DEF Purge, ReceivedWindow, OutstandingCurrent

-----------------------------------------------------------------------------
(* The steps.                                                              *)

LEMMA InitIInv == Init => IInv
  <1> SUFFICES ASSUME Init PROVE IInv
    OBVIOUS
  <1>1. IsFiniteSet({}) /\ Cardinality({}) = 0
    BY FS_EmptySet
  <1>2. TypeOK
    BY <1>1, MaxSentAssumption DEF Init, HistInit, TypeOK
  <1>3. OutstandingCurrent
    BY <1>1 DEF Init, HistInit, OutstandingCurrent, Outstanding, Monus
  <1>4. ReceivedWindow /\ NothingForgotten
    BY DEF Init, HistInit, ReceivedWindow, NothingForgotten
  <1> QED
    BY <1>2, <1>3, <1>4 DEF IInv

LEMMA SendIInv ==
    ASSUME IInv, Send
    PROVE  IInv' /\ max_rx_seq_no' = max_rx_seq_no /\ next_exp_seq_no' = next_exp_seq_no
                 /\ num_lost' = num_lost
  <1>1. TypeOK'
    BY MaxSentAssumption DEF IInv, Send, TypeOK, histVars
  <1>2. ReceivedWindow' /\ NothingForgotten' /\ OutstandingCurrent'
    BY DEF IInv, Send, histVars, ReceivedWindow, NothingForgotten, OutstandingCurrent
  <1> QED
    BY <1>1, <1>2 DEF IInv, Send, histVars

LEMMA ReceiveIInv ==
    ASSUME IInv, NEW seq \in 0 .. MaxSent - 1, NEW w \in Windows, Receive(seq, w)
    PROVE  IInv' /\ max_rx_seq_no' >= max_rx_seq_no /\ next_exp_seq_no' >= next_exp_seq_no
                 /\ num_lost' >= num_lost
  <1> DEFINE expected  == IF seq = next_exp_seq_no THEN next_exp_seq_no + 1 ELSE next_exp_seq_no
             purge_seq == PurgeSeq(seq, w)
             next      == Larger(expected, purge_seq)
             top       == Larger(max_rx_seq_no, seq)
             buffered  == Buffered(seq)
  <1> USE DEF IInv
  <1>1. /\ seq \in Nat /\ w \in Nat
        /\ next_exp_seq_no \in Nat /\ max_rx_seq_no \in Nat
        /\ seq \in 0 .. packets_sent - 1
    BY MaxSentAssumption, WindowsAssumption DEF TypeOK, Receive, Deliverable
  <1>2. purge_seq \in 0 .. seq
    BY <1>1, PurgeSeqBound
  <1>3. expected \in Nat /\ top \in Nat /\ next \in Nat /\ purge_seq \in Nat
    BY <1>1, <1>2 DEF Larger
  <1>4. buffered \subseteq Nat /\ IsFiniteSet(buffered)
    BY <1>1, FS_AddElement, FS_RemoveElement DEF TypeOK, Buffered
  <1>5. buffered \subseteq expected .. top
    BY <1>1 DEF ReceivedWindow, Buffered, Larger, TypeOK
  <1>6. next <= top + 1
    BY <1>1, <1>2 DEF ReceivedWindow, Larger
  <1>7. Purge(buffered, expected, purge_seq, next, top)
    BY DEF Receive, PacketReceived, NextAfter
  <1> HIDE DEF expected, purge_seq, next, top, buffered
  <1>8. /\ received' \subseteq Nat /\ IsFiniteSet(received')
        /\ num_lost' \in Nat /\ num_lost' >= num_lost
        /\ num_outstanding_rx' \in Nat
        /\ next_exp_seq_no' = next /\ max_rx_seq_no' = top
        /\ ReceivedWindow'
        /\ OutstandingCurrent'
        /\ received' \subseteq buffered
        /\ \A x \in buffered : x > next => x \in received'
    BY <1>3, <1>4, <1>5, <1>6, <1>7, PurgeTail DEF next
  <1>9. /\ arrived' = arrived \union {seq} /\ packets_sent' = packets_sent
        /\ network' = network
    BY DEF Receive
  <1>10. timedOut' \subseteq Nat /\ IsFiniteSet(timedOut')
    <2>1. timedOut' = timedOut \union ((0 .. purge_seq) \ arrived')
      BY DEF Receive, purge_seq
    <2>2. purge_seq \in Int
      BY <1>3
    <2> QED
      BY <2>1, <2>2, FiniteGrowth DEF TypeOK
  <1>14. skipped' \subseteq Nat /\ IsFiniteSet(skipped')
    <2>1. skipped' = skipped \union ((0 .. next - 1) \ arrived') /\ next - 1 \in Int
      BY <1>3, <1>8 DEF Receive
    <2> QED
      BY <2>1, FiniteGrowth DEF TypeOK
  <1>11. TypeOK'
    BY <1>1, <1>3, <1>8, <1>9, <1>10, <1>14 DEF TypeOK
  <1>12. NothingForgotten'
    <2>1. received' \subseteq arrived'
      BY <1>8, <1>9 DEF buffered, Buffered, NothingForgotten
    <2>2. ASSUME NEW x \in arrived', x > next
          PROVE  x \in received'
      <3>1. x \in Nat /\ x > next_exp_seq_no
        <4>1. x \in Nat
          BY <1>1, <1>9, <2>2 DEF TypeOK
        <4>2. next >= next_exp_seq_no
          BY <1>1, <1>3 DEF next, expected, Larger
        <4> QED
          BY <4>1, <4>2, <1>1, <1>3, <2>2
      <3>2. x \in buffered
        BY <3>1, <1>1, <1>9, <2>2 DEF buffered, Buffered, NothingForgotten
      <3> QED
        BY <3>2, <2>2, <1>8
    <2> QED
      BY <2>1, <2>2, <1>8 DEF NothingForgotten
  <1>13. top >= max_rx_seq_no /\ next >= next_exp_seq_no
    BY <1>1, <1>2 DEF top, next, expected, Larger
  <1> QED
    BY <1>8, <1>11, <1>12, <1>13

LEMMA PurgeOnSilenceIInv ==
    ASSUME IInv, PurgeOnSilence
    PROVE  IInv' /\ max_rx_seq_no' >= max_rx_seq_no /\ next_exp_seq_no' >= next_exp_seq_no
                 /\ num_lost' >= num_lost
  <1> DEFINE purge_seq == max_rx_seq_no + PurgeStep
  <1> USE DEF IInv
  <1>1. /\ next_exp_seq_no \in Nat /\ max_rx_seq_no \in Nat
        /\ purge_seq \in Nat /\ purge_seq > max_rx_seq_no
    BY PurgeStepAssumption DEF TypeOK
  <1>2. purge_seq = Larger(next_exp_seq_no, purge_seq)
    BY <1>1 DEF ReceivedWindow, Larger
  <1>3. received \subseteq next_exp_seq_no .. purge_seq
    BY <1>1 DEF ReceivedWindow, TypeOK
  <1>4. Purge(received, next_exp_seq_no, purge_seq, purge_seq, purge_seq)
    BY DEF PurgeOnSilence, ActivePurge
  <1>5. timedOut' = timedOut \union ((0 .. purge_seq) \ arrived)
    BY DEF PurgeOnSilence
  <1> HIDE DEF purge_seq
  <1>6. /\ received' \subseteq Nat /\ IsFiniteSet(received')
        /\ num_lost' \in Nat /\ num_lost' >= num_lost
        /\ num_outstanding_rx' \in Nat
        /\ next_exp_seq_no' = purge_seq /\ max_rx_seq_no' = purge_seq
        /\ ReceivedWindow'
        /\ OutstandingCurrent'
        /\ received' \subseteq received
        /\ \A x \in received : x > purge_seq => x \in received'
    <2>1. purge_seq <= purge_seq + 1
      BY <1>1
    <2>2. received \subseteq Nat /\ IsFiniteSet(received)
      BY DEF TypeOK
    <2> QED
      BY <1>1, <1>2, <1>3, <1>4, <2>1, <2>2, PurgeTail
  <1>7. arrived' = arrived /\ packets_sent' = packets_sent /\ network' = network
    BY DEF PurgeOnSilence
  <1>8. timedOut' \subseteq Nat /\ IsFiniteSet(timedOut')
    <2>1. purge_seq \in Int
      BY <1>1
    <2> QED
      BY <1>5, <2>1, FiniteGrowth DEF TypeOK
  <1>12. skipped' \subseteq Nat /\ IsFiniteSet(skipped')
    <2>1. skipped' = skipped \union ((0 .. purge_seq - 1) \ arrived) /\ purge_seq - 1 \in Int
      BY <1>1, <1>6 DEF PurgeOnSilence
    <2> QED
      BY <2>1, FiniteGrowth DEF TypeOK
  <1>9. TypeOK'
    BY <1>1, <1>6, <1>7, <1>8, <1>12 DEF TypeOK
  <1>11. purge_seq >= next_exp_seq_no
    BY <1>1 DEF ReceivedWindow
  <1>10. NothingForgotten'
    <2>1. received' \subseteq arrived'
      BY <1>6, <1>7 DEF NothingForgotten
    <2>2. ASSUME NEW x \in arrived', x > purge_seq
          PROVE  x \in received'
      <3>1. x \in Nat /\ x > next_exp_seq_no
        <4>1. x \in Nat
          BY <1>7, <2>2 DEF TypeOK
        <4> QED
          BY <4>1, <1>1, <1>11, <2>2
      <3> QED
        BY <3>1, <1>6, <1>7, <2>2 DEF NothingForgotten
    <2> QED
      BY <2>1, <2>2, <1>6 DEF NothingForgotten
  <1> QED
    BY <1>1, <1>6, <1>9, <1>10, <1>11

LEMMA NextIInv ==
    ASSUME IInv, [Next]_vars
    PROVE  IInv' /\ max_rx_seq_no' >= max_rx_seq_no /\ next_exp_seq_no' >= next_exp_seq_no
                 /\ num_lost' >= num_lost
  <1>0. max_rx_seq_no \in Nat /\ next_exp_seq_no \in Nat /\ num_lost \in Nat
    BY DEF IInv, TypeOK
  <1>1. CASE Send
    BY <1>0, <1>1, SendIInv
  <1>2. CASE \E seq \in 0 .. MaxSent - 1, w \in Windows : Receive(seq, w)
    BY <1>2, ReceiveIInv
  <1>3. CASE PurgeOnSilence
    BY <1>3, PurgeOnSilenceIInv
  <1>4. CASE UNCHANGED vars
    <2>1. TypeOK' /\ ReceivedWindow' /\ NothingForgotten' /\ OutstandingCurrent'
      BY <1>4 DEF IInv, vars, histVars, TypeOK, ReceivedWindow, NothingForgotten,
                  OutstandingCurrent
    <2> QED
      BY <1>0, <1>4, <2>1 DEF IInv, vars, histVars
  <1> QED
    BY <1>1, <1>2, <1>3, <1>4 DEF Next

\* IInv is an invariant.
THEOREM Invariance == Spec => []IInv
  <1>1. IInv /\ [Next]_vars => IInv'
    BY NextIInv
  <1> QED
    BY InitIInv, <1>1, PTL DEF Spec

-----------------------------------------------------------------------------
(* What follows from it.                                                   *)

\* The counters are natural numbers, the buffer is finite, and what has
\* arrived was sent, whatever order packets and purges come in.
THEOREM TypeCorrect == Spec => []TypeOK
  <1>1. IInv => TypeOK
    BY DEF IInv
  <1> QED
    BY Invariance, <1>1, PTL

\* The buffer of out-of-order numbers lies between the next number expected
\* and the highest one received, so that the assertion on the size of the
\* buffer after an active purge (history.cc:71) never fails.
THEOREM WindowCorrect == Spec => []ReceivedWindow
  <1>1. IInv => ReceivedWindow
    BY DEF IInv
  <1> QED
    BY Invariance, <1>1, PTL

\* No arrival beyond the next number expected is missing from the buffer.
THEOREM NothingForgottenCorrect == Spec => []NothingForgotten
  <1>1. IInv => NothingForgotten
    BY DEF IInv
  <1> QED
    BY Invariance, <1>1, PTL

\* Neither an arrival far behind, nor a purge computed from a smaller rate,
\* takes the numbers passed or the losses counted back.
THEOREM NeverBackwardsCorrect == Spec => NeverBackwards
  <1>1. IInv /\ [Next]_vars => [ /\ next_exp_seq_no' >= next_exp_seq_no
                                /\ max_rx_seq_no' >= max_rx_seq_no
                                /\ num_lost' >= num_lost ]_vars
    BY NextIInv
  <1> QED
    BY Invariance, <1>1, PTL DEF Spec, NeverBackwards

\* The size of an interval that is not smaller than empty.
LEMMA IntervalSize ==
    ASSUME NEW a \in Nat, NEW b \in Nat, a <= b + 1
    PROVE  IsFiniteSet(a .. b) /\ Cardinality(a .. b) = b - a + 1
  BY FS_Interval

\* The buffer has every arrival from the next number expected on, but perhaps
\* for that number itself: so the holes are the numbers it does not have, with
\* or without that one.
LEMMA HolesOfBuffer ==
    ASSUME IInv
    PROVE  LET I == next_exp_seq_no .. max_rx_seq_no
               H == I \ arrived
           IN  \/ H = I \ received
               \/ /\ next_exp_seq_no \in I \ received
                  /\ H = (I \ received) \ {next_exp_seq_no}
  <1> DEFINE I == next_exp_seq_no .. max_rx_seq_no
  <1>1. next_exp_seq_no \in Nat /\ max_rx_seq_no \in Nat
    BY DEF IInv, TypeOK
  <1>2. \A x \in I : x = next_exp_seq_no \/ x > next_exp_seq_no
    BY <1>1
  <1>3. received \subseteq arrived /\ \A x \in arrived : x > next_exp_seq_no => x \in received
    BY DEF IInv, NothingForgotten
  <1>4. \A x \in I : x # next_exp_seq_no => (x \in arrived <=> x \in received)
    BY <1>2, <1>3
  <1> HIDE DEF I
  <1>5. CASE next_exp_seq_no \in I /\ next_exp_seq_no \in arrived /\ next_exp_seq_no \notin received
    <2>1. I \ arrived = (I \ received) \ {next_exp_seq_no}
      BY <1>4, <1>5
    <2> QED
      BY <1>5, <2>1 DEF I
  <1>6. CASE ~(next_exp_seq_no \in I /\ next_exp_seq_no \in arrived /\ next_exp_seq_no \notin received)
    <2>1. I \ arrived = I \ received
      BY <1>3, <1>4, <1>6
    <2> QED
      BY <2>1 DEF I
  <1> QED
    BY <1>5, <1>6

\* num_outstanding_rx is the number of holes up to the highest number received
\* or one less.
LEMMA OutstandingFromIInv == IInv => OutstandingAccuracy
  <1> SUFFICES ASSUME IInv PROVE OutstandingAccuracy
    OBVIOUS
  <1> DEFINE I == next_exp_seq_no .. max_rx_seq_no
             held == Cardinality(received)
             free == Cardinality(I \ received)
             holes == Cardinality(I \ arrived)
  <1>1. /\ next_exp_seq_no \in Nat /\ max_rx_seq_no \in Nat
        /\ IsFiniteSet(received) /\ received \subseteq I
        /\ next_exp_seq_no <= max_rx_seq_no + 1
    BY DEF IInv, TypeOK, ReceivedWindow
  <1>2. IsFiniteSet(I) /\ Cardinality(I) = max_rx_seq_no - next_exp_seq_no + 1
    BY <1>1, IntervalSize
  <1>3. IsFiniteSet(I \ received) /\ free = Cardinality(I) - Cardinality(I \cap received)
    BY <1>2, FS_Difference
  <1>4. I \cap received = received
    BY <1>1
  <1>5. free = max_rx_seq_no - next_exp_seq_no + 1 - held
    <2>1. Cardinality(I \cap received) = held
      BY <1>4
    <2>2. free = Cardinality(I) - held
      BY <1>3, <2>1
    <2>3. held \in Nat
      BY <1>1, FS_CardinalityType
    <2> HIDE DEF free, held
    <2> QED
      BY <1>1, <1>2, <2>2, <2>3
  <1>6. held \in Nat /\ free \in Nat
    BY <1>1, <1>3, FS_CardinalityType
  <1>7. num_outstanding_rx = IF max_rx_seq_no - next_exp_seq_no >= held
                             THEN max_rx_seq_no - next_exp_seq_no - held ELSE 0
    BY DEF IInv, OutstandingCurrent, Outstanding, Monus
  <1>8. holes = free \/ (free > 0 /\ holes = free - 1)
    <2>1. CASE I \ arrived = I \ received
      BY <2>1
    <2>2. CASE next_exp_seq_no \in I \ received /\ I \ arrived = (I \ received) \ {next_exp_seq_no}
      <3>1. holes = free - 1
        BY <1>3, <2>2, FS_RemoveElement
      <3>2. holes \in Nat
        BY <1>3, <2>2, FS_RemoveElement, FS_CardinalityType
      <3> HIDE DEF holes, free
      <3> QED
        BY <3>1, <3>2, <1>6
    <2> QED
      BY <2>1, <2>2, HolesOfBuffer
  <1> HIDE DEF holes, free, held
  <1>9. holes - num_outstanding_rx \in {0, 1}
    BY <1>1, <1>5, <1>6, <1>7, <1>8
  <1> QED
    BY <1>9 DEF OutstandingAccuracy, holes

\* The number outstanding that every log line reports is right, to within the
\* one hole it leaves out by construction, for every network and every rate.
THEOREM OutstandingCorrect == Spec => []OutstandingAccuracy
  BY Invariance, OutstandingFromIInv, PTL

-----------------------------------------------------------------------------
(* The losses.  A purge up to purge_seq expects the numbers from the next  *)
(* one up to purge_seq less one and takes off those it finds in the buffer *)
(* up to purge_seq: so it counts one too few if purge_seq has arrived, and *)
(* one too many if the next number expected has, because of the last purge. *)

\* The next number expected has arrived before it was expected.
Pending == next_exp_seq_no \in arrived \ received

Losses ==
    /\ timedOut \subseteq 0 .. next_exp_seq_no
    /\ num_lost <= Cardinality(timedOut)
    /\ skipped \subseteq 0 .. next_exp_seq_no - 1
    /\ (0 .. next_exp_seq_no - 1) \ arrived \subseteq skipped
    /\ network # "duplicating" =>
         Cardinality(skipped) <= IF Pending THEN num_lost + 1 ELSE num_lost
    /\ network = "fifo" =>
         /\ next_exp_seq_no \notin received
         /\ Cardinality(skipped) = IF Pending THEN num_lost + 1 ELSE num_lost

\* S with x if that is in B, and what that adds to its size.
With(S, x, B) == IF x \in B THEN S \union {x} ELSE S

One(x, B) == IF x \in B THEN 1 ELSE 0

LEMMA WithOne ==
    ASSUME NEW S, IsFiniteSet(S), NEW x, x \notin S, NEW B
    PROVE  /\ IsFiniteSet(With(S, x, B))
           /\ Cardinality(With(S, x, B)) = Cardinality(S) + One(x, B)
  <1>1. CASE x \in B
    BY <1>1, FS_AddElement DEF With, One
  <1>2. CASE x \notin B
    <2>1. Cardinality(S) \in Nat
      BY FS_CardinalityType
    <2>2. Cardinality(S) + 0 = Cardinality(S)
      BY <2>1
    <2> QED
      BY <1>2, <2>2 DEF With, One
  <1> QED
    BY <1>1, <1>2

\* The numbers between n and p, in and not in the buffer, and what is purged.
LEMMA PurgedCount ==
    ASSUME NEW n \in Nat, NEW p \in Nat, n < p,
           NEW B, IsFiniteSet(B), B \subseteq Nat, \A x \in B : x >= n
    PROVE  LET inner == n + 1 .. p - 1
               q == Cardinality(inner \cap B)
           IN  /\ q \in Nat /\ IsFiniteSet(inner \ B)
               /\ Cardinality(inner \ B) = p - n - 1 - q
               /\ Cardinality(inner \ B) \in Nat
               /\ Cardinality(Purged(B, p)) = q + One(n, B) + One(p, B)
  <1> DEFINE inner == n + 1 .. p - 1
             both == inner \cap B
             q == Cardinality(both)
             g == Cardinality(inner \ B)
  <1>1. IsFiniteSet(inner) /\ Cardinality(inner) = p - 1 - (n + 1) + 1
    <2>1. n + 1 \in Nat /\ p - 1 \in Nat /\ n + 1 <= (p - 1) + 1
      OBVIOUS
    <2> QED
      BY <2>1, IntervalSize
  <1>2. Purged(B, p) = With(With(both, n, B), p, B)
    <2>1. \A x \in B : x <= p <=> x = n \/ x \in inner \/ x = p
      OBVIOUS
    <2> HIDE DEF inner
    <2> QED
      BY <2>1 DEF Purged, With
  <1>3. n \notin inner /\ p \notin inner /\ n # p
    OBVIOUS
  <1> HIDE DEF inner
  <1>4. IsFiniteSet(both)
    BY <1>1, FS_Subset
  <1>5. q \in Nat /\ IsFiniteSet(inner \ B) /\ g \in Nat /\ g = Cardinality(inner) - q
    BY <1>1, <1>4, FS_Difference, FS_CardinalityType
  <1>6. n \notin both /\ p \notin With(both, n, B)
    BY <1>3 DEF With
  <1>7. /\ IsFiniteSet(With(both, n, B))
        /\ Cardinality(With(both, n, B)) = q + One(n, B)
    BY <1>4, <1>6, WithOne
  <1>8. Cardinality(Purged(B, p)) = q + One(n, B) + One(p, B)
    BY <1>2, <1>6, <1>7, WithOne
  <1> HIDE DEF q, g
  <1>9. g = p - n - 1 - q
    BY <1>1, <1>5
  <1> QED
    BY <1>5, <1>8, <1>9 DEF q, g, both, inner

\* A handler whose purge goes no further than the next number expected counts
\* nothing, and passes at most the number that has just arrived in order.
LEMMA NothingPassed ==
    ASSUME IInv, Losses,
           NEW B, IsFiniteSet(B), B \subseteq arrived', arrived \subseteq arrived',
           NEW e \in Nat, NEW p \in Nat, NEW top \in Nat, p <= e,
           Purge(B, e, p, e, top),
           timedOut' = timedOut \union ((0 .. p) \ arrived'),
           skipped' = skipped \union ((0 .. e - 1) \ arrived'),
           network' = network,
           \/ /\ e = next_exp_seq_no
              /\ next_exp_seq_no \in arrived' => next_exp_seq_no \in arrived
              /\ next_exp_seq_no \in B => next_exp_seq_no \in received
           \/ /\ e = next_exp_seq_no + 1
              /\ next_exp_seq_no \in arrived'
              /\ network # "duplicating" => next_exp_seq_no \notin arrived
              /\ network = "fifo" => e \notin arrived'
    PROVE  Losses'
  <1> DEFINE n == next_exp_seq_no
             t == Cardinality(timedOut)
             u == Cardinality(timedOut')
             k == Cardinality(skipped)
  <1>1. /\ n \in Nat /\ num_lost \in Nat /\ IsFiniteSet(timedOut) /\ IsFiniteSet(skipped)
        /\ timedOut \subseteq 0 .. n /\ skipped \subseteq 0 .. n - 1
        /\ (0 .. n - 1) \ arrived \subseteq skipped
        /\ num_lost <= t
        /\ network # "duplicating" => k <= IF Pending THEN num_lost + 1 ELSE num_lost
        /\ network = "fifo" => n \notin received /\ k = IF Pending THEN num_lost + 1 ELSE num_lost
    BY DEF IInv, TypeOK, Losses
  <1>2. num_lost' = num_lost
    <2>1. Cardinality(Purged(B, p)) \in Nat
      BY FS_Subset, FS_CardinalityType DEF Purged
    <2>2. Monus(p, e) = 0
      BY DEF Monus
    <2>3. Lost(p, e, Purged(B, p)) = 0
      <3> DEFINE c == Cardinality(Purged(B, p))
      <3>1. c \in Nat
        BY <2>1
      <3> HIDE DEF c
      <3>2. Monus(0, c) = 0
        BY <3>1 DEF Monus
      <3> QED
        BY <2>2, <3>2 DEF Lost, c
    <2> QED
      BY <1>1, <2>3 DEF Purge
  <1>3. next_exp_seq_no' = e /\ received' \subseteq B
    BY DEF Purge
  <1>4. timedOut' \subseteq 0 .. e /\ num_lost <= u
    <2>1. timedOut' \subseteq 0 .. e
      <3>1. 0 .. n \subseteq 0 .. e /\ 0 .. p \subseteq 0 .. e
        BY <1>1
      <3> QED
        BY <1>1, <3>1
    <2>2. IsFiniteSet(timedOut')
      <3>1. IsFiniteSet(0 .. e)
        BY FS_Interval
      <3> QED
        BY <2>1, <3>1, FS_Subset
    <2>3. t <= u /\ u \in Nat /\ t \in Nat
      BY <1>1, <2>2, FS_Subset, FS_CardinalityType
    <2> HIDE DEF t, u
    <2> QED
      BY <1>1, <2>1, <2>3
  <1>5. skipped' = skipped /\ skipped \subseteq 0 .. e - 1 /\ (0 .. e - 1) \ arrived' \subseteq skipped
    <2>1. ASSUME NEW x \in (0 .. e - 1) \ arrived' PROVE x \in skipped
      <3>1. x \in 0 .. n - 1 /\ x \notin arrived
        BY <1>1
      <3> QED
        BY <1>1, <3>1
    <2>2. 0 .. n - 1 \subseteq 0 .. e - 1
      BY <1>1
    <2> QED
      BY <1>1, <2>1, <2>2
  <1>6. k \in Nat
    BY <1>1, FS_CardinalityType
  <1>7. Pending' <=> e \in arrived' /\ e \notin received'
    BY <1>3 DEF Pending
  <1>8. network # "duplicating" /\ Pending => Pending'
    BY <1>1, <1>3, <1>7 DEF Pending
  <1>9. network = "fifo" => e \notin received' /\ (Pending <=> Pending')
    BY <1>1, <1>3, <1>7 DEF Pending
  <1>10. Cardinality(skipped') = k
    BY <1>5
  <1>11. /\ network # "duplicating" => k <= IF Pending' THEN num_lost + 1 ELSE num_lost
         /\ network = "fifo" => k = IF Pending' THEN num_lost + 1 ELSE num_lost
    <2> HIDE DEF k
    <2> QED
      BY <1>1, <1>6, <1>8, <1>9
  <1> HIDE DEF k, t
  <1> QED
    BY <1>2, <1>3, <1>4, <1>5, <1>9, <1>10, <1>11 DEF Losses

\* A purge that goes beyond the next number expected.
LEMMA SomePassed ==
    ASSUME IInv, Losses,
           NEW B, IsFiniteSet(B), B \subseteq arrived', arrived \subseteq arrived',
           NEW p \in Nat, NEW top \in Nat, next_exp_seq_no < p,
           B \subseteq next_exp_seq_no .. top, arrived' \subseteq Nat,
           \A x \in arrived' : x > next_exp_seq_no => x \in B,
           Purge(B, next_exp_seq_no, p, p, top),
           timedOut' = timedOut \union ((0 .. p) \ arrived'),
           skipped' = skipped \union ((0 .. p - 1) \ arrived'),
           network' = network,
           next_exp_seq_no \in arrived' => next_exp_seq_no \in arrived,
           next_exp_seq_no \in B <=> next_exp_seq_no \in received
    PROVE  Losses'
  <1> DEFINE n == next_exp_seq_no
             L == num_lost
             t == Cardinality(timedOut)
             u == Cardinality(timedOut')
             k == Cardinality(skipped)
             m == Cardinality(skipped')
             inner == n + 1 .. p - 1
             U == inner \ B
             q == Cardinality(inner \cap B)
             g == Cardinality(U)
             G == With(U, n, Nat \ arrived')
             W == With(U, p, Nat \ B)
             c == Cardinality(Purged(B, p))
  <1>1. /\ n \in Nat /\ L \in Nat /\ IsFiniteSet(timedOut) /\ IsFiniteSet(skipped)
        /\ timedOut \subseteq 0 .. n /\ skipped \subseteq 0 .. n - 1
        /\ (0 .. n - 1) \ arrived \subseteq skipped
        /\ L <= t
        /\ network # "duplicating" => k <= IF Pending THEN L + 1 ELSE L
        /\ network = "fifo" => n \notin received /\ k = IF Pending THEN L + 1 ELSE L
    BY DEF IInv, TypeOK, Losses
  <1>2. /\ q \in Nat /\ IsFiniteSet(U) /\ g = p - n - 1 - q /\ g \in Nat
        /\ c = q + One(n, B) + One(p, B)
    <2>1. n \in Nat /\ n < p /\ B \subseteq Nat /\ \A x \in B : x >= n
      BY <1>1
    <2> HIDE DEF n
    <2>2. /\ Cardinality((n + 1 .. p - 1) \cap B) \in Nat /\ IsFiniteSet((n + 1 .. p - 1) \ B)
          /\ Cardinality((n + 1 .. p - 1) \ B) = p - n - 1 - Cardinality((n + 1 .. p - 1) \cap B)
          /\ Cardinality((n + 1 .. p - 1) \ B) \in Nat
          /\ Cardinality(Purged(B, p)) =
                 Cardinality((n + 1 .. p - 1) \cap B) + One(n, B) + One(p, B)
      BY <2>1, PurgedCount
    <2> QED
      BY <2>2
  <1>3. One(n, B) \in {0, 1} /\ One(p, B) \in {0, 1}
    BY DEF One
  <1>4. num_lost' = L + (IF p - n >= c THEN p - n - c ELSE 0)
    <2>1. Monus(p, n) = p - n
      BY <1>1 DEF Monus
    <2>2. num_lost' = L + Monus(p - n, c)
      BY <2>1 DEF Purge, Lost
    <2> HIDE DEF c
    <2> QED
      BY <2>2 DEF Monus
  <1>5. next_exp_seq_no' = p /\ received' = {x \in B : ~(x <= p)}
    BY DEF Purge, Purged
  <1>6. p \notin received' /\ (p \in arrived' <=> p \in B)
    BY <1>1, <1>5
  <1>7. U \subseteq Nat /\ n \notin U /\ p \notin U /\ (\A x \in U : x > n /\ x < p)
    BY <1>1
  <1>8. /\ IsFiniteSet(G) /\ Cardinality(G) = g + One(n, Nat \ arrived')
        /\ IsFiniteSet(W) /\ Cardinality(W) = g + One(p, Nat \ B)
    <2> HIDE DEF U
    <2> QED
      BY <1>2, <1>7, WithOne
  \* What this purge times out is new.
  <1>9. timedOut' \subseteq 0 .. p /\ t + g + One(p, Nat \ B) <= u
    <2>1. timedOut' \subseteq 0 .. p
      BY <1>1
    <2>2. IsFiniteSet(timedOut')
      <3>1. IsFiniteSet(0 .. p)
        BY FS_Interval
      <3> QED
        BY <2>1, <3>1, FS_Subset
    <2>3. timedOut \cap W = {}
      BY <1>1 DEF With
    <2>4. timedOut \union W \subseteq timedOut'
      <3>1. \A x \in U : x \in 0 .. p /\ x \notin arrived'
        BY <1>1
      <3>2. p \in 0 .. p
        OBVIOUS
      <3> HIDE DEF U
      <3> QED
        BY <1>6, <3>1, <3>2 DEF With
    <2> HIDE DEF W
    <2>5. /\ IsFiniteSet(timedOut \union W)
          /\ Cardinality(timedOut \union W) = t + Cardinality(W) - Cardinality(timedOut \cap W)
      BY <1>1, <1>8, FS_Union
    <2>6. Cardinality(timedOut \cap W) = 0
      BY <2>3, FS_EmptySet
    <2>7. Cardinality(timedOut \union W) <= u
      BY <2>2, <2>4, FS_Subset
    <2>8. t \in Nat /\ Cardinality(W) \in Nat
      BY <1>1, <1>8, FS_CardinalityType
    <2>9. t + Cardinality(W) - 0 <= u
      BY <2>5, <2>6, <2>7
    <2> DEFINE w == Cardinality(W)
    <2>10. w = g + One(p, Nat \ B) /\ t + w - 0 <= u /\ t \in Nat /\ w \in Nat
      BY <1>8, <2>8, <2>9
    <2>11. One(p, Nat \ B) \in {0, 1}
      BY DEF One
    <2> HIDE DEF w, t, g, u
    <2>12. t + w - 0 = t + g + One(p, Nat \ B)
      BY <1>2, <2>10, <2>11
    <2> QED
      BY <2>1, <2>10, <2>12
  \* What it skips is new.
  <1>10. /\ skipped' \subseteq 0 .. p - 1 /\ (0 .. p - 1) \ arrived' \subseteq skipped'
         /\ m = k + g + One(n, Nat \ arrived')
    <2>1. skipped' = skipped \union G
      <3>1. \A x \in 0 .. p - 1 : x \in 0 .. n - 1 \/ x = n \/ x \in inner
        BY <1>1
      <3>2. inner \subseteq 0 .. p - 1 /\ n \in 0 .. p - 1 /\ n \in Nat /\ inner \subseteq Nat
            /\ \A x \in inner : x > n
        BY <1>1
      <3> HIDE DEF inner
      <3>3. \A x \in inner : x \in arrived' <=> x \in B
        BY <3>2
      <3>4. \A x \in 0 .. n - 1 : x \notin arrived' => x \in skipped
        BY <1>1
      <3> QED
        BY <3>1, <3>2, <3>3, <3>4 DEF With
    <2>2. skipped \cap G = {}
      BY <1>1 DEF With
    <2>3. skipped' \subseteq 0 .. p - 1
      BY <1>1
    <2> HIDE DEF G
    <2>4. Cardinality(skipped \union G) = k + Cardinality(G) - Cardinality(skipped \cap G)
      BY <1>1, <1>8, FS_Union
    <2>5. Cardinality(skipped \cap G) = 0
      BY <2>2, FS_EmptySet
    <2>6. k \in Nat
      BY <1>1, FS_CardinalityType
    <2> DEFINE w == Cardinality(G)
    <2>7. w = g + One(n, Nat \ arrived') /\ m = k + w - 0
      BY <1>8, <2>1, <2>4, <2>5
    <2>8. One(n, Nat \ arrived') \in {0, 1}
      BY DEF One
    <2> HIDE DEF w, k, g, m
    <2>9. m = k + g + One(n, Nat \ arrived')
      BY <1>2, <2>6, <2>7, <2>8
    <2> QED
      BY <2>3, <2>9
  <1>11. k \in Nat /\ t \in Nat
    BY <1>1, FS_CardinalityType
  <1>12. One(p, Nat \ B) = 1 - One(p, B)
    BY DEF One
  <1>13. /\ n \notin arrived' => One(n, Nat \ arrived') = 1 /\ One(n, B) = 0 /\ ~Pending
         /\ n \in arrived' /\ n \in B => One(n, Nat \ arrived') = 0 /\ One(n, B) = 1 /\ ~Pending
         /\ n \in arrived' /\ n \notin B => One(n, Nat \ arrived') = 0 /\ One(n, B) = 0 /\ Pending
    BY <1>1 DEF One, Pending
  <1>14. Pending' <=> p \in B
    BY <1>5, <1>6 DEF Pending
  <1>15. One(p, B) = IF Pending' THEN 1 ELSE 0
    BY <1>14 DEF One
  <1> DEFINE a == One(n, B)
             b == One(p, B)
             d == One(n, Nat \ arrived')
             lost == num_lost'
  <1>16. /\ a \in {0, 1} /\ b \in {0, 1} /\ c = q + a + b
         /\ lost = L + (IF p - n >= c THEN p - n - c ELSE 0)
         /\ t + g + (1 - b) <= u /\ m = k + g + d
         /\ \/ d = 1 /\ a = 0 /\ ~Pending
            \/ d = 0 /\ a = 1 /\ ~Pending /\ n \in received
            \/ d = 0 /\ a = 0 /\ Pending
    BY <1>2, <1>3, <1>4, <1>9, <1>10, <1>12, <1>13
  <1>20. u \in Int
    <2>1. IsFiniteSet(timedOut')
      <3>1. IsFiniteSet(0 .. p)
        BY FS_Interval
      <3> QED
        BY <1>9, <3>1, FS_Subset
    <2> QED
      BY <2>1, FS_CardinalityType
  <1> HIDE DEF a, b, d, c, q, g, k, t, u, m, L, n, lost
  <1>17. lost <= u
    BY <1>1, <1>2, <1>11, <1>16, <1>20
  <1>18. network # "duplicating" => m <= lost + b
    BY <1>1, <1>2, <1>11, <1>16
  <1>19. network = "fifo" => m = lost + b
    BY <1>1, <1>2, <1>11, <1>16
  <1>21. lost \in Int
    BY <1>1, <1>2, <1>16
  <1>22. /\ network # "duplicating" => m <= IF Pending' THEN lost + 1 ELSE lost
         /\ network = "fifo" => m = IF Pending' THEN lost + 1 ELSE lost
    BY <1>15, <1>18, <1>19, <1>21 DEF b
  <1> QED
    BY <1>5, <1>6, <1>9, <1>10, <1>17, <1>22 DEF Losses, m, u, lost

LEMMA InitLosses == Init => Losses
  <1> SUFFICES ASSUME Init PROVE Losses
    OBVIOUS
  <1>1. /\ timedOut = {} /\ skipped = {} /\ arrived = {} /\ received = {}
        /\ num_lost = 0 /\ next_exp_seq_no = 0
    BY DEF Init, HistInit
  <1>2. Cardinality({}) = 0
    BY FS_EmptySet
  <1>3. 0 .. 0 - 1 = {}
    OBVIOUS
  <1>4. ~Pending
    BY <1>1 DEF Pending
  <1> QED
    BY <1>1, <1>2, <1>3, <1>4 DEF Losses

LEMMA ReceiveLosses ==
    ASSUME IInv, Losses, NEW seq \in 0 .. MaxSent - 1, NEW w \in Windows, Receive(seq, w)
    PROVE  Losses'
  <1> DEFINE n == next_exp_seq_no
             e == IF seq = n THEN n + 1 ELSE n
             p == PurgeSeq(seq, w)
             B == Buffered(seq)
             top == Larger(max_rx_seq_no, seq)
  <1>1. /\ seq \in Nat /\ w \in Nat /\ n \in Nat /\ max_rx_seq_no \in Nat
        /\ seq \in Deliverable
    BY MaxSentAssumption, WindowsAssumption DEF IInv, TypeOK, Receive
  <1>2. p \in 0 .. seq /\ p \in Nat /\ e \in Nat /\ top \in Nat
    BY <1>1, PurgeSeqBound DEF Larger
  <1>3. /\ arrived' = arrived \union {seq} /\ network' = network
        /\ timedOut' = timedOut \union ((0 .. p) \ arrived')
        /\ skipped' = skipped \union ((0 .. next_exp_seq_no' - 1) \ arrived')
        /\ Purge(B, e, p, Larger(e, p), top)
    BY DEF Receive, PacketReceived, NextAfter
  <1>4. next_exp_seq_no' = Larger(e, p)
    BY <1>3 DEF Purge
  <1>5. /\ received \subseteq arrived /\ received \subseteq n .. max_rx_seq_no
        /\ \A x \in arrived : x > n => x \in received
        /\ IsFiniteSet(received) /\ arrived \subseteq Nat
    BY DEF IInv, TypeOK, ReceivedWindow, NothingForgotten
  <1>6. B = IF seq > n THEN received \union {seq} ELSE received \ {seq}
    BY DEF Buffered
  <1>7. /\ IsFiniteSet(B) /\ B \subseteq arrived' /\ arrived \subseteq arrived'
        /\ \A x \in arrived' : x > n => x \in B
        /\ arrived' \subseteq Nat
    BY <1>1, <1>3, <1>5, <1>6, FS_AddElement, FS_RemoveElement
  <1>8. B \subseteq n .. top
    BY <1>1, <1>5, <1>6 DEF Larger
  <1>9. seq # n => (n \in arrived' => n \in arrived) /\ (n \in B <=> n \in received)
    BY <1>3, <1>6
  <1>10. seq = n => /\ e = n + 1 /\ n \in arrived'
                    /\ network # "duplicating" => n \notin arrived
                    /\ network = "fifo" => e \notin arrived'
    <2> SUFFICES ASSUME seq = n
                 PROVE  /\ e = n + 1 /\ n \in arrived'
                        /\ network # "duplicating" => n \notin arrived
                        /\ network = "fifo" => e \notin arrived'
      OBVIOUS
    <2>1. network # "duplicating" => n \notin arrived
      BY <1>1 DEF Deliverable
    <2>2. network = "fifo" => \A x \in arrived : x < n
      BY <1>1 DEF Deliverable
    <2>3. network = "fifo" => e \notin arrived'
      BY <1>1, <1>3, <1>5, <2>2
    <2> QED
      BY <1>3, <2>1, <2>3
  <1>11. CASE p <= e
    <2>1. Larger(e, p) = e
      BY <1>2, <1>11 DEF Larger
    <2>2. skipped' = skipped \union ((0 .. e - 1) \ arrived') /\ Purge(B, e, p, e, top)
      BY <1>3, <1>4, <2>1
    <2>3. seq # n => e = n
      OBVIOUS
    <2> HIDE DEF e, p, B, top
    <2> QED
      BY <1>2, <1>3, <1>7, <1>9, <1>10, <1>11, <2>2, <2>3, NothingPassed
  <1>12. CASE ~(p <= e)
    <2>1. seq # n /\ e = n /\ n < p
      BY <1>1, <1>2, <1>12
    <2>2. Larger(e, p) = p
      BY <1>2, <1>12 DEF Larger
    <2>3. skipped' = skipped \union ((0 .. p - 1) \ arrived') /\ Purge(B, n, p, p, top)
      BY <1>3, <1>4, <2>1, <2>2
    <2> HIDE DEF e, p, B, top
    <2> QED
      BY <1>2, <1>3, <1>7, <1>8, <1>9, <2>1, <2>3, SomePassed
  <1> QED
    BY <1>11, <1>12

LEMMA PurgeOnSilenceLosses ==
    ASSUME IInv, Losses, PurgeOnSilence
    PROVE  Losses'
  <1> DEFINE n == next_exp_seq_no
             p == max_rx_seq_no + PurgeStep
  <1>1. /\ n \in Nat /\ max_rx_seq_no \in Nat /\ p \in Nat /\ p > max_rx_seq_no /\ n <= p
    BY PurgeStepAssumption DEF IInv, TypeOK, ReceivedWindow
  <1>2. /\ arrived' = arrived /\ network' = network
        /\ timedOut' = timedOut \union ((0 .. p) \ arrived)
        /\ skipped' = skipped \union ((0 .. next_exp_seq_no' - 1) \ arrived)
        /\ Purge(received, n, p, p, p)
    BY DEF PurgeOnSilence, ActivePurge
  <1>3. next_exp_seq_no' = p
    BY <1>2 DEF Purge
  <1>4. /\ received \subseteq arrived /\ received \subseteq n .. max_rx_seq_no
        /\ \A x \in arrived : x > n => x \in received
        /\ IsFiniteSet(received) /\ arrived \subseteq Nat
    BY DEF IInv, TypeOK, ReceivedWindow, NothingForgotten
  <1>5. received \subseteq n .. p
    BY <1>1, <1>4
  <1> HIDE DEF p
  <1>6. CASE p = n
    <2>1. p <= p
      BY <1>1
    <2> QED
      BY <1>1, <1>2, <1>3, <1>4, <1>6, <2>1, NothingPassed
  <1>7. CASE p # n
    <2>1. n < p
      BY <1>1, <1>7
    <2> QED
      BY <1>1, <1>2, <1>3, <1>4, <1>5, <2>1, SomePassed
  <1> QED
    BY <1>6, <1>7

LEMMA NextLosses == IInv /\ Losses /\ [Next]_vars => Losses'
  <1> SUFFICES ASSUME IInv, Losses, [Next]_vars PROVE Losses'
    OBVIOUS
  <1>1. CASE Send \/ UNCHANGED vars
    BY <1>1 DEF Send, vars, histVars, Losses, Pending
  <1>2. CASE \E seq \in 0 .. MaxSent - 1, w \in Windows : Receive(seq, w)
    BY <1>2, ReceiveLosses
  <1>3. CASE PurgeOnSilence
    BY <1>3, PurgeOnSilenceLosses
  <1> QED
    BY <1>1, <1>2, <1>3 DEF Next

\* Losses is an invariant, on top of IInv.
THEOREM LossInvariance == Spec => []Losses
  <1>1. IInv /\ [Next]_vars => IInv'
    BY NextIInv
  <1> QED
    BY InitIInv, InitLosses, NextLosses, <1>1, PTL DEF Spec

\* The losses counted never exceed the numbers that purges passed before they
\* came; over a network that does not duplicate at most one packet that never
\* came is missing from the count; over one that keeps the order as well the
\* count is that of the packets given up, or one less.
THEOREM LossCountsCorrect == Spec => []LossCounts
  <1>1. IInv /\ Losses => LossCounts
    <2> SUFFICES ASSUME IInv, Losses PROVE LossCounts
      OBVIOUS
    <2> DEFINE k == Cardinality(skipped)
               h == Cardinality((0 .. next_exp_seq_no - 1) \ arrived)
    <2>1. num_lost \in Nat /\ IsFiniteSet(skipped)
      BY DEF IInv, TypeOK
    <2>2. h <= k /\ k \in Nat /\ h \in Nat
      <3>1. (0 .. next_exp_seq_no - 1) \ arrived \subseteq skipped
        BY DEF Losses
      <3> QED
        BY <2>1, <3>1, FS_Subset, FS_CardinalityType
    <2>3. /\ network # "duplicating" => k <= num_lost + 1
          /\ network = "fifo" => k = num_lost \/ k = num_lost + 1
      <3>1. num_lost <= num_lost + 1
        BY <2>1
      <3>2. /\ network # "duplicating" => k <= IF Pending THEN num_lost + 1 ELSE num_lost
            /\ network = "fifo" => k = IF Pending THEN num_lost + 1 ELSE num_lost
        BY DEF Losses
      <3> HIDE DEF k
      <3> QED
        BY <2>1, <2>2, <3>1, <3>2
    <2> HIDE DEF k, h
    <2>4. /\ network # "duplicating" => h <= num_lost + 1
          /\ network = "fifo" => k - num_lost \in {0, 1}
      BY <2>1, <2>2, <2>3
    <2>5. LossNotOvercounted
      BY DEF Losses, LossNotOvercounted
    <2>6. LossNotUndercounted /\ LossAccuracy
      BY <2>4 DEF LossNotUndercounted, LossAccuracy, k, h
    <2> QED
      BY <2>5, <2>6 DEF LossCounts
  <1> QED
    BY <1>1, Invariance, LossInvariance, PTL
=============================================================================
