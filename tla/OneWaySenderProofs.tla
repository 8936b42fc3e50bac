------------------------- MODULE OneWaySenderProofs -------------------------
(***************************************************************************)
(* Proofs about OneWaySender for every number of destinations and packets, *)
(* every size of the windows, timeout and period.  IInv is the inductive   *)
(* invariant: the checked invariants, and the facts about the clock, the   *)
(* packets not yet sent and the window of destination 0 they rest on.      *)
(***************************************************************************)
EXTENDS OneWaySender, FiniteSetTheorems, WellFoundedInduction, TLAPS

\* The packets num_outstanding should count.
Unsettled(i) == {p \in Sent : dest[p] = i /\ ~received[p]}

\* The probes go out at the time read at the top of the loop.
ClocksOrdered == last_time <= the_time

\* As long as the loop stays within packetstats an entry that was never sent is
\* as it was at the start: it looks timed out, and it is not yet received.
UnsentUntouched ==
    pc # "overrun" => \A p \in Packets \ Sent : sent_time[p] = 0 /\ ~received[p]

\* The loop on next_unacked has passed only what was sent.
NextWithinSent ==
    pc # "overrun" => next_unacked < NumPackets /\ (next_unacked = 0 \/ next_unacked < packets_sent)

\* A window is exceeded by the probes sent so far.
ProbedBound == \A i \in Dests : num_outstanding[i] <= MaxOutstanding + (last_time - Epoch)

IInv ==
    /\ TypeOK
    /\ OutstandingExact
    /\ PrefixSettled
    /\ ClocksOrdered
    /\ UnsentUntouched
    /\ NextWithinSent
    /\ ProbedBound

-----------------------------------------------------------------------------
(* Numbers and finite sets.                                                *)

\* Every nonempty set of natural numbers has a least element.
LEMMA LeastNumber ==
    ASSUME NEW T, T \subseteq Nat, T # {}
    PROVE  Min(T) \in T /\ \A y \in T : Min(T) <= y
  <1>1. PICK x \in T : \A y \in T : ~(<<y, x>> \in OpToRel(<, Nat))
    BY NatLessThanWellFounded, WFMin, Zenon
  <1>2. \A y \in T : ~(y < x)
    BY <1>1 DEF OpToRel
  <1>3. \E z \in T : \A y \in T : z <= y
    BY <1>2
  <1> QED
    BY <1>3, Zenon DEF Min

LEMMA IntervalGrows ==
    ASSUME NEW a \in Nat, NEW b \in Nat, b >= a
    PROVE  0 .. a - 1 \subseteq 0 .. b - 1
  OBVIOUS

LEMMA PacketsFinite ==
    ASSUME NEW S, S \subseteq Packets
    PROVE  IsFiniteSet(S) /\ Cardinality(S) \in Nat
  <1>1. IsFiniteSet(Packets)
    BY OneWayAssumption, FS_Interval DEF Packets
  <1> QED
    BY <1>1, FS_Subset, FS_CardinalityType

\* The sizes of two disjoint sets of packets add up.
LEMMA DisjointUnion ==
    ASSUME NEW A, A \subseteq Packets, NEW B, B \subseteq Packets, A \cap B = {}
    PROVE  Cardinality(A \union B) = Cardinality(A) + Cardinality(B)
  <1>1. IsFiniteSet(A) /\ IsFiniteSet(B) /\ Cardinality(A) \in Nat /\ Cardinality(B) \in Nat
    BY PacketsFinite
  <1>2. Cardinality(A \cap B) = 0
    BY FS_EmptySet
  <1>3. Cardinality(A \union B) = Cardinality(A) + Cardinality(B) - Cardinality(A \cap B)
    BY <1>1, FS_Union
  <1> DEFINE a == Cardinality(A)  b == Cardinality(B)  c == Cardinality(A \cap B)
             d == Cardinality(A \union B)
  <1>4. a \in Nat /\ b \in Nat /\ c = 0 /\ d = a + b - c
    BY <1>1, <1>2, <1>3
  <1> HIDE DEF a, b, c, d
  <1>5. d = a + b
    BY <1>4
  <1> QED
    BY <1>5 DEF a, b, d

\* The size of a set of packets without some of them.
LEMMA Without ==
    ASSUME NEW A, A \subseteq Packets, NEW B, B \subseteq A
    PROVE  Cardinality(A \ B) = Cardinality(A) - Cardinality(B)
  <1> DEFINE C == A \ B
  <1>1. C \subseteq Packets /\ B \subseteq Packets /\ C \cap B = {} /\ C \union B = A
    OBVIOUS
  <1>2. Cardinality(A) = Cardinality(C) + Cardinality(B)
    BY <1>1, DisjointUnion
  <1> DEFINE a == Cardinality(A)  b == Cardinality(B)  c == Cardinality(C)
  <1>3. b \in Nat /\ c \in Nat /\ a = c + b
    BY <1>1, <1>2, PacketsFinite
  <1> HIDE DEF a, b, c, C
  <1>4. c = a - b
    BY <1>3
  <1> QED
    BY <1>4 DEF a, b, c, C

\* At most one packet is in a set of which any two are equal.
LEMMA AtMostOne ==
    ASSUME NEW A, A \subseteq Packets, \A p, q \in A : p = q
    PROVE  Cardinality(A) <= 1
  <1>1. CASE A = {}
    BY <1>1, FS_EmptySet
  <1>2. CASE A # {}
    <2>1. PICK p : p \in A
      BY <1>2
    <2>2. A = {p}
      BY <2>1
    <2> QED
      BY <2>2, FS_Singleton
  <1> QED
    BY <1>1, <1>2

-----------------------------------------------------------------------------
(* Sending and settling packets.                                           *)

\* The packets that SendBurst(n, _) sends.
Burst(n) == {p \in Packets : packets_sent <= p /\ p < packets_sent + n}

\* A burst is new, it continues the packets sent, and it has n packets unless
\* it ends with the last packet there is.
LEMMA BurstFacts ==
    ASSUME packets_sent \in 0 .. NumPackets, NEW n \in Nat
    PROVE  /\ Burst(n) \subseteq Packets \ Sent
           /\ Cardinality(Burst(n)) \in 0 .. n
           /\ packets_sent + Cardinality(Burst(n)) \in 0 .. NumPackets
           /\ 0 .. packets_sent + Cardinality(Burst(n)) - 1 = Sent \union Burst(n)
           /\ packets_sent + Cardinality(Burst(n)) < NumPackets => Cardinality(Burst(n)) = n
  <1> DEFINE end == IF packets_sent + n <= NumPackets THEN packets_sent + n ELSE NumPackets
             size == Cardinality(Burst(n))
  <1>1. packets_sent \in Nat /\ NumPackets \in Nat /\ end \in Nat /\ packets_sent <= end
    BY OneWayAssumption
  <1>2. Burst(n) = packets_sent .. end - 1
    BY <1>1 DEF Burst, Packets
  <1>3. Cardinality(packets_sent .. end - 1) = end - packets_sent
    <2>1. packets_sent \in Int /\ end - 1 \in Int
      BY <1>1
    <2>2. Cardinality(packets_sent .. end - 1)
              = IF packets_sent > end - 1 THEN 0 ELSE end - 1 - packets_sent + 1
      BY <2>1, FS_Interval
    <2> QED
      BY <1>1, <2>2
  <1>4. size = end - packets_sent
    BY <1>2, <1>3
  <1>5. Burst(n) \subseteq Packets \ Sent
    BY <1>1 DEF Burst, Sent
  <1>6. 0 .. end - 1 = Sent \union Burst(n)
    BY <1>1, <1>2 DEF Sent
  <1>7. packets_sent + size = end
    BY <1>1, <1>4
  <1>8. size \in 0 .. n /\ end \in 0 .. NumPackets /\ (end < NumPackets => size = n)
    BY <1>1, <1>4
  <1> HIDE DEF end, size
  <1>9. 0 .. packets_sent + size - 1 = 0 .. end - 1
    BY <1>1, <1>7, <1>8
  <1> QED
    BY <1>5, <1>6, <1>7, <1>8, <1>9 DEF size

\* What sending a burst does to the counters and to packetstats.
LEMMA SendBurstEffect ==
    ASSUME IInv, pc # "overrun", pc' # "overrun",
           NEW n \in Nat, NEW to, \A k \in 0 .. n - 1 : to[k] \in Dests,
           SendBurst(n, to), received' = received, now' = now
    PROVE  /\ packets_sent' \in 0 .. NumPackets /\ packets_sent' >= packets_sent
           /\ packets_sent' = packets_sent + Cardinality(Burst(n))
           /\ num_outstanding' \in [Dests -> Nat]
           /\ sent_time' \in [Packets -> {0} \union Epoch .. now]
           /\ dest' \in [Packets -> Dests]
           /\ net' \subseteq Sent'
           /\ OutstandingExact' /\ UnsentUntouched'
           /\ \A i \in Dests : num_outstanding'[i] =
                  num_outstanding[i] + Cardinality({p \in Burst(n) : to[p - packets_sent] = i})
  <1> DEFINE B == Burst(n)
             To(i) == {p \in B : to[p - packets_sent] = i}
  <1>1. /\ packets_sent \in 0 .. NumPackets /\ num_outstanding \in [Dests -> Nat]
        /\ dest \in [Packets -> Dests] /\ received \in [Packets -> BOOLEAN]
        /\ now \in Nat /\ Epoch \in Nat /\ Epoch <= now
        /\ NumPackets \in Nat /\ packets_sent \in Nat
    BY OneWayAssumption DEF IInv, TypeOK, Epoch
  <1>2. /\ B \subseteq Packets \ Sent /\ Cardinality(B) \in Nat
        /\ packets_sent + Cardinality(B) \in 0 .. NumPackets
        /\ 0 .. packets_sent + Cardinality(B) - 1 = Sent \union B
    BY <1>1, BurstFacts
  <1>3. /\ sent_time' = [p \in Packets |-> IF p \in B THEN now ELSE sent_time[p]]
        /\ dest' = [p \in Packets |-> IF p \in B THEN to[p - packets_sent] ELSE dest[p]]
        /\ net' = net \union B
        /\ packets_sent' = packets_sent + Cardinality(B)
        /\ num_outstanding' = [i \in Dests |-> num_outstanding[i] + Cardinality(To(i))]
    BY DEF SendBurst, Burst
  <1>4. packets_sent' \in 0 .. NumPackets /\ packets_sent' >= packets_sent
    BY <1>1, <1>2, <1>3
  <1>5. Sent' = Sent \union B
    <2>1. Sent' = 0 .. packets_sent + Cardinality(B) - 1
      BY <1>1, <1>2, <1>3 DEF Sent
    <2> QED
      BY <1>2, <2>1, Zenon
  <1>6. \A p \in B : to[p - packets_sent] \in Dests
    BY <1>1 DEF Burst, Packets
  <1>7. \A i \in Dests : Cardinality(To(i)) \in Nat
    BY <1>2, PacketsFinite
  <1>8. num_outstanding' \in [Dests -> Nat]
    BY <1>1, <1>3, <1>7
  <1>9. sent_time' \in [Packets -> {0} \union Epoch .. now] /\ dest' \in [Packets -> Dests]
    BY <1>1, <1>3, <1>6 DEF IInv, TypeOK
  <1>10. net' \subseteq Sent'
    BY <1>3, <1>5 DEF IInv, TypeOK
  <1>11. UnsentUntouched'
    BY <1>2, <1>3, <1>5 DEF IInv, UnsentUntouched
  <1>12. OutstandingExact'
    <2>1. ASSUME NEW i \in Dests
          PROVE  num_outstanding'[i] = Cardinality(Unsettled(i)')
      <3>1. Unsettled(i)' = Unsettled(i) \union To(i)
        <4>1. Unsettled(i)' = {p \in Sent \union B : dest'[p] = i /\ ~received[p]}
          BY <1>5 DEF Unsettled
        <4>2. Sent \subseteq Packets
          BY <1>1 DEF Sent, Packets
        <4>3. \A p \in B : ~received[p]
          BY <1>2 DEF IInv, UnsentUntouched
        <4>4. \A p \in Sent : p \in Packets /\ dest'[p] = dest[p]
          BY <1>2, <1>3, <4>2
        <4>5. \A p \in B : p \in Packets /\ dest'[p] = to[p - packets_sent]
          BY <1>2, <1>3
        <4> QED
          BY <4>1, <4>3, <4>4, <4>5 DEF Unsettled
      <3>2. Unsettled(i) \subseteq Packets /\ To(i) \subseteq Packets /\ Unsettled(i) \cap To(i) = {}
        BY <1>1, <1>2 DEF Unsettled, Sent, Packets
      <3>3. Cardinality(Unsettled(i)') = Cardinality(Unsettled(i)) + Cardinality(To(i))
        BY <3>1, <3>2, DisjointUnion
      <3>4. num_outstanding[i] = Cardinality(Unsettled(i))
        BY DEF IInv, OutstandingExact, Unsettled
      <3> QED
        BY <1>3, <3>3, <3>4
    <2> QED
      BY <2>1 DEF OutstandingExact, Unsettled
  <1> QED
    BY <1>3, <1>4, <1>8, <1>9, <1>10, <1>11, <1>12

\* What settling packets does to the counters and to packetstats.
LEMMA SettlePacketsEffect ==
    ASSUME IInv, NEW S, S \subseteq Packets, SettlePackets(S),
           dest' = dest, packets_sent' = packets_sent
    PROVE  /\ received' \in [Packets -> BOOLEAN]
           /\ \A p \in Packets : received'[p] <=> received[p] \/ p \in S
           /\ num_outstanding' \in [Dests -> Int]
           /\ \A i \in Dests : /\ num_outstanding'[i] <= num_outstanding[i]
                               /\ num_outstanding'[i] = num_outstanding[i]
                                    - Cardinality({p \in NewlySettled(S) : dest[p] = i})
           /\ pc # "overrun" /\ S \subseteq Sent =>
                  num_outstanding' \in [Dests -> Nat] /\ (pc' # "overrun" => OutstandingExact')
  <1> DEFINE Settled(i) == {p \in NewlySettled(S) : dest[p] = i}
  <1>1. /\ num_outstanding \in [Dests -> Int] /\ received \in [Packets -> BOOLEAN]
        /\ packets_sent \in Nat /\ NumPackets \in Nat /\ packets_sent <= NumPackets
    BY OneWayAssumption DEF IInv, TypeOK
  <1>2. /\ received' = [p \in Packets |-> received[p] \/ p \in S]
        /\ num_outstanding' = [i \in Dests |-> num_outstanding[i] - Cardinality(Settled(i))]
    BY DEF SettlePackets
  <1>3. \A i \in Dests : Cardinality(Settled(i)) \in Nat
    BY PacketsFinite DEF NewlySettled
  <1>4. received' \in [Packets -> BOOLEAN]
    <2>1. \A p \in Packets : (received[p] \/ p \in S) \in BOOLEAN
      BY <1>1
    <2> QED
      BY <1>2, <2>1, Zenon
  <1>5. \A p \in Packets : received'[p] <=> received[p] \/ p \in S
    BY <1>2
  <1>6. num_outstanding' \in [Dests -> Int]
    BY <1>1, <1>2, <1>3
  <1>7. \A i \in Dests : num_outstanding'[i] <= num_outstanding[i]
    BY <1>1, <1>2, <1>3
  <1>8. ASSUME pc # "overrun", S \subseteq Sent, NEW i \in Dests
        PROVE  num_outstanding'[i] = Cardinality(Unsettled(i)') /\ num_outstanding'[i] \in Nat
    <2>1. Unsettled(i)' = Unsettled(i) \ Settled(i)
      <3>1. Unsettled(i)' = {p \in Sent : dest[p] = i /\ ~received'[p]}
        BY DEF Unsettled, Sent
      <3>2. \A p \in Sent : p \in Packets
        BY <1>1 DEF Sent, Packets
      <3> QED
        BY <1>5, <3>1, <3>2 DEF Unsettled, NewlySettled
    <2>2. Unsettled(i) \subseteq Packets /\ Settled(i) \subseteq Unsettled(i)
      <3>1. Sent \subseteq Packets
        BY <1>1 DEF Sent, Packets
      <3>2. Settled(i) \subseteq Unsettled(i)
        BY <1>8 DEF Unsettled, NewlySettled
      <3> QED
        BY <3>1, <3>2 DEF Unsettled
    <2>3. Cardinality(Unsettled(i)') = Cardinality(Unsettled(i)) - Cardinality(Settled(i))
      BY <2>1, <2>2, Without
    <2>4. num_outstanding[i] = Cardinality(Unsettled(i))
      BY <1>8 DEF IInv, OutstandingExact, Unsettled
    <2>5. Cardinality(Unsettled(i)') \in Nat
      <3>1. Unsettled(i)' \subseteq Packets
        BY <2>1, <2>2
      <3> QED
        BY <3>1, PacketsFinite
    <2> QED
      BY <1>2, <2>3, <2>4, <2>5
  <1>9. ASSUME pc # "overrun", S \subseteq Sent
        PROVE  num_outstanding' \in [Dests -> Nat] /\ (pc' # "overrun" => OutstandingExact')
    <2>1. \A i \in Dests : num_outstanding'[i] = Cardinality(Unsettled(i)')
                           /\ num_outstanding'[i] \in Nat
      BY <1>8, <1>9
    <2>2. num_outstanding' \in [Dests -> Nat]
      BY <1>6, <2>1
    <2> QED
      BY <2>1, <2>2 DEF OutstandingExact, Unsettled
  <1> QED
    BY <1>2, <1>4, <1>5, <1>6, <1>7, <1>9

-----------------------------------------------------------------------------
(* The steps.                                                              *)

LEMMA InitIInv == Init => IInv
  <1> SUFFICES ASSUME Init PROVE IInv
    OBVIOUS
  <1>1. /\ NumPackets \in Nat \ {0} /\ NumDests \in Nat \ {0} /\ Timeout \in Nat /\ MaxTime \in Nat
        /\ MaxOutstanding \in Nat /\ 0 \in Dests /\ Epoch \in Nat
    BY OneWayAssumption DEF Dests, Epoch
  <1>2. Sent = {}
    BY DEF Init, Sent
  <1>3. TypeOK
    BY <1>1, <1>2 DEF Init, TypeOK
  <1>4. OutstandingExact
    <2>1. \A i \in Dests : {p \in Sent : dest[p] = i /\ ~received[p]} = {}
      BY <1>2
    <2>2. \A i \in Dests : Cardinality({p \in Sent : dest[p] = i /\ ~received[p]}) = 0
      BY <2>1, FS_EmptySet
    <2> QED
      BY <2>2 DEF Init, OutstandingExact
  <1>5. PrefixSettled /\ ClocksOrdered /\ UnsentUntouched /\ NextWithinSent /\ ProbedBound
    BY <1>1 DEF Init, PrefixSettled, ClocksOrdered, UnsentUntouched, NextWithinSent, ProbedBound,
                Packets
  <1> QED
    BY <1>3, <1>4, <1>5 DEF IInv

LEMMA TickIInv ==
    ASSUME IInv, Tick
    PROVE  IInv'
  <1>1. now \in Nat /\ Epoch \in Nat /\ MaxTime \in Nat /\ now <= Epoch + MaxTime
    BY OneWayAssumption DEF IInv, TypeOK, Epoch
  <1>2. /\ now' = now + 1 /\ now < Epoch + MaxTime
        /\ UNCHANGED <<lossy, pc, the_time, last_time, numextra, packets_sent, next_unacked,
                       num_outstanding, sent_time, dest, received, refilling, net, timedOut>>
    BY DEF Tick, loopVars, stats
  <1>3. Sent' = Sent /\ \A S : S \subseteq Epoch .. now => S \subseteq Epoch .. now'
    BY <1>1, <1>2 DEF Sent
  <1>4. sent_time' \in [Packets -> {0} \union Epoch .. now']
    BY <1>2, <1>3 DEF IInv, TypeOK
  <1>5. TypeOK'
    BY <1>1, <1>2, <1>3, <1>4 DEF IInv, TypeOK
  <1> QED
    BY <1>2, <1>3, <1>5 DEF IInv, OutstandingExact, PrefixSettled, ClocksOrdered, UnsentUntouched,
                            NextWithinSent, ProbedBound

LEMMA ReadClockIInv ==
    ASSUME IInv, ReadClock
    PROVE  IInv'
  <1>1. /\ pc = "top" /\ pc' = "probe" /\ the_time' = now
        /\ UNCHANGED <<lossy, now, last_time, numextra, packets_sent, next_unacked,
                       num_outstanding, sent_time, dest, received, refilling, net, timedOut>>
    BY DEF ReadClock, stats
  <1>2. Sent' = Sent
    BY <1>1 DEF Sent
  <1>3. now \in Epoch .. now /\ last_time <= now
    BY OneWayAssumption DEF IInv, TypeOK, Epoch
  <1>4. TypeOK'
    BY <1>1, <1>2, <1>3 DEF IInv, TypeOK
  <1> QED
    BY <1>1, <1>2, <1>3, <1>4 DEF IInv, OutstandingExact, PrefixSettled, ClocksOrdered,
                                  UnsentUntouched, NextWithinSent, ProbedBound

LEMMA LoseIInv ==
    ASSUME IInv, NEW p \in Packets, Lose(p)
    PROVE  IInv'
  <1>1. /\ net' = net \ {p}
        /\ UNCHANGED <<lossy, pc, now, the_time, last_time, numextra, packets_sent, next_unacked,
                       num_outstanding, sent_time, dest, received, refilling, timedOut>>
    BY DEF Lose, loopVars, stats
  <1>2. Sent' = Sent
    BY <1>1 DEF Sent
  <1>3. TypeOK'
    BY <1>1, <1>2 DEF IInv, TypeOK
  <1> QED
    BY <1>1, <1>2, <1>3 DEF IInv, OutstandingExact, PrefixSettled, ClocksOrdered, UnsentUntouched,
                            NextWithinSent, ProbedBound

LEMMA ProbeIInv ==
    ASSUME IInv, Probe
    PROVE  IInv'
  <1>1. /\ pc = "probe" /\ pc' = "settle"
        /\ UNCHANGED <<lossy, now, the_time, next_unacked, received, refilling, timedOut>>
    BY DEF Probe
  <1>2. /\ NumDests \in Nat \ {0} /\ Epoch \in Nat /\ MaxOutstanding \in Nat /\ FlipPeriod \in Nat \ {0}
        /\ now \in Nat /\ the_time \in Nat /\ last_time \in Nat
        /\ last_time <= the_time /\ the_time <= now /\ Epoch <= last_time
        /\ num_outstanding \in [Dests -> Int]
    BY OneWayAssumption DEF IInv, TypeOK, Epoch, ClocksOrdered
  <1>3. CASE the_time # last_time
    <2> DEFINE to == [k \in Dests |-> k]
    <2>1. /\ last_time' = the_time
          /\ numextra' = (IF the_time \div FlipPeriod # last_time \div FlipPeriod
                          THEN (numextra + 1) % NumDests ELSE numextra)
          /\ SendBurst(NumDests, to)
      BY <1>3 DEF Probe
    <2>2. \A k \in 0 .. NumDests - 1 : to[k] \in Dests
      BY DEF Dests
    <2>3. /\ packets_sent' \in 0 .. NumPackets /\ packets_sent' >= packets_sent
          /\ num_outstanding' \in [Dests -> Nat]
          /\ sent_time' \in [Packets -> {0} \union Epoch .. now]
          /\ dest' \in [Packets -> Dests]
          /\ net' \subseteq Sent'
          /\ OutstandingExact' /\ UnsentUntouched'
          /\ \A i \in Dests : num_outstanding'[i] =
                 num_outstanding[i] + Cardinality({p \in Burst(NumDests) : to[p - packets_sent] = i})
      <3> HIDE DEF to
      <3> QED
        BY <1>1, <1>2, <2>1, <2>2, SendBurstEffect
    <2>4. \A i \in Dests : num_outstanding'[i] <= num_outstanding[i] + 1
      <3>1. ASSUME NEW i \in Dests
            PROVE  num_outstanding'[i] <= num_outstanding[i] + 1
        <4> DEFINE A == {p \in Burst(NumDests) : to[p - packets_sent] = i}
        <4>1. packets_sent \in Nat
          BY OneWayAssumption DEF IInv, TypeOK
        <4>2. \A p \in A : p \in Int /\ p - packets_sent = i
          BY <1>2, <4>1 DEF Burst, Packets, Dests
        <4>3. \A p, q \in A : p = q
          BY <4>1, <4>2
        <4>4. A \subseteq Packets
          BY DEF Burst
        <4>5. Cardinality(A) \in Nat /\ Cardinality(A) <= 1
          BY <4>3, <4>4, AtMostOne, PacketsFinite
        <4>6. num_outstanding'[i] = num_outstanding[i] + Cardinality(A)
          BY <2>3, Zenon
        <4>7. num_outstanding[i] \in Int
          BY <1>2
        <4> HIDE DEF A
        <4> QED
          BY <4>5, <4>6, <4>7
      <3> QED
        BY <3>1
    <2>5. numextra' \in Dests
      BY <1>2, <2>1 DEF IInv, TypeOK, Dests
    <2>6. TypeOK'
      BY <1>1, <1>2, <2>1, <2>3, <2>5 DEF IInv, TypeOK
    <2>7. NextWithinSent'
      BY <1>1, <2>3 DEF IInv, TypeOK, NextWithinSent
    <2>8. ProbedBound'
      BY <1>2, <1>3, <2>1, <2>3, <2>4 DEF IInv, ProbedBound
    <2>9. PrefixSettled' /\ ClocksOrdered'
      BY <1>1, <1>2, <2>1 DEF IInv, PrefixSettled, ClocksOrdered
    <2> QED
      BY <2>3, <2>6, <2>7, <2>8, <2>9 DEF IInv
  <1>4. CASE the_time = last_time
    <2>1. UNCHANGED <<numextra, last_time, sent_time, dest, net, packets_sent, num_outstanding>>
      BY <1>4 DEF Probe
    <2>2. Sent' = Sent
      BY <2>1 DEF Sent
    <2>3. TypeOK'
      BY <1>1, <2>1, <2>2 DEF IInv, TypeOK
    <2> QED
      BY <1>1, <2>1, <2>2, <2>3 DEF IInv, OutstandingExact, PrefixSettled, ClocksOrdered,
                                    UnsentUntouched, NextWithinSent, ProbedBound
  <1> QED
    BY <1>3, <1>4

\* The loop on next_unacked stops at a packet that was sent, or runs to the end
\* of packetstats; the packets it passes were sent, or it runs to the end.
LEMMA LoopFacts ==
    ASSUME IInv, pc = "settle", received[next_unacked]
    PROVE  LET kept == {p \in Packets : p > next_unacked /\ ~received[p] /\ ~Expired(p)}
               next == IF kept = {} THEN NumPackets ELSE Min(kept)
           IN  /\ next \in next_unacked + 1 .. NumPackets
               /\ Passed(next) \subseteq Packets
               /\ kept # {} => next < packets_sent /\ Passed(next) \subseteq Sent
               /\ \A p \in Packets : p < next => p <= next_unacked \/ p \in Passed(next)
  <1> DEFINE kept == {p \in Packets : p > next_unacked /\ ~received[p] /\ ~Expired(p)}
             next == IF kept = {} THEN NumPackets ELSE Min(kept)
  <1>1. /\ next_unacked \in Nat /\ next_unacked < NumPackets /\ NumPackets \in Nat
        /\ packets_sent \in Nat /\ Timeout \in Nat /\ Epoch = Timeout + 1
        /\ the_time \in Nat /\ the_time >= Epoch
    BY OneWayAssumption DEF IInv, TypeOK, NextWithinSent, Epoch
  <1>2. CASE kept = {}
    BY <1>1, <1>2 DEF Passed, Packets
  <1>3. CASE kept # {}
    <2>1. kept \subseteq Nat
      BY <1>1 DEF Packets
    <2>2. Min(kept) \in kept
      BY <1>3, <2>1, LeastNumber
    <2>3. next \in Packets /\ next > next_unacked /\ ~Expired(next)
      BY <1>3, <2>2
    <2>4. next \in Sent
      <3>1. SUFFICES ASSUME next \notin Sent PROVE FALSE
        OBVIOUS
      <3>2. sent_time[next] = 0
        BY <1>1, <2>3, <3>1 DEF IInv, UnsentUntouched
      <3> HIDE DEF next
      <3> QED
        BY <1>1, <2>3, <3>2 DEF Expired
    <2> HIDE DEF next, kept
    <2>5. next \in Nat /\ next < packets_sent /\ next < NumPackets
      BY <1>1, <2>3, <2>4 DEF Sent, Packets
    <2>6. Passed(next) \subseteq Sent /\ Passed(next) \subseteq Packets
      BY <1>1, <2>5 DEF Passed, Sent, Packets
    <2> QED
      BY <1>1, <2>3, <2>5, <2>6 DEF Passed, Packets, next, kept
  <1> QED
    BY <1>2, <1>3

LEMMA SettleIInv ==
    ASSUME IInv, Settle
    PROVE  IInv'
  <1> DEFINE kept == {p \in Packets : p > next_unacked /\ ~received[p] /\ ~Expired(p)}
             next == IF kept = {} THEN NumPackets ELSE Min(kept)
  <1>1. /\ pc = "settle" /\ pc' \in {"refill", "overrun"} /\ refilling' = 0
        /\ UNCHANGED <<lossy, now, the_time, last_time, numextra, packets_sent, sent_time, dest, net>>
    BY DEF Settle
  <1>2. Sent' = Sent
    BY <1>1 DEF Sent
  <1>3. 0 \in Dests
    BY OneWayAssumption DEF Dests
  <1>4. /\ next_unacked \in Nat /\ packets_sent \in Nat /\ NumPackets \in Nat
        /\ packets_sent <= NumPackets /\ next_unacked < NumPackets
        /\ num_outstanding \in [Dests -> Int] /\ last_time \in Int /\ Epoch \in Int
        /\ MaxOutstanding \in Int
    BY <1>1, OneWayAssumption DEF IInv, TypeOK, NextWithinSent, Epoch
  <1>5. CASE received[next_unacked]
    <2>1. /\ next_unacked' = next
          /\ SettlePackets(Passed(next))
          /\ timedOut' = timedOut \union {p \in Passed(next) : ~received[p]}
          /\ pc' = IF kept = {} THEN "overrun" ELSE "refill"
      BY <1>5 DEF Settle
    <2>2. /\ next \in next_unacked + 1 .. NumPackets
          /\ Passed(next) \subseteq Packets
          /\ kept # {} => next < packets_sent /\ Passed(next) \subseteq Sent
          /\ \A p \in Packets : p < next => p <= next_unacked \/ p \in Passed(next)
      BY <1>1, <1>5, LoopFacts
    <2> HIDE DEF next
    <2>3. /\ received' \in [Packets -> BOOLEAN]
          /\ \A p \in Packets : received'[p] <=> received[p] \/ p \in Passed(next)
          /\ num_outstanding' \in [Dests -> Int]
          /\ \A i \in Dests : num_outstanding'[i] <= num_outstanding[i]
          /\ Passed(next) \subseteq Sent =>
                 num_outstanding' \in [Dests -> Nat] /\ (pc' # "overrun" => OutstandingExact')
      BY <1>1, <2>1, <2>2, SettlePacketsEffect
    <2>4. pc' # "overrun" => kept # {}
      BY <2>1
    <2> HIDE DEF kept
    <2>5. OutstandingExact'
      BY <2>2, <2>3, <2>4 DEF OutstandingExact
    <2>6. TypeOK'
      BY <1>1, <1>2, <1>3, <1>4, <2>1, <2>2, <2>3, <2>4 DEF IInv, TypeOK
    <2>7. UnsentUntouched'
      BY <1>1, <1>2, <2>2, <2>3, <2>4 DEF IInv, UnsentUntouched
    <2>8. NextWithinSent'
      BY <1>1, <1>4, <2>1, <2>2, <2>4 DEF NextWithinSent
    <2>9. PrefixSettled'
      <3>1. ASSUME NEW p \in Packets, p < next
            PROVE  received'[p]
        <4>1. p \in Nat
          BY <1>4, <3>1 DEF Packets
        <4>2. CASE p < next_unacked
          BY <2>3, <4>2 DEF IInv, PrefixSettled
        <4>3. CASE p = next_unacked
          BY <1>5, <2>3, <4>3
        <4>4. CASE p > next_unacked
          BY <1>4, <2>2, <2>3, <3>1, <4>1, <4>4
        <4> QED
          BY <1>4, <4>1, <4>2, <4>3, <4>4
      <3> QED
        BY <2>1, <3>1 DEF PrefixSettled
    <2>10. ProbedBound'
      BY <1>1, <1>4, <2>3 DEF IInv, ProbedBound
    <2>11. ClocksOrdered'
      BY <1>1 DEF IInv, ClocksOrdered
    <2> QED
      BY <2>5, <2>6, <2>7, <2>8, <2>9, <2>10, <2>11 DEF IInv
  <1>6. CASE ~received[next_unacked]
    <2>1. pc' = "refill" /\ UNCHANGED <<next_unacked, received, num_outstanding, timedOut>>
      BY <1>6 DEF Settle
    <2>2. TypeOK'
      BY <1>1, <1>2, <1>3, <2>1 DEF IInv, TypeOK
    <2> QED
      BY <1>1, <1>2, <2>1, <2>2 DEF IInv, OutstandingExact, PrefixSettled, ClocksOrdered,
                                    UnsentUntouched, NextWithinSent, ProbedBound
  <1> QED
    BY <1>5, <1>6

\* What is sent to destination d in one turn of the loop over the windows.
LEMMA RefillFacts ==
    ASSUME IInv, Refill
    PROVE  /\ pc = "refill" /\ refilling \in Dests /\ Shortfall(refilling) \in 0 .. MaxOutstanding
           /\ pc' \in {"refill", "poll"} /\ refilling' \in Dests
           /\ UNCHANGED <<lossy, now, the_time, last_time, numextra, next_unacked, received, timedOut>>
           /\ packets_sent' \in 0 .. NumPackets /\ packets_sent' >= packets_sent
           /\ num_outstanding' \in [Dests -> Nat]
           /\ sent_time' \in [Packets -> {0} \union Epoch .. now]
           /\ dest' \in [Packets -> Dests]
           /\ net' \subseteq Sent'
           /\ OutstandingExact' /\ UnsentUntouched'
           /\ \A i \in Dests \ {refilling} : num_outstanding'[i] = num_outstanding[i]
           /\ LET sent == Cardinality(Burst(Shortfall(refilling)))
              IN  /\ sent \in 0 .. Shortfall(refilling)
                  /\ num_outstanding'[refilling] = num_outstanding[refilling] + sent
                  /\ packets_sent' < NumPackets => sent = Shortfall(refilling)
  <1> DEFINE n == Shortfall(refilling)
             to == [k \in 0 .. MaxOutstanding |-> refilling]
             To(i) == {p \in Burst(n) : to[p - packets_sent] = i}
  <1>1. /\ pc = "refill" /\ SendBurst(n, to)
        /\ IF refilling < numextra THEN refilling' = refilling + 1 /\ pc' = pc
                                   ELSE pc' = "poll" /\ refilling' = refilling
        /\ UNCHANGED <<lossy, now, the_time, last_time, numextra, next_unacked, received, timedOut>>
    BY DEF Refill
  <1>2. /\ refilling \in Dests /\ numextra \in Dests /\ num_outstanding \in [Dests -> Nat]
        /\ MaxOutstanding \in Nat /\ NumDests \in Nat /\ packets_sent \in 0 .. NumPackets
        /\ packets_sent \in Nat
    BY <1>1, OneWayAssumption DEF IInv, TypeOK
  <1>3. pc' \in {"refill", "poll"} /\ refilling' \in Dests
    BY <1>1, <1>2 DEF Dests
  <1>4. n \in 0 .. MaxOutstanding
    BY <1>2 DEF Shortfall
  <1> HIDE DEF n
  <1>5. \A k \in 0 .. n - 1 : to[k] = refilling
    BY <1>2, <1>4
  <1>6. /\ Burst(n) \subseteq Packets \ Sent
        /\ Cardinality(Burst(n)) \in 0 .. n
        /\ packets_sent + Cardinality(Burst(n)) < NumPackets => Cardinality(Burst(n)) = n
    BY <1>2, <1>4, BurstFacts
  <1>7. \A p \in Burst(n) : to[p - packets_sent] = refilling
    BY <1>2, <1>4, <1>5 DEF Burst, Packets
  <1> HIDE DEF to
  <1>8. /\ packets_sent' \in 0 .. NumPackets /\ packets_sent' >= packets_sent
        /\ packets_sent' = packets_sent + Cardinality(Burst(n))
        /\ num_outstanding' \in [Dests -> Nat]
        /\ sent_time' \in [Packets -> {0} \union Epoch .. now]
        /\ dest' \in [Packets -> Dests]
        /\ net' \subseteq Sent'
        /\ OutstandingExact' /\ UnsentUntouched'
        /\ \A i \in Dests : num_outstanding'[i] = num_outstanding[i] + Cardinality(To(i))
    BY <1>1, <1>2, <1>3, <1>4, <1>5, SendBurstEffect
  <1>9. To(refilling) = Burst(n) /\ \A i \in Dests \ {refilling} : To(i) = {}
    BY <1>7
  <1>10. \A i \in Dests \ {refilling} : Cardinality(To(i)) = 0
    BY <1>9, FS_EmptySet
  <1> HIDE DEF To
  <1>11. \A i \in Dests \ {refilling} : num_outstanding'[i] = num_outstanding[i]
    BY <1>2, <1>8, <1>10
  <1>12. num_outstanding'[refilling] = num_outstanding[refilling] + Cardinality(Burst(n))
    BY <1>2, <1>8, <1>9
  <1> QED
    BY <1>1, <1>2, <1>3, <1>4, <1>6, <1>8, <1>11, <1>12 DEF n

LEMMA RefillIInv ==
    ASSUME IInv, Refill
    PROVE  IInv'
  <1> DEFINE sent == Cardinality(Burst(Shortfall(refilling)))
  <1>1. /\ pc = "refill" /\ refilling \in Dests /\ Shortfall(refilling) \in 0 .. MaxOutstanding
        /\ pc' \in {"refill", "poll"} /\ refilling' \in Dests
        /\ UNCHANGED <<lossy, now, the_time, last_time, numextra, next_unacked, received, timedOut>>
        /\ packets_sent' \in 0 .. NumPackets /\ packets_sent' >= packets_sent
        /\ num_outstanding' \in [Dests -> Nat]
        /\ sent_time' \in [Packets -> {0} \union Epoch .. now]
        /\ dest' \in [Packets -> Dests]
        /\ net' \subseteq Sent'
        /\ OutstandingExact' /\ UnsentUntouched'
        /\ \A i \in Dests \ {refilling} : num_outstanding'[i] = num_outstanding[i]
        /\ sent \in 0 .. Shortfall(refilling)
        /\ num_outstanding'[refilling] = num_outstanding[refilling] + sent
    BY RefillFacts
  <1> HIDE DEF sent
  <1>2. TypeOK'
    BY <1>1 DEF IInv, TypeOK
  <1>3. NextWithinSent'
    BY <1>1, OneWayAssumption DEF IInv, TypeOK, NextWithinSent
  <1>4. ProbedBound'
    <2>1. /\ MaxOutstanding \in Nat /\ last_time - Epoch \in Nat
          /\ num_outstanding \in [Dests -> Int]
      BY OneWayAssumption DEF IInv, TypeOK, Epoch
    <2>2. num_outstanding'[refilling] <= MaxOutstanding + (last_time - Epoch)
      BY <1>1, <2>1 DEF IInv, ProbedBound, Shortfall
    <2> QED
      BY <1>1, <2>2 DEF IInv, ProbedBound
  <1>5. PrefixSettled' /\ ClocksOrdered'
    BY <1>1 DEF IInv, PrefixSettled, ClocksOrdered
  <1> QED
    BY <1>1, <1>2, <1>3, <1>4, <1>5 DEF IInv

\* What poll() and the reads after it take off the windows.
LEMMA PollFacts ==
    ASSUME IInv, NEW S \in SUBSET Packets, Poll(S)
    PROVE  /\ pc = "poll" /\ pc' = "top" /\ S \subseteq Sent
           /\ net' = net \ S
           /\ UNCHANGED <<lossy, now, the_time, last_time, numextra, packets_sent, next_unacked,
                          sent_time, dest, refilling, timedOut>>
           /\ received' \in [Packets -> BOOLEAN]
           /\ \A p \in Packets : received'[p] <=> received[p] \/ p \in S
           /\ num_outstanding' \in [Dests -> Nat]
           /\ \A i \in Dests : num_outstanding'[i] \in num_outstanding[i] - 1 .. num_outstanding[i]
           /\ OutstandingExact'
  <1> DEFINE Settled(i) == {p \in NewlySettled(S) : dest[p] = i}
  <1>1. /\ pc = "poll" /\ pc' = "top" /\ S \subseteq net /\ SettlePackets(S) /\ net' = net \ S
        /\ \A p, q \in S : p # q => dest[p] # dest[q]
        /\ UNCHANGED <<lossy, now, the_time, last_time, numextra, packets_sent, next_unacked,
                       sent_time, dest, refilling, timedOut>>
    BY DEF Poll
  <1>2. S \subseteq Sent /\ num_outstanding \in [Dests -> Nat]
    BY <1>1 DEF IInv, TypeOK
  <1>3. /\ received' \in [Packets -> BOOLEAN]
        /\ \A p \in Packets : received'[p] <=> received[p] \/ p \in S
        /\ \A i \in Dests : num_outstanding'[i] = num_outstanding[i] - Cardinality(Settled(i))
        /\ num_outstanding' \in [Dests -> Nat] /\ OutstandingExact'
    BY <1>1, <1>2, SettlePacketsEffect
  <1>4. \A i \in Dests : Cardinality(Settled(i)) \in 0 .. 1
    <2>1. ASSUME NEW i \in Dests
          PROVE  Cardinality(Settled(i)) \in 0 .. 1
      <3>1. Settled(i) \subseteq Packets /\ \A p, q \in Settled(i) : p = q
        BY <1>1 DEF NewlySettled
      <3>2. Cardinality(Settled(i)) \in Nat /\ Cardinality(Settled(i)) <= 1
        BY <3>1, AtMostOne, PacketsFinite
      <3> QED
        BY <3>2
    <2> QED
      BY <2>1
  <1> HIDE DEF Settled
  <1>5. \A i \in Dests : num_outstanding'[i] \in num_outstanding[i] - 1 .. num_outstanding[i]
    BY <1>2, <1>3, <1>4
  <1> QED
    BY <1>1, <1>2, <1>3, <1>5

LEMMA PollIInv ==
    ASSUME IInv, NEW S \in SUBSET Packets, Poll(S)
    PROVE  IInv'
  <1>1. /\ pc = "poll" /\ pc' = "top" /\ S \subseteq Sent
        /\ net' = net \ S
        /\ UNCHANGED <<lossy, now, the_time, last_time, numextra, packets_sent, next_unacked,
                       sent_time, dest, refilling, timedOut>>
        /\ received' \in [Packets -> BOOLEAN]
        /\ \A p \in Packets : received'[p] <=> received[p] \/ p \in S
        /\ num_outstanding' \in [Dests -> Nat]
        /\ \A i \in Dests : num_outstanding'[i] \in num_outstanding[i] - 1 .. num_outstanding[i]
        /\ OutstandingExact'
    BY PollFacts
  <1>2. Sent' = Sent
    BY <1>1 DEF Sent
  <1>3. TypeOK'
    BY <1>1, <1>2 DEF IInv, TypeOK
  <1>4. ProbedBound'
    <2>1. MaxOutstanding + (last_time - Epoch) \in Int /\ num_outstanding \in [Dests -> Int]
      BY OneWayAssumption DEF IInv, TypeOK, Epoch
    <2> QED
      BY <1>1, <2>1 DEF IInv, ProbedBound
  <1>5. PrefixSettled' /\ ClocksOrdered' /\ UnsentUntouched' /\ NextWithinSent'
    BY <1>1, <1>2 DEF IInv, PrefixSettled, ClocksOrdered, UnsentUntouched, NextWithinSent
  <1> QED
    BY <1>1, <1>3, <1>4, <1>5 DEF IInv

LEMMA NextIInv ==
    ASSUME IInv, [Next]_vars
    PROVE  IInv'
  <1>1. CASE UNCHANGED vars
    <2>1. Sent' = Sent /\ TypeOK'
      BY <1>1 DEF IInv, vars, loopVars, stats, Sent, TypeOK
    <2> QED
      BY <1>1, <2>1 DEF IInv, vars, loopVars, stats, OutstandingExact, PrefixSettled, ClocksOrdered,
                        UnsentUntouched, NextWithinSent, ProbedBound
  <1> QED
    BY <1>1, TickIInv, ReadClockIInv, ProbeIInv, SettleIInv, RefillIInv, PollIInv, LoseIInv DEF Next

\* IInv is an invariant.
THEOREM Invariance == Spec => []IInv
  <1>1. IInv /\ [Next]_vars => IInv'
    BY NextIInv
  <1> QED
    BY InitIInv, <1>1, PTL DEF Spec

-----------------------------------------------------------------------------
(* What follows from it.                                                   *)

\* num_outstanding is, for every destination, the number of packets sent to it
\* and neither received nor timed out, as long as the loop on next_unacked
\* (send1way.cc:121) stays within packetstats; and the state has its types.
THEOREM CountersCorrect == Spec => []CountersConsistent
  <1>1. IInv => CountersConsistent
    BY DEF IInv, CountersConsistent
  <1> QED
    BY Invariance, <1>1, PTL

\* Every packet before next_unacked is received or timed out.
THEOREM PrefixCorrect == Spec => []PrefixSettled
  <1>1. IInv => PrefixSettled
    BY DEF IInv
  <1> QED
    BY Invariance, <1>1, PTL

\* A window is exceeded by no more than the probes (send1way.cc:106), of which
\* there is one in each 100 ms.
THEOREM WindowBounded == Spec => []WindowBound
  <1>1. IInv => WindowBound
    <2> SUFFICES ASSUME IInv PROVE WindowBound
      OBVIOUS
    <2>1. /\ last_time \in Int /\ now \in Int /\ Epoch \in Int /\ last_time <= now
          /\ MaxOutstanding \in Int /\ num_outstanding \in [Dests -> Int]
      BY OneWayAssumption DEF IInv, TypeOK, Epoch
    <2> QED
      BY <2>1 DEF IInv, ProbedBound, WindowBound
  <1> QED
    BY Invariance, <1>1, PTL

-----------------------------------------------------------------------------
(* Why the loop stays within the packets sent while nothing times out.     *)

\* From the end of its refill until the loop settles packets again, a poll
\* that takes one packet included, the window of destination 0 is open by at
\* most one, unless packets ran out or nothing was received yet.
WindowZeroFull ==
    \/ packets_sent = NumPackets
    \/ pc \in {"top", "probe", "settle"} /\ num_outstanding[0] >= MaxOutstanding - 1
    \/ pc \in {"top", "probe", "settle"} /\ \A p \in Packets : ~received[p]
    \/ pc = "refill" /\ refilling = 0
    \/ pc \in {"refill", "poll"} /\ num_outstanding[0] >= MaxOutstanding
    \/ pc = "overrun"

OverrunInv == WindowZeroFull /\ OverrunNeedsTimeout

\* While a packet of destination 0 is outstanding, the loop on next_unacked
\* stops at it or times out a packet that was sent.
LEMMA SettleNeedsTimeout ==
    ASSUME IInv, OverrunInv, MaxOutstanding >= 2, Settle
    PROVE  OverrunNeedsTimeout'
  <1> DEFINE kept == {p \in Packets : p > next_unacked /\ ~received[p] /\ ~Expired(p)}
             next == IF kept = {} THEN NumPackets ELSE Min(kept)
  <1>0. pc = "settle" /\ packets_sent' = packets_sent /\ Sent' = Sent
    BY DEF Settle, Sent
  <1>1. /\ pc = "settle" /\ packets_sent' = packets_sent /\ Sent' = Sent
        /\ 0 \in Dests /\ MaxOutstanding \in Nat
        /\ packets_sent \in Nat /\ next_unacked \in Nat /\ NumPackets \in Nat
        /\ packets_sent <= NumPackets /\ next_unacked < NumPackets
        /\ num_outstanding \in [Dests -> Int]
    BY <1>0, OneWayAssumption DEF Dests, IInv, TypeOK, NextWithinSent
  <1> SUFFICES ASSUME next_unacked' > packets_sent PROVE timedOut' \cap Sent # {}
    BY <1>1 DEF OverrunNeedsTimeout
  <1>2. CASE ~received[next_unacked]
    <2>1. next_unacked' = next_unacked /\ timedOut' = timedOut
      BY <1>2 DEF Settle
    <2> QED
      BY <2>1 DEF OverrunInv, OverrunNeedsTimeout
  <1>3. CASE received[next_unacked]
    <2>1. /\ next_unacked' = next
          /\ timedOut' = timedOut \union {p \in Passed(next) : ~received[p]}
      BY <1>3 DEF Settle
    <2>2. kept # {} => next < packets_sent
      BY <1>1, <1>3, LoopFacts
    <2>3. kept = {} /\ next = NumPackets
      <3>1. next \in Int /\ next > packets_sent
        BY <1>1, <1>3, <2>1, LoopFacts
      <3> HIDE DEF next, kept
      <3>2. kept = {}
        BY <1>1, <2>2, <3>1
      <3> QED
        BY <3>2 DEF next
    <2>4. packets_sent # NumPackets
      BY <1>1, <2>1, <2>3
    <2>5. num_outstanding[0] >= 1
      <3>1. next_unacked \in Packets
        BY <1>1 DEF Packets
      <3> QED
        BY <1>1, <1>3, <2>4, <3>1 DEF OverrunInv, WindowZeroFull
    <2>6. PICK p \in Unsettled(0) : TRUE
      <3>1. Cardinality(Unsettled(0)) # 0
        BY <1>1, <2>5 DEF IInv, OutstandingExact, Unsettled
      <3> QED
        BY <3>1, FS_EmptySet
    <2>7. p \in Sent /\ p \in Packets /\ ~received[p]
      BY <1>1, <2>6 DEF Unsettled, Sent, Packets
    <2>8. p > next_unacked
      <3>1. ~(p < next_unacked) /\ p # next_unacked
        BY <1>3, <2>7 DEF IInv, PrefixSettled
      <3> QED
        BY <1>1, <2>7, <3>1 DEF Packets
    <2>9. p \in Passed(next)
      BY <1>1, <2>3, <2>7, <2>8 DEF Passed, Packets
    <2> QED
      BY <2>1, <2>7, <2>9
  <1> QED
    BY <1>2, <1>3

LEMMA NextOverrunInv ==
    ASSUME IInv, OverrunInv, MaxOutstanding >= 2, [Next]_vars
    PROVE  OverrunInv'
  <1>1. /\ packets_sent \in Nat /\ NumPackets \in Nat /\ packets_sent <= NumPackets
        /\ 0 \in Dests /\ MaxOutstanding \in Nat /\ NumDests \in Nat
        /\ next_unacked \in Nat /\ num_outstanding \in [Dests -> Int]
    BY OneWayAssumption DEF IInv, TypeOK, Dests
  <1>2. ASSUME packets_sent' \in Nat, packets_sent' >= packets_sent, next_unacked' = next_unacked,
               timedOut' = timedOut
        PROVE  OverrunNeedsTimeout'
    <2>1. Sent \subseteq Sent'
      BY <1>1, <1>2, IntervalGrows DEF Sent
    <2>2. next_unacked' > packets_sent' => next_unacked > packets_sent
      BY <1>1, <1>2
    <2> QED
      BY <1>2, <2>1, <2>2 DEF OverrunInv, OverrunNeedsTimeout
  <1>3. CASE Probe
    <2>1. /\ pc = "probe" /\ pc' = "settle" /\ received' = received
          /\ next_unacked' = next_unacked /\ timedOut' = timedOut
      BY <1>3 DEF Probe
    <2>2. /\ packets_sent' \in 0 .. NumPackets /\ packets_sent' >= packets_sent
          /\ num_outstanding'[0] >= num_outstanding[0]
      <3>1. CASE the_time # last_time
        <4> DEFINE to == [k \in Dests |-> k]
        <4>1. SendBurst(NumDests, to) /\ now' = now
          BY <1>3, <3>1 DEF Probe
        <4>2. \A k \in 0 .. NumDests - 1 : to[k] \in Dests
          BY DEF Dests
        <4> HIDE DEF to
        <4>3. /\ packets_sent' \in 0 .. NumPackets /\ packets_sent' >= packets_sent
              /\ \A i \in Dests : num_outstanding'[i] =
                   num_outstanding[i] + Cardinality({p \in Burst(NumDests) : to[p - packets_sent] = i})
          BY <1>1, <2>1, <4>1, <4>2, SendBurstEffect
        <4> DEFINE A == {p \in Burst(NumDests) : to[p - packets_sent] = 0}
        <4>4. Cardinality(A) \in Nat
          BY PacketsFinite DEF Burst
        <4>5. num_outstanding'[0] = num_outstanding[0] + Cardinality(A)
          BY <1>1, <4>3, Zenon
        <4>6. num_outstanding[0] \in Int
          BY <1>1
        <4> HIDE DEF A
        <4> QED
          BY <4>3, <4>4, <4>5, <4>6
      <3>2. CASE the_time = last_time
        BY <1>1, <1>3, <3>2 DEF Probe
      <3> QED
        BY <3>1, <3>2
    <2>3. OverrunNeedsTimeout'
      BY <1>1, <1>2, <2>1, <2>2
    <2>4. num_outstanding[0] \in Int /\ num_outstanding'[0] \in Int
      <3>1. IInv'
        BY <1>3, ProbeIInv
      <3> QED
        BY <1>1, <3>1 DEF IInv, TypeOK
    <2>5. WindowZeroFull'
      BY <1>1, <2>1, <2>2, <2>4 DEF OverrunInv, WindowZeroFull
    <2> QED
      BY <2>3, <2>5 DEF OverrunInv
  <1>4. CASE Settle
    <2>1. WindowZeroFull'
      BY <1>4 DEF Settle, WindowZeroFull
    <2> QED
      BY <1>4, <2>1, SettleNeedsTimeout DEF OverrunInv
  <1>5. CASE Refill
    <2> DEFINE n == Shortfall(refilling)
               sent == Cardinality(Burst(n))
    <2>1. /\ pc = "refill" /\ pc' \in {"refill", "poll"} /\ refilling \in Dests
          /\ next_unacked' = next_unacked /\ timedOut' = timedOut
          /\ packets_sent' \in 0 .. NumPackets /\ packets_sent' >= packets_sent
          /\ \A i \in Dests \ {refilling} : num_outstanding'[i] = num_outstanding[i]
          /\ sent \in 0 .. n
          /\ num_outstanding'[refilling] = num_outstanding[refilling] + sent
          /\ packets_sent' < NumPackets => sent = n
      BY <1>5, RefillFacts
    <2>2. OverrunNeedsTimeout'
      BY <1>1, <1>2, <2>1
    <2> HIDE DEF sent
    <2>3. WindowZeroFull'
      <3>1. CASE packets_sent' = NumPackets
        BY <3>1 DEF WindowZeroFull
      <3>2. CASE packets_sent' # NumPackets /\ refilling = 0
        <4>1. num_outstanding'[0] = num_outstanding[0] + Shortfall(0)
          BY <1>1, <2>1, <3>2
        <4>2. num_outstanding'[0] >= MaxOutstanding
          BY <1>1, <4>1 DEF Shortfall
        <4> QED
          BY <2>1, <4>2 DEF WindowZeroFull
      <3>3. CASE packets_sent' # NumPackets /\ refilling # 0
        <4>1. packets_sent # NumPackets
          BY <1>1, <2>1, <3>3
        <4>2. num_outstanding'[0] = num_outstanding[0] /\ num_outstanding[0] >= MaxOutstanding
          BY <1>1, <2>1, <3>3, <4>1 DEF OverrunInv, WindowZeroFull
        <4> QED
          BY <2>1, <4>2 DEF WindowZeroFull
      <3> QED
        BY <3>1, <3>2, <3>3
    <2> QED
      BY <2>2, <2>3 DEF OverrunInv
  <1>6. ASSUME NEW S \in SUBSET Packets, Poll(S)
        PROVE  OverrunInv'
    <2>1. /\ pc = "poll" /\ pc' = "top" /\ packets_sent' = packets_sent
          /\ next_unacked' = next_unacked /\ timedOut' = timedOut
          /\ num_outstanding' \in [Dests -> Nat]
          /\ \A i \in Dests : num_outstanding'[i] \in num_outstanding[i] - 1 .. num_outstanding[i]
      BY <1>6, PollFacts
    <2>2. OverrunNeedsTimeout'
      BY <1>1, <1>2, <2>1
    <2>3. WindowZeroFull'
      BY <1>1, <2>1 DEF OverrunInv, WindowZeroFull
    <2> QED
      BY <2>2, <2>3 DEF OverrunInv
  <1>7. CASE Tick \/ ReadClock \/ (\E p \in Packets : Lose(p)) \/ UNCHANGED vars
    <2>1. /\ UNCHANGED <<packets_sent, next_unacked, num_outstanding, received, refilling, timedOut>>
          /\ pc' = pc \/ (pc = "top" /\ pc' = "probe")
      BY <1>7 DEF Tick, ReadClock, Lose, vars, loopVars, stats
    <2>2. OverrunNeedsTimeout'
      BY <1>1, <1>2, <2>1
    <2>3. WindowZeroFull'
      BY <2>1 DEF OverrunInv, WindowZeroFull
    <2> QED
      BY <2>2, <2>3 DEF OverrunInv
  <1> QED
    BY <1>3, <1>4, <1>5, <1>6, <1>7 DEF Next

\* With windows of two packets or more the loop on next_unacked never leaves
\* the packets sent (send1way.cc:121) before it has timed out one of them.
THEOREM OverrunOnlyAfterTimeout ==
    ASSUME MaxOutstanding >= 2
    PROVE  Spec => []OverrunNeedsTimeout
  <1>1. Init => OverrunInv
    BY DEF Init, OverrunInv, WindowZeroFull, OverrunNeedsTimeout
  <1>2. IInv /\ OverrunInv /\ [Next]_vars => OverrunInv'
    BY NextOverrunInv
  <1>3. OverrunInv => OverrunNeedsTimeout
    BY DEF OverrunInv
  <1> QED
    BY Invariance, <1>1, <1>2, <1>3, PTL DEF Spec
=============================================================================
