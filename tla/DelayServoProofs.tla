-------------------------- MODULE DelayServoProofs --------------------------
(***************************************************************************)
(* Proofs about DelayServo for every rate, period, limit and purge step,   *)
(* any number of packets and any time: what the receiver reports is an     *)
(* exact sliding window, purges and back-offs happen for a reason, and the *)
(* numbers the receiver makes up are bounded.                              *)
(***************************************************************************)
EXTENDS DelayServo, FiniteSetTheorems, SequenceTheorems, WellFoundedInduction, TLAPS

-----------------------------------------------------------------------------
(* Numbers.                                                                *)

\* A quotient, by what it is multiplied with.
LEMMA Quotient ==
    ASSUME NEW a \in Nat, NEW d \in Nat \ {0}
    PROVE  a \div d \in Nat /\ d * (a \div d) <= a /\ a < d * (a \div d) + d
  OBVIOUS

\* Twice the larger factor is more than the larger product.
LEMMA ProductGrows ==
    ASSUME NEW d \in Nat, NEW p \in Int, NEW q \in Int, p <= q
    PROVE  d * p \in Int /\ d * q \in Int /\ d * p <= d * q
  OBVIOUS

\* Quotients grow, and by one at least when the dividend does by the divisor.
LEMMA QuotientGrows ==
    ASSUME NEW a \in Nat, NEW b \in Nat, NEW d \in Nat \ {0}, a <= b
    PROVE  /\ a \div d <= b \div d
           /\ a + d <= b => (a \div d) + 1 <= b \div d
  <1> DEFINE p == a \div d
             q == b \div d
  <1>1. p \in Nat /\ d * p <= a /\ a < d * p + d
    BY Quotient
  <1>2. q \in Nat /\ d * q <= b /\ b < d * q + d
    BY Quotient
  <1> HIDE DEF p, q
  <1>3. d * (q + 1) = d * q + d
    BY <1>2
  <1>4. p <= q
    <2>1. ASSUME q + 1 <= p
          PROVE  FALSE
      <3>1. d * (q + 1) <= d * p
        BY <1>1, <1>2, <2>1, ProductGrows
      <3> QED
        BY <1>1, <1>2, <1>3, <3>1
    <2> QED
      BY <1>1, <1>2, <2>1
  <1>5. ASSUME a + d <= b
        PROVE  p + 1 <= q
    <2>1. ASSUME q <= p
          PROVE  FALSE
      <3>1. d * q <= d * p
        BY <1>1, <1>2, <2>1, ProductGrows
      <3> QED
        BY <1>1, <1>2, <1>5, <3>1
    <2> QED
      BY <1>1, <1>2, <2>1
  <1> QED
    BY <1>4, <1>5 DEF p, q

\* An average is no larger than a bound of what it is the average of.
LEMMA AverageBound ==
    ASSUME NEW sum \in Nat, NEW n \in Nat \ {0}, NEW m \in Nat, sum <= n * m
    PROVE  sum \div n \in Nat /\ sum \div n <= m
  <1> DEFINE q == sum \div n
  <1>1. q \in Nat /\ n * q <= sum
    BY Quotient
  <1> HIDE DEF q
  <1>2. ASSUME m + 1 <= q
        PROVE  FALSE
    <2>1. n * (m + 1) <= n * q /\ n * (m + 1) = n * m + n
      BY <1>1, <1>2, ProductGrows
    <2> QED
      BY <1>1, <2>1
  <1> QED
    BY <1>1, <1>2 DEF q

(* Induction on natural numbers, by the least number that has a property.  *)

LEMMA LeastNumber ==
    ASSUME NEW T, T \subseteq Nat, T # {}
    PROVE  \E x \in T : \A y \in T : x <= y
  <1>1. PICK x \in T : \A y \in T : ~(<<y, x>> \in OpToRel(<, Nat))
    BY NatLessThanWellFounded, WFMin, Zenon
  <1>2. \A y \in T : ~(y < x)
    BY <1>1 DEF OpToRel
  <1> QED
    BY <1>2

\* A set of natural numbers that contains 0, and n + 1 with each n below N,
\* contains all numbers up to N.
LEMMA UpTo ==
    ASSUME NEW N \in Nat, NEW P, 0 \in P, \A n \in 0 .. N - 1 : n \in P => n + 1 \in P
    PROVE  0 .. N \subseteq P
  <1> DEFINE T == {n \in Nat : n <= N /\ n \notin P}
  <1>1. CASE T # {}
    <2>1. PICK m \in T : \A y \in T : m <= y
      BY <1>1, LeastNumber
    <2>2. m # 0 /\ m - 1 \in 0 .. N - 1 /\ m - 1 \notin T
      BY <2>1
    <2>3. m - 1 \in P
      BY <2>2
    <2>4. m - 1 + 1 \in P
      BY <2>2, <2>3
    <2> QED
      BY <2>1, <2>4
  <1> QED
    BY <1>1

-----------------------------------------------------------------------------
(* The latency of a window.                                                *)

Packet == [sent : Int, recv : Nat]

\* What get_latency() adds up before the n-th packet, for every n.
Sums(packets, n, g) ==
    g = [k \in 0 .. n |->
            IF k = 0 THEN 0
            ELSE g[k - 1] + (IF k \in Usable(packets) THEN Sample(packets[k]) ELSE 0)]

\* The loop of get_latency() has a result after any number of packets.
LEMMA SumsExist ==
    ASSUME NEW packets, NEW n \in Nat
    PROVE  \E g : Sums(packets, n, g)
  <1> DEFINE P == {m \in Nat : \E g : Sums(packets, m, g)}
             add(k) == IF k \in Usable(packets) THEN Sample(packets[k]) ELSE 0
  <1>1. 0 \in P
    <2>1. Sums(packets, 0, [k \in 0 .. 0 |-> 0])
      BY DEF Sums
    <2> QED
      BY <2>1
  <1>2. ASSUME NEW m \in 0 .. n - 1, m \in P
        PROVE  m + 1 \in P
    <2>1. PICK g : Sums(packets, m, g)
      BY <1>2
    <2>2. g = [k \in 0 .. m |-> IF k = 0 THEN 0 ELSE g[k - 1] + add(k)]
      BY <2>1 DEF Sums
    <2> HIDE DEF add
    <2> DEFINE h == [k \in 0 .. m + 1 |-> IF k = m + 1 THEN g[m] + add(m + 1) ELSE g[k]]
    <2>3. ASSUME NEW k \in 0 .. m + 1
          PROVE  h[k] = IF k = 0 THEN 0 ELSE h[k - 1] + add(k)
      <3>1. CASE k = m + 1
        BY <3>1
      <3>2. CASE k # m + 1
        <4>1. k \in 0 .. m /\ (k # 0 => k - 1 \in 0 .. m)
          BY <3>2
        <4>2. g[k] = IF k = 0 THEN 0 ELSE g[k - 1] + add(k)
          BY <2>2, <4>1
        <4>3. h[k] = g[k] /\ (k # 0 => h[k - 1] = g[k - 1])
          BY <3>2, <4>1
        <4> HIDE DEF h
        <4> QED
          BY <4>2, <4>3
      <3> QED
        BY <3>1, <3>2
    <2>4. h = [k \in 0 .. m + 1 |-> h[k]]
      OBVIOUS
    <2> HIDE DEF h
    <2>5. h = [k \in 0 .. m + 1 |-> IF k = 0 THEN 0 ELSE h[k - 1] + add(k)]
      BY <2>3, <2>4
    <2>6. Sums(packets, m + 1, h)
      BY <2>5 DEF Sums, add
    <2> QED
      BY <2>6
  <1> HIDE DEF P
  <1>3. 0 .. n \subseteq P
    BY <1>1, <1>2, UpTo
  <1> QED
    BY <1>3 DEF P

\* The samples added up are no more than as many times the largest of them.
LEMMA TotalBound ==
    ASSUME NEW packets \in Seq(Packet), NEW m \in Nat,
           \A i \in 1 .. Len(packets) : Sample(packets[i]) <= m
    PROVE  /\ TotalLatency(packets) \in Nat
           /\ TotalLatency(packets) <= Cardinality(Usable(packets)) * m
  <1> DEFINE n == Len(packets)
             U == Usable(packets)
             S == CHOOSE g : Sums(packets, n, g)
             size(k) == Cardinality(U \cap 1 .. k)
             P == {k \in 0 .. n : S[k] \in Nat /\ S[k] <= size(k) * m}
  <1>1. n \in Nat /\ U \subseteq 1 .. n
    BY DEF Usable
  <1>2. TotalLatency(packets) = S[n]
    BY DEF TotalLatency, Sums
  <1>3. Sums(packets, n, S)
    BY <1>1, SumsExist
  <1>4. \A k \in 0 .. n : S[k] = IF k = 0 THEN 0
                                 ELSE S[k - 1] + (IF k \in U THEN Sample(packets[k]) ELSE 0)
    BY <1>3 DEF Sums
  <1> HIDE DEF S, n
  <1>5. ASSUME NEW k \in U
        PROVE  Sample(packets[k]) \in Nat /\ Sample(packets[k]) <= m
    <2>1. k \in 1 .. Len(packets) /\ packets[k] \in Packet
      BY <1>1, <1>5 DEF n
    <2> QED
      BY <1>5, <2>1 DEF Usable, Sample, Packet
  <1> HIDE DEF U
  <1>6. 0 \in P
    <2>1. U \cap 1 .. 0 = {}
      OBVIOUS
    <2>2. size(0) = 0
      BY <2>1, FS_EmptySet
    <2>3. 0 \in 0 .. n /\ S[0] = 0
      BY <1>1, <1>4
    <2> HIDE DEF size
    <2>4. size(0) * m = 0
      BY <2>2
    <2> QED
      BY <2>3, <2>4
  <1>7. ASSUME NEW k \in 0 .. n - 1, k \in P
        PROVE  k + 1 \in P
    <2>1. k + 1 \in 0 .. n /\ k + 1 # 0 /\ (k + 1) - 1 = k /\ k \in Nat
      BY <1>1
    <2>2. S[k + 1] = S[k] + (IF k + 1 \in U THEN Sample(packets[k + 1]) ELSE 0)
      BY <1>4, <2>1
    <2>3. IsFiniteSet(1 .. k)
      BY <2>1, FS_Interval
    <2>4. IsFiniteSet(U \cap 1 .. k)
      BY <2>3, FS_Subset
    <2>5. size(k) \in Nat
      BY <2>4, FS_CardinalityType
    <2>6. S[k] \in Nat /\ S[k] <= size(k) * m
      BY <1>7
    <2>7. CASE k + 1 \in U
      <3>1. U \cap 1 .. (k + 1) = (U \cap 1 .. k) \cup {k + 1} /\ k + 1 \notin U \cap 1 .. k
        BY <2>1, <2>7
      <3>2. size(k + 1) = size(k) + 1
        BY <2>4, <3>1, FS_AddElement
      <3> HIDE DEF size
      <3>3. size(k + 1) * m = size(k) * m + m
        BY <2>5, <3>2
      <3>4. Sample(packets[k + 1]) \in Nat /\ Sample(packets[k + 1]) <= m
        BY <1>5, <2>7
      <3>5. size(k) * m \in Nat
        BY <2>5
      <3>6. S[k + 1] \in Nat /\ S[k + 1] <= size(k + 1) * m
        BY <2>2, <2>6, <2>7, <3>3, <3>4, <3>5
      <3> QED
        BY <2>1, <3>6
    <2>8. CASE k + 1 \notin U
      <3>1. U \cap 1 .. (k + 1) = U \cap 1 .. k
        BY <2>1, <2>8
      <3>2. size(k + 1) = size(k)
        BY <3>1
      <3> HIDE DEF size
      <3>3. S[k + 1] = S[k]
        BY <2>2, <2>6, <2>8
      <3> QED
        BY <2>1, <2>6, <3>2, <3>3
    <2> QED
      BY <2>7, <2>8
  <1>8. n \in P
    <2> HIDE DEF P
    <2>1. 0 .. n \subseteq P
      BY <1>1, <1>6, <1>7, UpTo
    <2> QED
      BY <1>1, <2>1
  <1>9. U \cap 1 .. n = U
    BY <1>1
  <1> QED
    BY <1>2, <1>8, <1>9 DEF U

\* What get_latency() reports: no latency, or an average no larger than any
\* bound of the samples.
LEMMA LatencyBound ==
    ASSUME NEW packets \in Seq(Packet), NEW m \in Nat,
           \A i \in 1 .. Len(packets) : Sample(packets[i]) <= m
    PROVE  Latency(packets) \in Int /\ NoLatency <= Latency(packets) /\ Latency(packets) <= m
  <1> DEFINE n == Cardinality(Usable(packets))
  <1>1. TotalLatency(packets) \in Nat /\ TotalLatency(packets) <= n * m
    BY TotalBound
  <1>2. n \in Nat
    <2>1. IsFiniteSet(1 .. Len(packets))
      BY FS_Interval
    <2>2. IsFiniteSet(Usable(packets))
      BY <2>1, FS_Subset DEF Usable
    <2> QED
      BY <2>2, FS_CardinalityType
  <1>3. CASE Len(packets) <= 2 \/ n < 2
    BY <1>3 DEF Latency, NoLatency
  <1>4. CASE ~(Len(packets) <= 2 \/ n < 2)
    <2>1. n # 0
      BY <1>2, <1>4
    <2>2. TotalLatency(packets) \div n \in Nat /\ TotalLatency(packets) \div n <= m
      BY <1>1, <1>2, <2>1, AverageBound
    <2>3. Latency(packets) = TotalLatency(packets) \div n
      BY <1>4 DEF Latency
    <2> QED
      BY <2>2, <2>3 DEF NoLatency
  <1> QED
    BY <1>3, <1>4

-----------------------------------------------------------------------------
(* The window.                                                             *)

InOrder(packets) ==
    \A i, j \in 1 .. Len(packets) : i < j => packets[i].recv <= packets[j].recv

\* housekeeping() takes off the front what has expired, and that is all that has.
LEMMA HousekeepTakes ==
    ASSUME NEW packets \in Seq(Packet), InOrder(packets), NEW t \in Nat
    PROVE  LET h == Housekeep(packets, t)
               n == Len(packets)
           IN  /\ h \in Seq(Packet)
               /\ \E k \in 0 .. n :
                      /\ Len(h) = n - k
                      /\ \A i \in 1 .. n - k : h[i] = packets[k + i]
                      /\ \A i \in 1 .. n : i <= k <=> Expired(packets[i], t)
  <1> DEFINE n == Len(packets)
             fresh == {i \in 1 .. n : ~Expired(packets[i], t)}
             first == CHOOSE i \in fresh : \A j \in fresh : i <= j
             h == Housekeep(packets, t)
  <1>1. n \in Nat
    OBVIOUS
  <1>2. CASE fresh = {}
    <2>1. h = <<>>
      BY <1>2 DEF Housekeep
    <2>2. \A i \in 1 .. n : Expired(packets[i], t)
      BY <1>2
    <2>3. /\ Len(h) = n - n
          /\ \A i \in 1 .. n - n : h[i] = packets[n + i]
          /\ \A i \in 1 .. n : i <= n <=> Expired(packets[i], t)
      BY <1>1, <2>1, <2>2
    <2>4. h \in Seq(Packet) /\ n \in 0 .. n
      BY <1>1, <2>1
    <2> HIDE DEF h, n
    <2> QED
      BY <2>3, <2>4 DEF h, n
  <1>3. CASE fresh # {}
    <2>1. \E i \in fresh : \A j \in fresh : i <= j
      <3>1. fresh \subseteq Nat
        OBVIOUS
      <3> HIDE DEF fresh
      <3> QED
        BY <1>3, <3>1, LeastNumber
    <2>2. first \in fresh /\ \A j \in fresh : first <= j
      BY <2>1
    <2>3. first \in 1 .. n /\ ~Expired(packets[first], t)
      BY <2>2
    <2>4. h = SubSeq(packets, first, n)
      BY <1>3 DEF Housekeep
    <2>5. \A i \in 1 .. n : i < first => Expired(packets[i], t)
      BY <2>2, <2>3
    <2> HIDE DEF first, fresh
    <2>6. ASSUME NEW i \in 1 .. n, first <= i
          PROVE  ~Expired(packets[i], t)
      <3>1. packets[first] \in Packet /\ packets[i] \in Packet
        BY <2>3
      <3>2. packets[first].recv <= packets[i].recv
        BY <2>3, <2>6, <3>1 DEF InOrder, Packet
      <3> QED
        BY <2>3, <3>1, <3>2, AveragingExtentAssumption DEF Expired, Packet
    <2> DEFINE k == first - 1
    <2>7. k \in 0 .. n /\ k + 1 = first
      BY <1>1, <2>3
    <2>8. /\ h \in Seq(Packet)
          /\ Len(h) = n - first + 1
          /\ \A i \in 1 .. n - first + 1 : h[i] = packets[first + i - 1]
      BY <1>1, <2>3, <2>4, SubSeqProperties
    <2>9. Len(h) = n - k
      BY <1>1, <2>3, <2>8
    <2>10. \A i \in 1 .. n - k : h[i] = packets[k + i]
      <3>1. ASSUME NEW i \in 1 .. n - k
            PROVE  h[i] = packets[k + i]
        <4>1. i \in 1 .. n - first + 1 /\ first + i - 1 = k + i
          BY <1>1, <2>3
        <4> QED
          BY <2>8, <4>1
      <3> QED
        BY <3>1
    <2>11. \A i \in 1 .. n : i <= k <=> Expired(packets[i], t)
      BY <1>1, <2>3, <2>5, <2>6
    <2> HIDE DEF h, n, k
    <2> QED
      BY <2>7, <2>8, <2>9, <2>10, <2>11 DEF h, n
  <1> QED
    BY <1>2, <1>3

\* The packets received from time t on are the last ones, all but c.
Cut(packets, t, c) ==
    \A i \in 1 .. Len(packets) : i > c <=> packets[i].recv >= t

\* Of the arrivals, those from time t on.
Since(S, t) == {a \in S : a[2] >= t}

\* The packets in the window from time t on are as many as arrived.
Counted(packets, S, t) ==
    \E c \in 0 .. Len(packets) : Cut(packets, t, c) /\ Len(packets) - c = Cardinality(Since(S, t))

\* What has not expired is still counted after housekeeping.
LEMMA HousekeepCounts ==
    ASSUME NEW packets \in Seq(Packet), InOrder(packets), NEW clock \in Nat, NEW S,
           NEW t \in Int, t >= clock - AveragingExtent, Counted(packets, S, t)
    PROVE  Counted(Housekeep(packets, clock), S, t)
  <1> DEFINE h == Housekeep(packets, clock)
             n == Len(packets)
  <1>1. PICK c \in 0 .. n : Cut(packets, t, c) /\ n - c = Cardinality(Since(S, t))
    BY DEF Counted
  <1>2. PICK k \in 0 .. n : /\ Len(h) = n - k
                            /\ \A i \in 1 .. n - k : h[i] = packets[k + i]
                            /\ \A i \in 1 .. n : i <= k <=> Expired(packets[i], clock)
    BY HousekeepTakes
  <1>3. n \in Nat
    OBVIOUS
  <1>4. k <= c
    <2>1. ASSUME c < k
          PROVE  FALSE
      <3>1. k \in 1 .. n /\ packets[k] \in Packet
        BY <1>1, <1>2, <1>3, <2>1
      <3>2. packets[k].recv >= t
        BY <1>1, <2>1, <3>1 DEF Cut
      <3>3. clock - packets[k].recv > AveragingExtent
        BY <1>2, <3>1 DEF Expired
      <3> QED
        BY <3>1, <3>2, <3>3, AveragingExtentAssumption DEF Packet
    <2> QED
      BY <1>1, <1>2, <2>1
  <1> HIDE DEF h
  <1> DEFINE e == c - k
  <1>5. e \in 0 .. Len(h) /\ Len(h) - e = n - c
    BY <1>1, <1>2, <1>3, <1>4
  <1>6. Cut(h, t, e)
    <2>1. ASSUME NEW i \in 1 .. Len(h)
          PROVE  i > e <=> h[i].recv >= t
      <3>1. h[i] = packets[k + i] /\ k + i \in 1 .. n
        BY <1>2, <1>3
      <3>2. k + i > c <=> packets[k + i].recv >= t
        BY <1>1, <3>1 DEF Cut
      <3>3. i > e <=> k + i > c
        BY <1>1, <1>2, <1>3
      <3> QED
        BY <3>1, <3>2, <3>3
    <2> QED
      BY <2>1 DEF Cut
  <1> HIDE DEF e
  <1> QED
    BY <1>1, <1>5, <1>6 DEF Counted, h

\* After housekeeping the length of the window is the number of recent arrivals.
LEMMA HousekeepExact ==
    ASSUME NEW packets \in Seq(Packet), InOrder(packets), NEW clock \in Nat, NEW S,
           Counted(packets, S, clock - AveragingExtent)
    PROVE  Len(Housekeep(packets, clock)) = Cardinality(Since(S, clock - AveragingExtent))
  <1> DEFINE h == Housekeep(packets, clock)
             n == Len(packets)
             t == clock - AveragingExtent
  <1>0. t \in Int /\ t >= clock - AveragingExtent /\ n \in Nat /\ AveragingExtent \in Nat
    BY AveragingExtentAssumption
  <1>1. Counted(h, S, t)
    BY <1>0, HousekeepCounts
  <1>2. h \in Seq(Packet)
    BY HousekeepTakes
  <1>3. PICK k \in 0 .. n : /\ Len(h) = n - k
                            /\ \A i \in 1 .. n - k : h[i] = packets[k + i]
                            /\ \A i \in 1 .. n : i <= k <=> Expired(packets[i], clock)
    BY HousekeepTakes
  <1> HIDE DEF h
  <1>4. PICK c \in 0 .. Len(h) : Cut(h, t, c) /\ Len(h) - c = Cardinality(Since(S, t))
    BY <1>1 DEF Counted
  <1>5. ASSUME c # 0
        PROVE  FALSE
    <2>1. c \in 1 .. Len(h) /\ Len(h) \in Nat
      BY <1>2, <1>4, <1>5
    <2>2. ~(h[c].recv >= t)
      BY <1>4, <2>1 DEF Cut
    <2>3. h[c] = packets[k + c] /\ k + c \in 1 .. n /\ k + c > k
      BY <1>0, <1>3, <2>1
    <2>4. ~Expired(packets[k + c], clock) /\ packets[k + c] \in Packet
      BY <1>3, <2>3
    <2> QED
      BY <1>0, <2>2, <2>3, <2>4 DEF Expired, Packet
  <1>6. Len(h) - 0 = Len(h)
    BY <1>2
  <1> QED
    BY <1>4, <1>5, <1>6 DEF h

\* A window that agrees with the arrivals in S: its packets are in the order they
\* came, each came when one in S did and no later than the clock, no sample is
\* above w, it is no longer than S is large, and what has not expired is counted.
Agrees(packets, clock, S, w) ==
    /\ packets \in Seq(Packet)
    /\ InOrder(packets)
    /\ \A i \in 1 .. Len(packets) : /\ packets[i].recv <= clock /\ Sample(packets[i]) <= w
                                    /\ \E a \in S : a[2] = packets[i].recv
    /\ Len(packets) <= Cardinality(S)
    /\ \A t \in Int : t >= clock - AveragingExtent => Counted(packets, S, t)

LEMMA HousekeepAgrees ==
    ASSUME NEW packets, NEW clock \in Nat, NEW S, IsFiniteSet(S), NEW w \in Int,
           Agrees(packets, clock, S, w)
    PROVE  /\ Agrees(Housekeep(packets, clock), clock, S, w)
           /\ Len(Housekeep(packets, clock)) = Cardinality(Since(S, clock - AveragingExtent))
  <1> DEFINE h == Housekeep(packets, clock)
             n == Len(packets)
  <1>1. packets \in Seq(Packet) /\ InOrder(packets) /\ n \in Nat
    BY DEF Agrees
  <1>2. h \in Seq(Packet)
    BY <1>1, HousekeepTakes
  <1>3. PICK k \in 0 .. n : /\ Len(h) = n - k
                            /\ \A i \in 1 .. n - k : h[i] = packets[k + i]
    BY <1>1, HousekeepTakes
  <1>4. \A t \in Int : t >= clock - AveragingExtent => Counted(h, S, t)
    BY <1>1, HousekeepCounts DEF Agrees
  <1>5. Len(h) = Cardinality(Since(S, clock - AveragingExtent))
    <2>1. Counted(packets, S, clock - AveragingExtent)
      BY AveragingExtentAssumption DEF Agrees
    <2> QED
      BY <1>1, <2>1, HousekeepExact
  <1> HIDE DEF h
  <1>6. ASSUME NEW i \in 1 .. Len(h)
        PROVE  h[i] = packets[k + i] /\ k + i \in 1 .. n
    BY <1>1, <1>3
  <1>7. InOrder(h)
    <2>1. ASSUME NEW i \in 1 .. Len(h), NEW j \in 1 .. Len(h), i < j
          PROVE  h[i].recv <= h[j].recv
      <3>1. k + i < k + j
        BY <1>3, <2>1
      <3> QED
        BY <1>1, <1>6, <3>1 DEF InOrder
    <2> QED
      BY <2>1 DEF InOrder
  <1>8. \A i \in 1 .. Len(h) : /\ h[i].recv <= clock /\ Sample(h[i]) <= w
                                /\ \E a \in S : a[2] = h[i].recv
    BY <1>6 DEF Agrees
  <1>9. Len(h) <= Cardinality(S)
    <2>1. Cardinality(S) \in Nat /\ n <= Cardinality(S)
      BY FS_CardinalityType DEF Agrees
    <2> DEFINE c == Cardinality(S)
    <2> HIDE DEF c, n
    <2> QED
      BY <1>1, <1>3, <2>1 DEF c
  <1>10. Agrees(h, clock, S, w)
    BY <1>2, <1>4, <1>7, <1>8, <1>9 DEF Agrees
  <1> QED
    BY <1>5, <1>10 DEF h

\* A packet that has just been read; it came after those read before.
LEMMA AppendAgrees ==
    ASSUME NEW packets, NEW clock \in Nat, NEW S, S \subseteq Nat \X Nat, IsFiniteSet(S),
           NEW w \in Int, NEW v \in Int, w <= v, Agrees(packets, clock, S, w),
           NEW p \in Packet, p.recv <= clock, Sample(p) <= v,
           NEW a \in Nat \X Nat, a \notin S, a[2] = p.recv, \A b \in S : b[2] <= a[2]
    PROVE  Agrees(Append(packets, p), clock, S \cup {a}, v)
  <1> DEFINE h == Append(packets, p)
             n == Len(packets)
             T == S \cup {a}
  <1>1. packets \in Seq(Packet) /\ InOrder(packets) /\ n \in Nat
    BY DEF Agrees
  <1>2. /\ h \in Seq(Packet) /\ Len(h) = n + 1
        /\ \A i \in 1 .. n : h[i] = packets[i]
        /\ h[n + 1] = p
    BY <1>1
  <1>3. Cardinality(T) = Cardinality(S) + 1 /\ Cardinality(S) \in Nat
    BY FS_AddElement, FS_CardinalityType
  <1>4. \A i \in 1 .. n : /\ packets[i] \in Packet /\ packets[i].recv <= clock
                           /\ Sample(packets[i]) <= w
                           /\ \E b \in S : b[2] = packets[i].recv
                           /\ packets[i].recv <= p.recv
    BY <1>1 DEF Agrees
  <1> HIDE DEF h, n
  <1>5. InOrder(h)
    <2>1. ASSUME NEW i \in 1 .. n + 1, NEW j \in 1 .. n + 1, i < j
          PROVE  h[i].recv <= h[j].recv
      <3>1. CASE j = n + 1
        <4>1. i \in 1 .. n /\ h[i] = packets[i] /\ h[j] = p
          BY <1>1, <1>2, <2>1, <3>1
        <4> QED
          BY <1>4, <4>1
      <3>2. CASE j # n + 1
        <4>1. i \in 1 .. n /\ j \in 1 .. n
          BY <1>1, <2>1, <3>2
        <4> QED
          BY <1>1, <1>2, <2>1, <4>1 DEF InOrder, n
      <3> QED
        BY <3>1, <3>2
    <2> QED
      BY <1>2, <2>1 DEF InOrder
  <1>6. ASSUME NEW i \in 1 .. Len(h)
        PROVE  /\ h[i].recv <= clock /\ Sample(h[i]) <= v /\ h[i].recv <= p.recv
               /\ \E b \in T : b[2] = h[i].recv
    <2>1. CASE i = n + 1
      BY <1>2, <2>1
    <2>2. CASE i # n + 1
      <3>1. i \in 1 .. n
        BY <1>1, <1>2, <2>2
      <3>2. /\ packets[i].recv <= clock /\ Sample(packets[i]) <= w /\ packets[i] \in Packet
            /\ packets[i].recv <= p.recv /\ \E b \in T : b[2] = packets[i].recv
        BY <1>4, <3>1
      <3>3. Sample(packets[i]) \in Int
        BY <3>2 DEF Sample, Packet
      <3> QED
        BY <1>2, <3>1, <3>2, <3>3
    <2> QED
      BY <2>1, <2>2
  <1>7. Len(h) <= Cardinality(T)
    <2>1. n <= Cardinality(S)
      BY DEF Agrees, n
    <2> QED
      BY <1>1, <1>2, <1>3, <2>1
  <1>8. ASSUME NEW t \in Int, t >= clock - AveragingExtent
        PROVE  Counted(h, T, t)
    <2>1. CASE t <= p.recv
      <3>1. PICK c \in 0 .. n : Cut(packets, t, c) /\ n - c = Cardinality(Since(S, t))
        BY <1>8 DEF Agrees, Counted, n
      <3>2. Since(T, t) = Since(S, t) \cup {a} /\ a \notin Since(S, t)
        BY <2>1 DEF Since
      <3>3. IsFiniteSet(Since(S, t))
        BY FS_Subset DEF Since
      <3>4. Cardinality(Since(T, t)) = Cardinality(Since(S, t)) + 1
        BY <3>2, <3>3, FS_AddElement
      <3>5. c \in 0 .. Len(h) /\ Len(h) - c = Cardinality(Since(T, t))
        BY <1>1, <1>2, <3>1, <3>4
      <3>6. Cut(h, t, c)
        <4>1. ASSUME NEW i \in 1 .. Len(h)
              PROVE  i > c <=> h[i].recv >= t
          <5>1. CASE i = n + 1
            BY <1>1, <1>2, <2>1, <3>1, <5>1
          <5>2. CASE i # n + 1
            <6>1. i \in 1 .. n
              BY <1>1, <1>2, <5>2
            <6> QED
              BY <1>2, <3>1, <6>1 DEF Cut, n
          <5> QED
            BY <5>1, <5>2
        <4> QED
          BY <4>1 DEF Cut
      <3> QED
        BY <3>5, <3>6 DEF Counted
    <2>2. CASE t > p.recv
      <3>1. Since(T, t) = {}
        <4>1. ASSUME NEW b \in T
              PROVE  ~(b[2] >= t)
          <5>1. b \in Nat \X Nat /\ b[2] <= p.recv
            OBVIOUS
          <5> QED
            BY <2>2, <5>1
        <4> QED
          BY <4>1 DEF Since
      <3>2. Cardinality(Since(T, t)) = 0
        BY <3>1, FS_EmptySet
      <3>3. Cut(h, t, n + 1)
        <4>1. ASSUME NEW i \in 1 .. Len(h)
              PROVE  i > n + 1 <=> h[i].recv >= t
          <5>1. h[i].recv <= p.recv /\ h[i] \in Packet
            BY <1>2, <1>6
          <5> QED
            BY <1>1, <1>2, <2>2, <5>1 DEF Packet
        <4> QED
          BY <4>1 DEF Cut
      <3>4. n + 1 \in 0 .. Len(h) /\ Len(h) - (n + 1) = 0
        BY <1>1, <1>2
      <3> QED
        BY <3>2, <3>3, <3>4 DEF Counted
    <2> QED
      BY <2>1, <2>2
  <1> QED
    BY <1>2, <1>5, <1>6, <1>7, <1>8 DEF Agrees, h

\* The clock goes on.
LEMMA TickAgrees ==
    ASSUME NEW packets, NEW clock \in Nat, NEW S, NEW w, Agrees(packets, clock, S, w)
    PROVE  Agrees(packets, clock + 1, S, w)
  <1>1. \A i \in 1 .. Len(packets) : /\ packets[i].recv <= clock + 1 /\ Sample(packets[i]) <= w
                                      /\ \E a \in S : a[2] = packets[i].recv
    <2>1. ASSUME NEW i \in 1 .. Len(packets)
          PROVE  /\ packets[i].recv <= clock + 1 /\ Sample(packets[i]) <= w
                 /\ \E a \in S : a[2] = packets[i].recv
      <3>1. /\ packets[i] \in Packet /\ packets[i].recv <= clock /\ Sample(packets[i]) <= w
            /\ \E a \in S : a[2] = packets[i].recv
        BY DEF Agrees
      <3> QED
        BY <3>1 DEF Packet
    <2> QED
      BY <2>1
  <1>2. \A t \in Int : t >= (clock + 1) - AveragingExtent => t >= clock - AveragingExtent
    BY AveragingExtentAssumption
  <1> QED
    BY <1>1, <1>2 DEF Agrees

-----------------------------------------------------------------------------
(* Queues of numbered packets.                                             *)

Increasing(s) == \A i, j \in 1 .. Len(s) : i < j => s[i].seq < s[j].seq

\* What is left of a queue when its first packet is gone.
LEMMA TailOf ==
    ASSUME NEW T, NEW s \in Seq(T), s # <<>>
    PROVE  /\ Head(s) = s[1] /\ s[1] \in T /\ 1 \in 1 .. Len(s)
           /\ Tail(s) \in Seq(T) /\ Len(Tail(s)) = Len(s) - 1
           /\ \A i \in 1 .. Len(Tail(s)) : /\ i + 1 \in 1 .. Len(s)
                                           /\ Tail(s)[i] = s[i + 1]
                                           /\ Tail(s)[i] \in T
  <1> DEFINE r == Tail(s)
  <1>1. Len(s) \in Nat /\ Len(s) >= 1
    OBVIOUS
  <1>2. Head(s) = s[1] /\ r \in Seq(T) /\ Len(r) = Len(s) - 1 /\ \A i \in 1 .. Len(r) : r[i] = s[i + 1]
    BY <1>1
  <1> HIDE DEF r
  <1>3. 1 \in 1 .. Len(s) /\ s[1] \in T
    BY <1>1
  <1>4. \A i \in 1 .. Len(r) : i + 1 \in 1 .. Len(s) /\ r[i] = s[i + 1] /\ r[i] \in T
    BY <1>1, <1>2
  <1> QED
    BY <1>2, <1>3, <1>4 DEF r

LEMMA TailIncreasing ==
    ASSUME NEW T, NEW s \in Seq(T), s # <<>>, Increasing(s)
    PROVE  /\ Increasing(Tail(s))
           /\ \A i \in 1 .. Len(Tail(s)) : s[1].seq < Tail(s)[i].seq
  <1> DEFINE r == Tail(s)
  <1>1. 1 \in 1 .. Len(s) /\ \A i \in 1 .. Len(r) : i + 1 \in 1 .. Len(s) /\ r[i] = s[i + 1]
    BY TailOf
  <1> HIDE DEF r
  <1>2. ASSUME NEW i \in 1 .. Len(r), NEW j \in 1 .. Len(r), i < j
        PROVE  r[i].seq < r[j].seq
    <2>1. i + 1 < j + 1
      BY <1>2
    <2> QED
      BY <1>1, <2>1 DEF Increasing
  <1>3. ASSUME NEW i \in 1 .. Len(r)
        PROVE  s[1].seq < r[i].seq
    <2>1. 1 < i + 1
      OBVIOUS
    <2> QED
      BY <1>1, <2>1 DEF Increasing
  <1> QED
    BY <1>2, <1>3 DEF Increasing, r

\* A queue with one more packet.
LEMMA AppendTo ==
    ASSUME NEW T, NEW s \in Seq(T), NEW p \in T
    PROVE  /\ Append(s, p) \in Seq(T) /\ Len(Append(s, p)) = Len(s) + 1 /\ Len(s) \in Nat
           /\ \A i \in 1 .. Len(s) : Append(s, p)[i] = s[i] /\ s[i] \in T
           /\ Append(s, p)[Len(s) + 1] = p
           /\ \A i \in 1 .. Len(Append(s, p)) : i \in 1 .. Len(s) \/ i = Len(s) + 1
  OBVIOUS

LEMMA AppendIncreasing ==
    ASSUME NEW T, NEW s \in Seq(T), Increasing(s), NEW p \in T,
           \A i \in 1 .. Len(s) : s[i].seq < p.seq
    PROVE  Increasing(Append(s, p))
  <1> DEFINE r == Append(s, p)
             n == Len(s)
  <1>1. /\ Len(r) = n + 1 /\ n \in Nat /\ r[n + 1] = p
        /\ \A i \in 1 .. n : r[i] = s[i]
        /\ \A i \in 1 .. Len(r) : i \in 1 .. n \/ i = n + 1
    BY AppendTo
  <1> HIDE DEF r
  <1>2. ASSUME NEW i \in 1 .. Len(r), NEW j \in 1 .. Len(r), i < j
        PROVE  r[i].seq < r[j].seq
    <2>1. i \in 1 .. n /\ r[i] = s[i]
      BY <1>1, <1>2
    <2>2. CASE j = n + 1
      BY <1>1, <2>1, <2>2
    <2>3. CASE j \in 1 .. n
      BY <1>1, <1>2, <2>1, <2>3 DEF Increasing
    <2> QED
      BY <1>1, <2>2, <2>3
  <1> QED
    BY <1>2 DEF Increasing, r

-----------------------------------------------------------------------------
(* The inductive invariant.                                                *)

DataPacket   == [seq : Nat, sent : Int]
SocketPacket == [seq : Nat, sent : Int, recv : Nat]

SenderRates == {BackoffRate} \union
                   MinimumTxRate .. Larger(MinimumTxRate, 2 * Larger(MaxSent, EmptyRate))

Fields ==
    /\ now \in Nat /\ now <= MaxTime
    /\ skew \in Int /\ -MaxSkew <= skew /\ skew <= MaxSkew
    /\ packets_sent \in Nat /\ packets_sent <= MaxSent
    /\ current_rate \in SenderRates
    /\ data \in Seq(DataPacket) /\ socket \in Seq(SocketPacket)
    /\ pass \in {"tick", "poll"}
    /\ fb_next \in Nat /\ reported \in Nat /\ left \in Nat
    /\ worst \in Nat /\ worst <= now
    /\ last_stat \in Nat /\ last_stat <= now
    /\ max_rx_seq_no \in Nat
    /\ taken \subseteq Nat \X Nat /\ IsFiniteSet(taken)

\* A packet in the queue at time t: sent, and not in the future.
Sent(p, t) == p.seq < packets_sent /\ skew <= p.sent /\ p.sent <= t + skew

\* The link and the socket keep the packets in the order of their numbers.
QueueInv ==
    /\ \A i \in 1 .. Len(data) : Sent(data[i], now)
    /\ \A i \in 1 .. Len(socket) : Sent(socket[i], now) /\ socket[i].recv <= now
    /\ Increasing(data) /\ Increasing(socket)
    /\ \A i \in 1 .. Len(socket) : \A j \in 1 .. Len(data) : socket[i].seq < data[j].seq
    /\ \A i, j \in 1 .. Len(socket) : i < j => socket[i].recv <= socket[j].recv

\* What has been read came before what waits, in the socket or in the link; the
\* receiver has noted when it last read, and so knows of what was behind it then.
TakenInv ==
    /\ \A a \in taken : a[1] < packets_sent /\ a[2] <= last_stat
    /\ \A a \in taken : \A i \in 1 .. Len(data) : a[1] < data[i].seq
    /\ \A a \in taken : \A i \in 1 .. Len(socket) : a[1] < socket[i].seq /\ a[2] <= socket[i].recv
    /\ left <= Len(socket)
    /\ \A i \in 1 .. left : socket[i].recv <= last_stat

\* No packet is in two places.
CountInv == Cardinality(taken) + Len(socket) + Len(data) <= packets_sent

\* The window agrees with what has been read.
WindowInv == Agrees(history, now, taken, worst - skew)

\* A feedback in flight tells what was so, or is empty.
Truthful(f) ==
    /\ f.rate \in 1 .. Larger(MaxSent, EmptyRate)
    /\ f.latency \in NoLatency .. MaxTime + MaxSkew
    /\ f.latency <= Larger(0, worst - skew)

FeedbackInv ==
    /\ IsFiniteSet(feedbacks) /\ Cardinality(feedbacks) <= MaxFeedback
    /\ \A f \in feedbacks : f \in [rate : Int, latency : Int] /\ Truthful(f)

\* Active purges make up PurgeStep numbers in each SilenceLimit of time, counted
\* up to the last read or purge.
BudgetInv ==
    max_rx_seq_no <= packets_sent + PurgeStep * (last_stat \div (SilenceLimit + 1))

IInv == Fields /\ QueueInv /\ TakenInv /\ CountInv /\ WindowInv /\ FeedbackInv /\ BudgetInv

\* What the assumptions say of each constant.
LEMMA Constants ==
    /\ MaxTime \in Nat /\ MaxSent \in Nat /\ MaxFeedback \in Nat /\ SilenceLimit \in Nat
    /\ LatencyLimit \in Nat \ {0} /\ MaxSkew \in Nat
    /\ BackoffRate \in Nat \ {0} /\ MinimumTxRate \in Nat \ {0} /\ FeedbackPeriod \in Nat \ {0}
    /\ PurgeStep \in Nat \ {0} /\ BackoffRate < MinimumTxRate
    /\ AveragingExtent \in Nat \ {0} /\ EmptyRate \in Nat \ {0}
    /\ Larger(MaxSent, EmptyRate) \in Nat
  BY ServoAssumption, AveragingExtentAssumption, EmptyRateAssumption DEF Larger

LEMMA InitIInv == Init => IInv
  <1> SUFFICES ASSUME Init PROVE IInv
    OBVIOUS
  <1>1. /\ IsFiniteSet({}) /\ Cardinality({}) = 0
        /\ now = 0 /\ packets_sent = 0 /\ current_rate = BackoffRate /\ data = <<>> /\ socket = <<>>
        /\ fb_next = 0 /\ reported = 0 /\ worst = 0 /\ last_stat = 0 /\ max_rx_seq_no = 0
        /\ left = 0 /\ pass = "tick" /\ skew \in -MaxSkew .. MaxSkew
        /\ taken = {} /\ feedbacks = {} /\ history = <<>>
    BY FS_EmptySet DEF Init, HistInit, RateInit
  <1>2. Fields
    BY <1>1, Constants DEF Fields, SenderRates
  <1>3. QueueInv /\ TakenInv /\ CountInv
    BY <1>1 DEF QueueInv, TakenInv, CountInv, Increasing
  <1>4. FeedbackInv
    BY <1>1, Constants DEF FeedbackInv
  <1>5. BudgetInv
    <2>1. 0 \div (SilenceLimit + 1) \in Nat
      BY Constants, Quotient
    <2> DEFINE q == 0 \div (SilenceLimit + 1)
    <2> HIDE DEF q
    <2>2. PurgeStep * q \in Nat
      BY <2>1, Constants DEF q
    <2> QED
      BY <1>1, <2>2 DEF BudgetInv, q
  <1>6. WindowInv
    <2>1. ASSUME NEW t \in Int
          PROVE  Counted(<<>>, {}, t)
      <3>1. Since({}, t) = {}
        BY DEF Since
      <3>2. Cut(<<>>, t, 0)
        BY DEF Cut
      <3> QED
        <4>1. Len(<<>>) = 0 /\ 0 \in 0 .. 0 /\ 0 - 0 = 0
          OBVIOUS
        <4>2. Cardinality(Since({}, t)) = 0
          BY <1>1, <3>1
        <4>3. 0 \in 0 .. Len(<<>>) /\ Len(<<>>) - 0 = Cardinality(Since({}, t))
          BY <4>1, <4>2
        <4> QED
          BY <3>2, <4>3 DEF Counted
    <2>2. InOrder(<<>>) /\ <<>> \in Seq(Packet) /\ Len(<<>>) = 0
      BY DEF InOrder
    <2> QED
      BY <1>1, <2>1, <2>2 DEF WindowInv, Agrees
  <1> QED
    BY <1>2, <1>3, <1>4, <1>5, <1>6 DEF IInv

LEMMA TickIInv ==
    ASSUME IInv, Tick
    PROVE  IInv'
  <1> USE DEF IInv
  <1>1. /\ now' = now + 1 /\ now < MaxTime
        /\ UNCHANGED <<skew, packets_sent, current_rate, data, socket, pass, fb_next, reported, left,
                       worst, last_stat, max_rx_seq_no, taken, feedbacks, history>>
    BY DEF Tick, senderVars, receiverVars, histVars, linkVars, ghostVars
  <1>2. Fields'
    BY <1>1, Constants DEF Fields
  <1>3. QueueInv'
    <2>1. ASSUME NEW i \in 1 .. Len(data)
          PROVE  Sent(data[i], now)'
      <3>1. data[i] \in DataPacket /\ Sent(data[i], now)
        BY DEF Fields, QueueInv
      <3> QED
        BY <1>1, <3>1 DEF Fields, DataPacket, Sent
    <2>2. ASSUME NEW i \in 1 .. Len(socket)
          PROVE  Sent(socket[i], now)' /\ socket[i].recv <= now + 1
      <3>1. socket[i] \in SocketPacket /\ Sent(socket[i], now) /\ socket[i].recv <= now
        BY DEF Fields, QueueInv
      <3> QED
        BY <1>1, <3>1 DEF Fields, SocketPacket, Sent
    <2> QED
      BY <1>1, <2>1, <2>2 DEF QueueInv, Increasing
  <1>4. WindowInv'
    BY <1>1, TickAgrees DEF WindowInv, Fields
  <1>5. TakenInv' /\ CountInv' /\ FeedbackInv' /\ BudgetInv'
    BY <1>1 DEF TakenInv, CountInv, FeedbackInv, Truthful, BudgetInv
  <1> QED
    BY <1>2, <1>3, <1>4, <1>5

LEMMA SenderTickIInv ==
    ASSUME IInv, SenderTick
    PROVE  IInv'
  <1> USE DEF IInv
  <1> DEFINE p == [seq |-> packets_sent, sent |-> now + skew]
             n == Len(data)
  <1>1. /\ packets_sent' = packets_sent + 1 /\ packets_sent < MaxSent
        /\ data' = Append(data, p)
        /\ UNCHANGED <<now, skew, current_rate, socket, pass, fb_next, reported, left, worst,
                       last_stat, max_rx_seq_no, taken, feedbacks, history>>
    BY DEF SenderTick, receiverVars, histVars, ghostVars
  <1>2. p \in DataPacket /\ data \in Seq(DataPacket) /\ n \in Nat
    BY Constants DEF Fields, DataPacket
  <1>3. /\ data' \in Seq(DataPacket) /\ Len(data') = n + 1
        /\ \A i \in 1 .. n : data'[i] = data[i]
        /\ data'[n + 1] = p
        /\ \A i \in 1 .. Len(data') : i \in 1 .. n \/ i = n + 1
    BY <1>1, <1>2, AppendTo
  <1>4. p.seq = packets_sent /\ p.sent = now + skew /\ packets_sent \in Nat
    BY DEF Fields
  <1>5. Fields'
    BY <1>1, <1>3, Constants DEF Fields
  <1>6. /\ \A i \in 1 .. n : data[i] \in DataPacket /\ Sent(data[i], now)
        /\ \A i \in 1 .. Len(socket) : socket[i] \in SocketPacket /\ Sent(socket[i], now)
    BY <1>2 DEF QueueInv, Fields
  <1>7. p.seq < packets_sent + 1 /\ skew <= p.sent /\ p.sent <= now + skew
    BY <1>4 DEF Fields
  <1>8. \A i \in 1 .. n : data[i].seq < p.seq
    BY <1>4, <1>6 DEF Sent
  <1>9. Increasing(data')
    BY <1>1, <1>2, <1>8, AppendIncreasing DEF QueueInv
  <1> HIDE DEF p, n
  <1>10. QueueInv'
    <2>1. ASSUME NEW i \in 1 .. Len(data')
          PROVE  Sent(data[i], now)'
      <3>1. CASE i = n + 1
        BY <1>1, <1>3, <1>7, <3>1 DEF Sent
      <3>2. CASE i \in 1 .. n
        <4>1. data'[i] = data[i] /\ data[i] \in DataPacket /\ Sent(data[i], now)
          BY <1>3, <1>6, <3>2
        <4> QED
          BY <1>1, <1>4, <4>1 DEF Sent, DataPacket
      <3> QED
        BY <1>3, <2>1, <3>1, <3>2
    <2>2. ASSUME NEW i \in 1 .. Len(socket)
          PROVE  Sent(socket[i], now)' /\ \A j \in 1 .. Len(data') : socket[i].seq < data'[j].seq
      <3>1. socket[i] \in SocketPacket /\ Sent(socket[i], now)
        BY <1>6
      <3>2. Sent(socket[i], now)'
        BY <1>1, <1>4, <3>1 DEF Sent, SocketPacket
      <3>3. socket[i].seq < p.seq
        BY <1>4, <3>1 DEF Sent
      <3> QED
        BY <1>3, <3>2, <3>3 DEF QueueInv, n
    <2> QED
      BY <1>1, <1>9, <2>1, <2>2 DEF QueueInv
  <1>11. TakenInv'
    <2>1. ASSUME NEW a \in taken
          PROVE  a[1] < packets_sent + 1 /\ \A i \in 1 .. Len(data') : a[1] < data'[i].seq
      <3>1. a[1] \in Nat /\ a[1] < packets_sent
        BY DEF Fields, TakenInv
      <3> QED
        BY <1>3, <1>4, <3>1 DEF TakenInv, n
    <2> QED
      BY <1>1, <2>1 DEF TakenInv
  <1>12. CountInv'
    <2>1. /\ Cardinality(taken) \in Nat /\ Len(socket) \in Nat
          /\ Cardinality(taken) + Len(socket) + n <= packets_sent
      BY FS_CardinalityType DEF Fields, CountInv, n
    <2> QED
      BY <1>1, <1>2, <1>3, <1>4, <2>1 DEF CountInv
  <1>13. WindowInv' /\ FeedbackInv'
    BY <1>1 DEF WindowInv, FeedbackInv, Truthful
  <1>14. BudgetInv'
    <2>1. last_stat \div (SilenceLimit + 1) \in Nat
      BY Constants, Quotient DEF Fields
    <2> DEFINE q == last_stat \div (SilenceLimit + 1)
    <2>2. BudgetInv' <=> max_rx_seq_no <= packets_sent + 1 + PurgeStep * q
      BY <1>1 DEF BudgetInv
    <2>3. max_rx_seq_no <= packets_sent + PurgeStep * q
      BY DEF BudgetInv
    <2> HIDE DEF q
    <2>4. PurgeStep * q \in Nat
      BY <2>1, Constants DEF q
    <2> QED
      BY <2>2, <2>3, <2>4 DEF Fields
  <1> QED
    BY <1>5, <1>10, <1>11, <1>12, <1>13, <1>14

\* One feedback less in flight.
LEMMA FeedbackGone ==
    ASSUME FeedbackInv, NEW f, feedbacks' = feedbacks \ {f}, UNCHANGED <<worst, skew>>
    PROVE  FeedbackInv'
  <1>1. IsFiniteSet(feedbacks') /\ Cardinality(feedbacks') <= Cardinality(feedbacks)
    BY FS_Subset DEF FeedbackInv
  <1>2. Cardinality(feedbacks') \in Nat /\ Cardinality(feedbacks) \in Nat
    BY <1>1, FS_CardinalityType DEF FeedbackInv
  <1>3. Cardinality(feedbacks') <= MaxFeedback
    BY <1>1, <1>2, Constants DEF FeedbackInv
  <1> QED
    BY <1>1, <1>3 DEF FeedbackInv, Truthful

LEMMA SenderRecvIInv ==
    ASSUME IInv, NEW f \in feedbacks, SenderRecv(f)
    PROVE  IInv'
  <1> USE DEF IInv
  <1>1. /\ feedbacks' = feedbacks \ {f} /\ current_rate' = RateFor(f)
        /\ UNCHANGED <<now, skew, packets_sent, data, socket, pass, fb_next, reported, left, worst,
                       last_stat, max_rx_seq_no, taken, history>>
    BY DEF SenderRecv, receiverVars, histVars, ghostVars
  <1>2. RateFor(f) \in SenderRates
    <2> DEFINE top == Larger(MaxSent, EmptyRate)
    <2>1. f.rate \in 1 .. top /\ top \in Nat
      BY Constants DEF FeedbackInv, Truthful
    <2>2. SenderRates = {BackoffRate} \union MinimumTxRate .. Larger(MinimumTxRate, 2 * top)
      BY DEF SenderRates
    <2> HIDE DEF top
    <2> QED
      BY <2>1, <2>2, Constants DEF RateFor, Larger
  <1>3. Fields'
    BY <1>1, <1>2 DEF Fields, SenderRates
  <1>4. QueueInv' /\ TakenInv' /\ CountInv' /\ WindowInv' /\ BudgetInv'
    BY <1>1 DEF QueueInv, Sent, Increasing, TakenInv, CountInv, WindowInv, BudgetInv
  <1>5. FeedbackInv'
    BY <1>1, FeedbackGone
  <1> QED
    BY <1>3, <1>4, <1>5

\* The packet at the head of the link is stamped and waits behind the others.
LEMMA ArriveIInv ==
    ASSUME IInv, Arrive
    PROVE  /\ IInv'
           /\ Head(data).seq \in 0 .. MaxSent - 1
           /\ Unread' = Unread \union {<<Head(data).seq, now>>}
  <1> USE DEF IInv
  <1> DEFINE head == Head(data)
             p == [seq |-> head.seq, sent |-> head.sent, recv |-> now]
             r == Tail(data)
             n == Len(socket)
  <1>1. /\ data # <<>> /\ data' = r /\ socket' = Append(socket, p)
        /\ UNCHANGED <<now, skew, packets_sent, current_rate, pass, fb_next, reported, left, worst,
                       last_stat, max_rx_seq_no, taken, feedbacks, history>>
    BY DEF Arrive, senderVars, receiverVars, histVars, ghostVars
  <1>2. data \in Seq(DataPacket) /\ socket \in Seq(SocketPacket)
    BY DEF Fields
  <1>3. /\ head = data[1] /\ head \in DataPacket /\ 1 \in 1 .. Len(data)
        /\ r \in Seq(DataPacket) /\ Len(r) = Len(data) - 1
        /\ \A i \in 1 .. Len(r) : i + 1 \in 1 .. Len(data) /\ r[i] = data[i + 1] /\ r[i] \in DataPacket
        /\ Increasing(r) /\ \A i \in 1 .. Len(r) : head.seq < r[i].seq
    BY <1>1, <1>2, TailOf, TailIncreasing DEF QueueInv
  <1>4. /\ now \in Nat /\ packets_sent \in Nat /\ packets_sent <= MaxSent
        /\ last_stat \in Nat /\ last_stat <= now /\ left \in Nat
        /\ taken \subseteq Nat \X Nat /\ IsFiniteSet(taken)
    BY DEF Fields
  <1>5. Sent(head, now)
    BY <1>3 DEF QueueInv
  <1> HIDE DEF head, r
  <1>6. /\ p \in SocketPacket /\ p.seq = head.seq /\ p.recv = now /\ p.sent = head.sent
        /\ Sent(p, now) /\ head.seq \in Nat /\ head.seq \in 0 .. MaxSent - 1
    BY <1>3, <1>4, <1>5, Constants DEF SocketPacket, DataPacket, Sent
  <1> HIDE DEF p
  <1>7. /\ socket' \in Seq(SocketPacket) /\ Len(socket') = n + 1 /\ n \in Nat
        /\ \A i \in 1 .. n : socket'[i] = socket[i] /\ socket[i] \in SocketPacket
        /\ socket'[n + 1] = p
        /\ \A i \in 1 .. Len(socket') : i \in 1 .. n \/ i = n + 1
    BY <1>1, <1>2, <1>6, AppendTo
  <1>8. Increasing(socket')
    <2>1. \A i \in 1 .. n : socket[i].seq < p.seq
      BY <1>3, <1>6 DEF QueueInv
    <2> QED
      BY <1>1, <1>2, <1>6, <2>1, AppendIncreasing DEF QueueInv
  <1> HIDE DEF n
  <1>9. Fields'
    BY <1>1, <1>3, <1>7 DEF Fields, SenderRates
  <1>10. QueueInv'
    <2>1. ASSUME NEW i \in 1 .. Len(r)
          PROVE  Sent(r[i], now)
      BY <1>3 DEF QueueInv
    <2>2. ASSUME NEW i \in 1 .. Len(socket')
          PROVE  /\ Sent(socket'[i], now) /\ socket'[i].recv <= now
                 /\ \A j \in 1 .. Len(r) : socket'[i].seq < r[j].seq
      <3>1. CASE i = n + 1
        BY <1>3, <1>4, <1>6, <1>7, <3>1
      <3>2. CASE i \in 1 .. n
        BY <1>3, <1>7, <3>2 DEF QueueInv, n
      <3> QED
        BY <1>7, <3>1, <3>2
    <2>3. ASSUME NEW i \in 1 .. Len(socket'), NEW j \in 1 .. Len(socket'), i < j
          PROVE  socket'[i].recv <= socket'[j].recv
      <3>1. i \in 1 .. n /\ socket'[i] = socket[i]
        BY <1>7, <2>3
      <3>2. CASE j = n + 1
        BY <1>6, <1>7, <3>1, <3>2 DEF QueueInv, n
      <3>3. CASE j \in 1 .. n
        BY <1>7, <2>3, <3>1, <3>3 DEF QueueInv, n
      <3> QED
        BY <1>7, <3>2, <3>3
    <2> QED
      BY <1>1, <1>3, <1>8, <2>1, <2>2, <2>3 DEF QueueInv, Sent
  <1>11. TakenInv'
    <2>1. ASSUME NEW a \in taken
          PROVE  /\ \A i \in 1 .. Len(r) : a[1] < r[i].seq
                 /\ \A i \in 1 .. Len(socket') : a[1] < socket'[i].seq /\ a[2] <= socket'[i].recv
      <3>1. a[2] \in Nat /\ a[2] <= last_stat /\ a[1] < head.seq
        BY <1>3, <1>4 DEF TakenInv
      <3>2. \A i \in 1 .. Len(r) : a[1] < r[i].seq
        BY <1>3 DEF TakenInv
      <3>3. a[2] <= now
        BY <1>4, <3>1
      <3> QED
        BY <1>6, <1>7, <3>1, <3>2, <3>3 DEF TakenInv, n
    <2>2. left <= n /\ \A i \in 1 .. left : i \in 1 .. n /\ socket[i].recv <= last_stat
      BY <1>4, <1>7 DEF TakenInv, n
    <2> QED
      BY <1>1, <1>4, <1>7, <2>1, <2>2 DEF TakenInv
  <1>12. CountInv'
    <2>1. /\ Cardinality(taken) \in Nat /\ Len(data) \in Nat
          /\ Cardinality(taken) + n + Len(data) <= packets_sent
      BY <1>2, <1>4, FS_CardinalityType DEF CountInv, n
    <2> QED
      BY <1>1, <1>3, <1>4, <1>7, <2>1 DEF CountInv
  <1>13. WindowInv' /\ FeedbackInv' /\ BudgetInv'
    BY <1>1 DEF WindowInv, FeedbackInv, Truthful, BudgetInv
  <1>14. Unread' = Unread \union {<<head.seq, now>>}
    <2>1. Unread' = {<<socket'[i].seq, socket'[i].recv>> : i \in 1 .. n + 1}
      BY <1>7 DEF Unread
    <2>2. 1 .. n + 1 = (1 .. n) \union {n + 1}
      BY <1>7
    <2>3. {<<socket'[i].seq, socket'[i].recv>> : i \in 1 .. n + 1}
            = {<<socket'[i].seq, socket'[i].recv>> : i \in 1 .. n}
                \union {<<socket'[n + 1].seq, socket'[n + 1].recv>>}
      BY <2>2
    <2>4. {<<socket'[i].seq, socket'[i].recv>> : i \in 1 .. n} = Unread
      BY <1>7 DEF Unread, n
    <2> QED
      BY <1>6, <1>7, <2>1, <2>3, <2>4
  <1> QED
    BY <1>6, <1>9, <1>10, <1>11, <1>12, <1>13, <1>14 DEF head

\* A quotient of the budget is a number, and it grows.
LEMMA BudgetGrows ==
    ASSUME NEW a \in Nat, NEW b \in Nat, a <= b
    PROVE  LET d == SilenceLimit + 1
               q(x) == PurgeStep * (x \div d)
           IN  /\ q(a) \in Nat /\ q(b) \in Nat /\ q(a) <= q(b)
               /\ a + d <= b => q(a) + PurgeStep <= q(b)
  <1> DEFINE d == SilenceLimit + 1
             p == a \div d
             q == b \div d
  <1>1. d \in Nat \ {0} /\ PurgeStep \in Nat
    BY Constants
  <1> HIDE DEF d
  <1>2. p \in Nat /\ q \in Nat /\ p <= q /\ (a + d <= b => p + 1 <= q)
    BY <1>1, Quotient, QuotientGrows
  <1> HIDE DEF p, q
  <1>3. PurgeStep * p \in Nat /\ PurgeStep * q \in Nat /\ PurgeStep * p <= PurgeStep * q
    BY <1>1, <1>2, ProductGrows
  <1>4. ASSUME a + d <= b
        PROVE  PurgeStep * p + PurgeStep <= PurgeStep * q
    <2>1. PurgeStep * (p + 1) <= PurgeStep * q
      BY <1>1, <1>2, <1>4, ProductGrows
    <2>2. PurgeStep * (p + 1) = PurgeStep * p + PurgeStep
      BY <1>1, <1>2
    <2> QED
      BY <2>1, <2>2
  <1> QED
    BY <1>3, <1>4 DEF p, q, d

\* Two times less the same keep their order.
LEMMA Shifted ==
    ASSUME NEW x \in Int, NEW y \in Int, NEW d \in Int, x <= y
    PROVE  x - d <= y - d /\ x - d \in Int /\ y - d \in Int
  OBVIOUS

\* The packet that is read is the oldest that waits and has not been read before.
LEMMA ReceiverRecvIInv ==
    ASSUME IInv, ReceiverRecv, pass' \in {"tick", "poll"},
           UNCHANGED <<now, skew, senderVars, data, feedbacks>>
    PROVE  LET a == <<Head(socket).seq, Head(socket).recv>>
           IN  /\ IInv'
               /\ a \in Unread /\ \A b \in Unread : a[2] <= b[2]
               /\ Unread' = Unread \ {a}
               /\ a \notin taken /\ taken' = taken \union {a}
  <1> USE DEF IInv
  <1> DEFINE head == Head(socket)
             p == [sent |-> head.sent, recv |-> head.recv]
             a == <<head.seq, head.recv>>
             r == Tail(socket)
  <1>1. /\ socket # <<>> /\ socket' = r
        /\ history' = Housekeep(Append(history, p), now)
        /\ taken' = taken \union {<<head.seq, p.recv>>}
        /\ worst' = Larger(worst, p.recv + skew - p.sent)
        /\ last_stat' = now /\ left' = Len(socket')
        /\ max_rx_seq_no' = Larger(max_rx_seq_no, head.seq)
        /\ UNCHANGED <<now, skew, packets_sent, current_rate, data, fb_next, reported, feedbacks>>
    BY DEF ReceiverRecv, AddPacket, PacketReceived, Purge, senderVars
  <1>2. socket \in Seq(SocketPacket) /\ data \in Seq(DataPacket)
    BY DEF Fields
  <1>3. /\ head = socket[1] /\ head \in SocketPacket /\ 1 \in 1 .. Len(socket)
        /\ r \in Seq(SocketPacket) /\ Len(r) = Len(socket) - 1
        /\ \A i \in 1 .. Len(r) : /\ i + 1 \in 1 .. Len(socket) /\ r[i] = socket[i + 1]
                                  /\ r[i] \in SocketPacket
        /\ Increasing(r) /\ \A i \in 1 .. Len(r) : head.seq < r[i].seq
    BY <1>1, <1>2, TailOf, TailIncreasing DEF QueueInv
  <1>4. /\ now \in Nat /\ now <= MaxTime /\ packets_sent \in Nat /\ packets_sent <= MaxSent
        /\ skew \in Int /\ worst \in Nat /\ worst <= now /\ max_rx_seq_no \in Nat
        /\ last_stat \in Nat /\ last_stat <= now
        /\ taken \subseteq Nat \X Nat /\ IsFiniteSet(taken)
    BY DEF Fields
  <1>5. /\ head.seq \in Nat /\ head.sent \in Int /\ head.recv \in Nat
        /\ head.seq < packets_sent /\ skew <= head.sent /\ head.recv <= now
    BY <1>3 DEF QueueInv, Sent, SocketPacket
  <1>6. \A i \in 1 .. Len(socket) : head.recv <= socket[i].recv
    <2>1. ASSUME NEW i \in 1 .. Len(socket)
          PROVE  head.recv <= socket[i].recv
      <3>1. CASE i = 1
        BY <1>3, <1>5, <3>1
      <3>2. CASE i # 1
        BY <1>3, <3>2 DEF QueueInv
      <3> QED
        BY <3>1, <3>2
    <2> QED
      BY <2>1
  <1>7. /\ p \in Packet /\ p.recv = head.recv /\ p.sent = head.sent
        /\ Sample(p) = head.recv - head.sent
        /\ a \in Nat \X Nat /\ a[1] = head.seq /\ a[2] = head.recv
    BY <1>5 DEF Packet, Sample
  <1> HIDE DEF head, r, p
  <1>8. \A b \in taken : b[1] < head.seq /\ b[2] <= head.recv
    BY <1>3 DEF TakenInv
  <1>9. a \notin taken /\ taken' = taken \union {a}
    <2>1. ASSUME a \in taken
          PROVE  FALSE
      <3>1. a[1] < head.seq
        BY <1>8, <2>1
      <3> QED
        BY <1>5, <1>7, <3>1
    <2> QED
      BY <1>1, <1>7, <2>1
  <1> HIDE DEF a
  <1>10. /\ worst' \in Nat /\ worst' <= now /\ worst - skew <= worst' - skew
         /\ Sample(p) <= worst' - skew /\ worst - skew \in Int /\ worst' - skew \in Int
    <2> DEFINE transit == head.recv + skew - head.sent
    <2>1. transit \in Int /\ transit <= now /\ Sample(p) = transit - skew
      BY <1>4, <1>5, <1>7
    <2>2. worst' = Larger(worst, transit)
      BY <1>1, <1>7
    <2> HIDE DEF transit
    <2>3. worst' \in Nat /\ worst' <= now /\ worst <= worst' /\ transit <= worst'
      BY <1>4, <2>1, <2>2 DEF Larger
    <2>4. worst \in Int /\ worst' \in Int /\ skew \in Int /\ worst <= worst'
      BY <1>4, <2>3
    <2>5. /\ worst - skew <= worst' - skew /\ worst - skew \in Int /\ worst' - skew \in Int
      BY <2>4, Shifted
    <2>6. transit - skew <= worst' - skew
      BY <2>1, <2>3, <2>4, Shifted
    <2> QED
      BY <2>1, <2>3, <2>5, <2>6
  <1>11. /\ IsFiniteSet(taken') /\ Cardinality(taken') = Cardinality(taken) + 1
         /\ Cardinality(taken) \in Nat
    BY <1>4, <1>9, FS_AddElement, FS_CardinalityType
  <1>12. Fields'
    <2>1. max_rx_seq_no' \in Nat
      BY <1>1, <1>4, <1>5 DEF Larger
    <2>2. taken' \subseteq Nat \X Nat
      BY <1>4, <1>7, <1>9
    <2>3. socket' \in Seq(SocketPacket) /\ left' \in Nat
      BY <1>1, <1>3
    <2> QED
      BY <1>1, <1>4, <1>10, <1>11, <2>1, <2>2, <2>3 DEF Fields, SenderRates
  <1>13. QueueInv'
    <2>1. ASSUME NEW i \in 1 .. Len(r)
          PROVE  /\ Sent(r[i], now) /\ r[i].recv <= now
                 /\ \A j \in 1 .. Len(data) : r[i].seq < data[j].seq
      BY <1>3 DEF QueueInv
    <2>2. ASSUME NEW i \in 1 .. Len(r), NEW j \in 1 .. Len(r), i < j
          PROVE  r[i].recv <= r[j].recv
      <3>1. i + 1 < j + 1
        BY <2>2
      <3> QED
        BY <1>3, <3>1 DEF QueueInv
    <2> QED
      BY <1>1, <1>3, <2>1, <2>2 DEF QueueInv, Sent
  <1>14. TakenInv'
    <2>1. ASSUME NEW b \in taken'
          PROVE  /\ b[1] < packets_sent /\ b[2] <= now
                 /\ \A i \in 1 .. Len(data) : b[1] < data[i].seq
                 /\ \A i \in 1 .. Len(r) : b[1] < r[i].seq /\ b[2] <= r[i].recv
      <3>1. CASE b = a
        <4>1. \A i \in 1 .. Len(data) : head.seq < data[i].seq
          BY <1>3 DEF QueueInv
        <4>2. \A i \in 1 .. Len(r) : head.recv <= r[i].recv
          BY <1>3, <1>6
        <4> QED
          BY <1>3, <1>5, <1>7, <3>1, <4>1, <4>2
      <3>2. CASE b # a
        <4>1. b \in taken /\ b[2] \in Nat
          BY <1>4, <1>9, <3>2
        <4>2. b[1] < packets_sent /\ b[2] <= last_stat
          BY <4>1 DEF TakenInv
        <4>3. \A i \in 1 .. Len(data) : b[1] < data[i].seq
          BY <4>1 DEF TakenInv
        <4>4. \A i \in 1 .. Len(r) : b[1] < r[i].seq /\ b[2] <= r[i].recv
          BY <1>3, <4>1 DEF TakenInv
        <4> QED
          BY <1>4, <4>1, <4>2, <4>3, <4>4
      <3> QED
        BY <3>1, <3>2
    <2>2. \A i \in 1 .. Len(r) : r[i].recv <= now
      BY <1>3 DEF QueueInv
    <2> QED
      BY <1>1, <1>3, <2>1, <2>2 DEF TakenInv
  <1>15. CountInv'
    <2>1. /\ Cardinality(taken) + Len(socket) + Len(data) <= packets_sent
          /\ Len(data) \in Nat /\ Len(socket) \in Nat
      BY <1>2 DEF CountInv
    <2> QED
      BY <1>1, <1>3, <1>4, <1>11, <2>1 DEF CountInv
  <1>16. WindowInv'
    <2>1. Agrees(Append(history, p), now, taken \cup {a}, worst' - skew)
      BY <1>4, <1>5, <1>7, <1>8, <1>9, <1>10, AppendAgrees DEF WindowInv
    <2>2. Agrees(Housekeep(Append(history, p), now), now, taken \cup {a}, worst' - skew)
      BY <1>4, <1>9, <1>10, <1>11, <2>1, HousekeepAgrees
    <2> QED
      BY <1>1, <1>9, <2>2 DEF WindowInv
  <1>17. FeedbackInv'
    <2>1. ASSUME NEW f \in feedbacks
          PROVE  f \in [rate : Int, latency : Int] /\ Truthful(f)'
      <3>1. f \in [rate : Int, latency : Int] /\ Truthful(f)
        BY DEF FeedbackInv
      <3>2. f.latency \in Int
        BY <3>1
      <3>3. f.latency <= Larger(0, worst' - skew)
        BY <1>10, <3>1, <3>2 DEF Truthful, Larger
      <3> QED
        BY <1>1, <3>1, <3>3 DEF Truthful
    <2> QED
      BY <1>1, <2>1 DEF FeedbackInv
  <1>18. BudgetInv'
    <2> DEFINE q(x) == PurgeStep * (x \div (SilenceLimit + 1))
    <2>1. q(last_stat) \in Nat /\ q(now) \in Nat /\ q(last_stat) <= q(now)
      BY <1>4, BudgetGrows
    <2>2. max_rx_seq_no <= packets_sent + q(last_stat)
      BY DEF BudgetInv
    <2>3. BudgetInv' <=> Larger(max_rx_seq_no, head.seq) <= packets_sent + q(now)
      BY <1>1 DEF BudgetInv
    <2> HIDE DEF q
    <2> QED
      BY <1>4, <1>5, <2>1, <2>2, <2>3 DEF Larger
  <1>19. a \in Unread /\ \A b \in Unread : a[2] <= b[2]
    <2>1. a \in Unread
      BY <1>3 DEF Unread, a
    <2>2. \A b \in Unread : a[2] <= b[2]
      BY <1>6, <1>7 DEF Unread
    <2> QED
      BY <2>1, <2>2
  <1>20. Unread' = Unread \ {a}
    <2>1. Unread' = {<<r[i].seq, r[i].recv>> : i \in 1 .. Len(r)}
      BY <1>1 DEF Unread
    <2>2. ASSUME NEW b \in Unread'
          PROVE  b \in Unread /\ b # a
      <3>1. PICK i \in 1 .. Len(r) : b = <<r[i].seq, r[i].recv>>
        BY <2>1
      <3>2. i + 1 \in 1 .. Len(socket) /\ r[i] = socket[i + 1] /\ head.seq < r[i].seq
        BY <1>3
      <3>3. b # a
        BY <1>5, <3>1, <3>2 DEF a
      <3> QED
        BY <3>1, <3>2, <3>3 DEF Unread
    <2>3. ASSUME NEW b \in Unread, b # a
          PROVE  b \in Unread'
      <3>1. PICK i \in 1 .. Len(socket) : b = <<socket[i].seq, socket[i].recv>>
        BY DEF Unread
      <3>2. i # 1
        BY <1>3, <2>3, <3>1 DEF a
      <3>3. i - 1 \in 1 .. Len(r) /\ (i - 1) + 1 = i
        BY <1>2, <1>3, <3>2
      <3>4. r[i - 1] = socket[i]
        BY <1>3, <3>3
      <3> QED
        BY <2>1, <3>1, <3>3, <3>4
    <2> QED
      BY <2>2, <2>3
  <1> QED
    BY <1>9, <1>12, <1>13, <1>14, <1>15, <1>16, <1>17, <1>18, <1>19, <1>20 DEF a, head

\* A step that leaves alone all that the invariant tells apart.
LEMMA QuietIInv ==
    ASSUME IInv, pass' \in {"tick", "poll"},
           UNCHANGED <<now, skew, packets_sent, current_rate, data, socket, fb_next, reported, left,
                       worst, last_stat, max_rx_seq_no, taken, feedbacks, history>>
    PROVE  IInv'
  BY DEF IInv, Fields, SenderRates, QueueInv, Sent, Increasing, TakenInv, CountInv, WindowInv,
         FeedbackInv, Truthful, BudgetInv

LEMMA ReceiverPollIInv ==
    ASSUME IInv, ReceiverPoll
    PROVE  IInv'
  <1>1. pass' \in {"tick", "poll"} /\ UNCHANGED <<now, skew, senderVars, data, feedbacks>>
    BY DEF ReceiverPoll
  <1>2. CASE ReceiverRecv
    BY <1>1, <1>2, ReceiverRecvIInv
  <1>3. CASE UNCHANGED <<histVars, history, fb_next, last_stat, socket, ghostVars>>
    BY <1>1, <1>3, QuietIInv DEF senderVars, histVars, ghostVars
  <1> QED
    BY <1>2, <1>3 DEF ReceiverPoll

\* A purge happens in a silence only, and is within the budget.
LEMMA PurgeFacts ==
    ASSUME Fields, TakenInv, BudgetInv, PurgeIfSilent, UNCHANGED packets_sent
    PROVE  /\ last_stat' \in Nat /\ last_stat <= last_stat' /\ last_stat' <= now
           /\ max_rx_seq_no' \in Nat
           /\ BudgetInv'
           /\ max_rx_seq_no' # max_rx_seq_no => \A a \in Known : now - a[2] > SilenceLimit
  <1>1. /\ now \in Nat /\ packets_sent \in Nat /\ max_rx_seq_no \in Nat /\ last_stat \in Nat
        /\ last_stat <= now /\ taken \subseteq Nat \X Nat /\ SilenceLimit \in Nat /\ PurgeStep \in Nat
    BY Constants DEF Fields
  <1>2. CASE now > last_stat + SilenceLimit
    <2>1. max_rx_seq_no' = max_rx_seq_no + PurgeStep /\ last_stat' = now
      BY <1>2 DEF PurgeIfSilent, ActivePurge, Purge
    <2>2. BudgetInv'
      <3> DEFINE q(x) == PurgeStep * (x \div (SilenceLimit + 1))
      <3>1. last_stat + (SilenceLimit + 1) <= now
        BY <1>1, <1>2
      <3>2. q(last_stat) \in Nat /\ q(now) \in Nat /\ q(last_stat) + PurgeStep <= q(now)
        BY <1>1, <3>1, BudgetGrows
      <3>3. max_rx_seq_no <= packets_sent + q(last_stat)
        BY DEF BudgetInv
      <3>4. BudgetInv' <=> max_rx_seq_no + PurgeStep <= packets_sent + q(now)
        BY <2>1 DEF BudgetInv
      <3> HIDE DEF q
      <3> QED
        BY <1>1, <3>2, <3>3, <3>4
    <2>3. ASSUME NEW a \in Known
          PROVE  now - a[2] > SilenceLimit
      <3>1. CASE a \in taken
        <4>1. a[2] \in Nat /\ a[2] <= last_stat
          BY <1>1, <3>1 DEF TakenInv
        <4> QED
          BY <1>1, <1>2, <4>1
      <3>2. CASE a \notin taken
        <4>1. PICK i \in 1 .. left : a = <<socket[i].seq, socket[i].recv>>
          BY <3>2 DEF Known
        <4>2. i \in 1 .. Len(socket) /\ socket[i].recv <= last_stat
          BY <4>1 DEF TakenInv, Fields
        <4>3. socket[i] \in SocketPacket
          BY <4>2 DEF Fields
        <4>4. a[2] \in Nat /\ a[2] <= last_stat
          BY <4>1, <4>2, <4>3 DEF SocketPacket
        <4> QED
          BY <1>1, <1>2, <4>4
      <3> QED
        BY <3>1, <3>2
    <2> QED
      BY <1>1, <2>1, <2>2, <2>3
  <1>3. CASE ~(now > last_stat + SilenceLimit)
    <2>1. max_rx_seq_no' = max_rx_seq_no /\ last_stat' = last_stat
      BY <1>3 DEF PurgeIfSilent, histVars
    <2> QED
      BY <1>1, <2>1 DEF BudgetInv
  <1> QED
    BY <1>2, <1>3

\* What a feedback made from the window tells is so.
LEMMA FeedbackTruthful ==
    ASSUME Fields, CountInv, NEW h, Agrees(h, now, taken, worst - skew)
    PROVE  LET f == [rate |-> Rate(h), latency |-> Latency(h)]
           IN  f \in [rate : Int, latency : Int] /\ Truthful(f)
  <1> DEFINE m == Larger(0, worst - skew)
  <1>1. /\ now \in Nat /\ now <= MaxTime /\ packets_sent \in Nat /\ packets_sent <= MaxSent
        /\ worst \in Nat /\ worst <= now /\ skew \in Int /\ -MaxSkew <= skew
        /\ Cardinality(taken) \in Nat /\ Len(socket) \in Nat /\ Len(data) \in Nat
        /\ MaxTime \in Nat /\ MaxSent \in Nat /\ MaxSkew \in Nat
    BY FS_CardinalityType, Constants DEF Fields
  <1>2. h \in Seq(Packet) /\ Len(h) \in Nat /\ Len(h) <= Cardinality(taken)
    BY DEF Agrees
  <1>3. Len(h) <= MaxSent
    <2>1. Cardinality(taken) + Len(socket) + Len(data) <= packets_sent
      BY DEF CountInv
    <2> DEFINE c == Cardinality(taken)
               n == Len(data)
               k == Len(socket)
    <2> HIDE DEF c, n, k
    <2> QED
      BY <1>1, <1>2, <2>1 DEF c, n, k
  <1>4. Rate(h) \in 1 .. Larger(MaxSent, EmptyRate)
    BY <1>1, <1>2, <1>3, Constants DEF Rate, Larger
  <1>5. m \in Nat /\ worst - skew <= m /\ m <= MaxTime + MaxSkew
    BY <1>1 DEF Larger
  <1> HIDE DEF m
  <1>6. \A i \in 1 .. Len(h) : Sample(h[i]) <= m
    <2>1. ASSUME NEW i \in 1 .. Len(h)
          PROVE  Sample(h[i]) <= m
      <3>1. h[i] \in Packet /\ Sample(h[i]) <= worst - skew
        BY <1>2 DEF Agrees
      <3>2. Sample(h[i]) \in Int
        BY <3>1 DEF Packet, Sample
      <3> QED
        BY <1>1, <1>5, <3>1, <3>2
    <2> QED
      BY <2>1
  <1>7. Latency(h) \in Int /\ NoLatency <= Latency(h) /\ Latency(h) <= m
    BY <1>2, <1>5, <1>6, LatencyBound
  <1>8. Latency(h) \in NoLatency .. MaxTime + MaxSkew
    BY <1>1, <1>5, <1>7 DEF NoLatency
  <1> DEFINE r == Rate(h)
             l == Latency(h)
             f == [rate |-> r, latency |-> l]
  <1>9. r \in Int
    BY <1>4, Constants
  <1>10. l \in Int /\ l <= m
    BY <1>7
  <1> HIDE DEF r, l
  <1>11. f.rate = r /\ f.latency = l /\ f \in [rate : Int, latency : Int]
    BY <1>9, <1>10
  <1> QED
    BY <1>4, <1>8, <1>10, <1>11 DEF Truthful, r, l, m

\* A tick of the receiver reports the window or nothing, and purges in a silence.
LEMMA ReceiverTickIInv ==
    ASSUME IInv, ReceiverTick
    PROVE  /\ IInv'
           /\ reported' = reported \/ reported' = Cardinality(Since(taken, now - AveragingExtent))
           /\ max_rx_seq_no' # max_rx_seq_no => \A a \in Known : now - a[2] > SilenceLimit
  <1> USE DEF IInv
  <1>1. /\ UNCHANGED <<now, skew, packets_sent, current_rate, data, socket, taken, left, worst>>
        /\ pass' = "poll" /\ PurgeIfSilent /\ FeedBack
    BY DEF ReceiverTick, senderVars
  <1>2. /\ last_stat' \in Nat /\ last_stat <= last_stat' /\ last_stat' <= now
        /\ max_rx_seq_no' \in Nat
        /\ BudgetInv'
        /\ max_rx_seq_no' # max_rx_seq_no => \A a \in Known : now - a[2] > SilenceLimit
    BY <1>1, PurgeFacts
  <1>3. QueueInv' /\ TakenInv' /\ CountInv'
    <2>1. ASSUME NEW a \in taken
          PROVE  a[2] <= last_stat'
      <3>1. a[2] \in Nat /\ a[2] <= last_stat /\ last_stat \in Nat
        BY DEF TakenInv, Fields
      <3> QED
        BY <1>2, <3>1
    <2>2. ASSUME NEW i \in 1 .. left
          PROVE  socket[i].recv <= last_stat'
      <3>1. i \in 1 .. Len(socket) /\ socket[i].recv <= last_stat
        BY DEF TakenInv, Fields
      <3>2. socket[i] \in SocketPacket /\ last_stat \in Nat
        BY <3>1 DEF Fields
      <3> QED
        BY <1>2, <3>1, <3>2 DEF SocketPacket
    <2> QED
      BY <1>1, <2>1, <2>2 DEF QueueInv, Sent, Increasing, TakenInv, CountInv
  <1>4. CASE now > fb_next
    <2> DEFINE h == Housekeep(history, now)
               f == [rate |-> Rate(h), latency |-> Latency(h)]
    <2>1. /\ history' = h /\ fb_next' = fb_next + FeedbackPeriod /\ reported' = Len(h)
          /\ feedbacks' = IF Cardinality(feedbacks) < MaxFeedback THEN feedbacks \union {f}
                                                                  ELSE feedbacks
      BY <1>1, <1>4 DEF FeedBack
    <2>2. /\ Agrees(h, now, taken, worst - skew)
          /\ Len(h) = Cardinality(Since(taken, now - AveragingExtent))
      <3>1. worst - skew \in Int /\ now \in Nat /\ IsFiniteSet(taken)
        BY DEF Fields
      <3> QED
        BY <3>1, HousekeepAgrees DEF WindowInv
    <2>3. f \in [rate : Int, latency : Int] /\ Truthful(f)
      BY <2>2, FeedbackTruthful
    <2>4. Len(h) \in Nat
      BY <2>2 DEF Agrees
    <2> HIDE DEF h, f
    <2>5. Fields'
      BY <1>1, <1>2, <2>1, <2>4, Constants DEF Fields, SenderRates
    <2>6. WindowInv'
      BY <1>1, <2>1, <2>2 DEF WindowInv
    <2>7. FeedbackInv'
      <3>1. Cardinality(feedbacks) \in Nat /\ MaxFeedback \in Nat
        BY FS_CardinalityType, Constants DEF FeedbackInv
      <3>2. IsFiniteSet(feedbacks')
        BY <2>1, FS_AddElement DEF FeedbackInv
      <3>3. Cardinality(feedbacks') <= MaxFeedback
        <4>1. CASE Cardinality(feedbacks) < MaxFeedback
          <5>1. feedbacks' = feedbacks \union {f}
            BY <2>1, <4>1
          <5>2. Cardinality(feedbacks') = Cardinality(feedbacks)
                \/ Cardinality(feedbacks') = Cardinality(feedbacks) + 1
            BY <5>1, FS_AddElement DEF FeedbackInv
          <5> QED
            BY <3>1, <4>1, <5>2
        <4>2. CASE ~(Cardinality(feedbacks) < MaxFeedback)
          BY <2>1, <4>2 DEF FeedbackInv
        <4> QED
          BY <4>1, <4>2
      <3>4. \A g \in feedbacks' : g \in feedbacks \/ g = f
        BY <2>1
      <3>5. \A g \in feedbacks' : g \in [rate : Int, latency : Int] /\ Truthful(g)
        BY <2>3, <3>4 DEF FeedbackInv
      <3>6. \A g : Truthful(g) => Truthful(g)'
        BY <1>1 DEF Truthful
      <3> QED
        BY <3>2, <3>3, <3>5, <3>6 DEF FeedbackInv
    <2> QED
      BY <1>2, <1>3, <2>1, <2>2, <2>5, <2>6, <2>7
  <1>5. CASE ~(now > fb_next)
    <2>1. UNCHANGED <<history, feedbacks, fb_next, reported>>
      BY <1>1, <1>5 DEF FeedBack
    <2>2. Fields'
      BY <1>1, <1>2, <2>1 DEF Fields, SenderRates
    <2>3. WindowInv' /\ FeedbackInv'
      BY <1>1, <2>1 DEF WindowInv, FeedbackInv, Truthful
    <2> QED
      BY <1>2, <1>3, <2>1, <2>2, <2>3
  <1> QED
    BY <1>4, <1>5

LEMMA LoseDataIInv ==
    ASSUME IInv, LoseData
    PROVE  IInv'
  <1> USE DEF IInv
  <1> DEFINE r == Tail(data)
  <1>1. /\ data # <<>> /\ data' = r
        /\ UNCHANGED <<now, skew, packets_sent, current_rate, socket, pass, fb_next, reported, left,
                       worst, last_stat, max_rx_seq_no, taken, feedbacks, history>>
    BY DEF LoseData, senderVars, receiverVars, histVars, ghostVars
  <1>2. /\ r \in Seq(DataPacket) /\ Len(r) = Len(data) - 1
        /\ \A i \in 1 .. Len(r) : i + 1 \in 1 .. Len(data) /\ r[i] = data[i + 1]
        /\ Increasing(r)
    BY <1>1, TailOf, TailIncreasing DEF Fields, QueueInv
  <1> HIDE DEF r
  <1>3. Fields'
    BY <1>1, <1>2 DEF Fields, SenderRates
  <1>4. QueueInv'
    BY <1>1, <1>2 DEF QueueInv, Sent, Increasing
  <1>5. TakenInv'
    BY <1>1, <1>2 DEF TakenInv
  <1>6. CountInv'
    <2>1. /\ Cardinality(taken) \in Nat /\ Len(data) \in Nat /\ Len(socket) \in Nat
          /\ packets_sent \in Nat /\ Cardinality(taken) + Len(socket) + Len(data) <= packets_sent
      BY FS_CardinalityType DEF Fields, CountInv
    <2> QED
      BY <1>1, <1>2, <2>1 DEF CountInv
  <1>7. WindowInv' /\ FeedbackInv' /\ BudgetInv'
    BY <1>1 DEF WindowInv, FeedbackInv, Truthful, BudgetInv
  <1> QED
    BY <1>3, <1>4, <1>5, <1>6, <1>7

LEMMA LoseFeedbackIInv ==
    ASSUME IInv, NEW f \in feedbacks, LoseFeedback(f)
    PROVE  IInv'
  <1> USE DEF IInv
  <1>1. /\ feedbacks' = feedbacks \ {f}
        /\ UNCHANGED <<now, skew, packets_sent, current_rate, data, socket, pass, fb_next, reported,
                       left, worst, last_stat, max_rx_seq_no, taken, history>>
    BY DEF LoseFeedback, senderVars, receiverVars, histVars, ghostVars
  <1>2. Fields' /\ QueueInv' /\ TakenInv' /\ CountInv' /\ WindowInv' /\ BudgetInv'
    BY <1>1 DEF Fields, SenderRates, QueueInv, Sent, Increasing, TakenInv, CountInv, WindowInv,
                BudgetInv
  <1>3. FeedbackInv'
    BY <1>1, FeedbackGone
  <1> QED
    BY <1>2, <1>3

LEMMA StutterIInv ==
    ASSUME IInv, UNCHANGED vars
    PROVE  IInv'
  <1>1. /\ pass' = pass /\ pass \in {"tick", "poll"}
        /\ UNCHANGED <<now, skew, packets_sent, current_rate, data, socket, fb_next, reported, left,
                       worst, last_stat, max_rx_seq_no, taken, feedbacks, history>>
    BY DEF IInv, Fields, vars, senderVars, receiverVars, histVars, linkVars, ghostVars
  <1> QED
    BY <1>1, QuietIInv

LEMMA StepIInv ==
    ASSUME IInv, [Next]_vars
    PROVE  IInv'
  BY TickIInv, SenderTickIInv, SenderRecvIInv, ReceiverTickIInv, ReceiverPollIInv, ArriveIInv,
     LoseDataIInv, LoseFeedbackIInv, StutterIInv DEF Next

\* The inductive invariant holds in every reachable state.
THEOREM Invariance == Spec => []IInv
  <1>1. IInv /\ [Next]_vars => IInv'
    BY StepIInv
  <1> QED
    BY InitIInv, <1>1, PTL DEF Spec

-----------------------------------------------------------------------------
(* What follows from it.                                                   *)

\* The state is typed and bounded, and active purges push the highest number
\* received beyond the packets sent by PurgeStep for each SilenceLimit of time.
THEOREM BoundsCorrect == Spec => []StateBounded
  <1>1. IInv => StateBounded
    <2> SUFFICES ASSUME IInv PROVE StateBounded
      OBVIOUS
    <2> USE DEF IInv
    <2>1. \A i \in 1 .. Len(data) : data[i] \in [seq : 0 .. MaxSent - 1, sent : skew .. now + skew]
      <3>1. ASSUME NEW i \in 1 .. Len(data)
            PROVE  data[i] \in [seq : 0 .. MaxSent - 1, sent : skew .. now + skew]
        <4>1. data[i] \in DataPacket /\ Sent(data[i], now)
          BY DEF Fields, QueueInv
        <4>2. /\ packets_sent \in Nat /\ packets_sent <= MaxSent /\ MaxSent \in Nat
              /\ now \in Nat /\ skew \in Int
          BY Constants DEF Fields
        <4>3. data[i].seq \in 0 .. MaxSent - 1 /\ data[i].sent \in skew .. now + skew
          BY <4>1, <4>2 DEF DataPacket, Sent
        <4> QED
          BY <4>1, <4>3 DEF DataPacket
      <3> QED
        BY <3>1
    <2>2. \A i \in 1 .. Len(socket) :
              socket[i] \in [seq : 0 .. MaxSent - 1, sent : skew .. now + skew, recv : 0 .. now]
      <3>1. ASSUME NEW i \in 1 .. Len(socket)
            PROVE  socket[i] \in [seq : 0 .. MaxSent - 1, sent : skew .. now + skew, recv : 0 .. now]
        <4>1. socket[i] \in SocketPacket /\ Sent(socket[i], now) /\ socket[i].recv <= now
          BY DEF Fields, QueueInv
        <4>2. /\ socket[i].seq \in 0 .. MaxSent - 1 /\ socket[i].sent \in skew .. now + skew
              /\ socket[i].recv \in 0 .. now
          BY <4>1, Constants DEF Fields, SocketPacket, Sent
        <4> QED
          BY <4>1, <4>2 DEF SocketPacket
      <3> QED
        BY <3>1
    <2>3. feedbacks \subseteq [rate : 1 .. Larger(MaxSent, EmptyRate),
                               latency : NoLatency .. MaxTime + MaxSkew]
      BY DEF FeedbackInv, Truthful
    <2>4. TypeOK
      BY <2>1, <2>2, <2>3, Constants DEF TypeOK, Fields, SenderRates, FeedbackInv
    <2>5. PurgeBudget
      <3> DEFINE q(x) == PurgeStep * (x \div (SilenceLimit + 1))
      <3>1. q(last_stat) \in Nat /\ q(now) \in Nat /\ q(last_stat) <= q(now)
        BY BudgetGrows DEF Fields
      <3>2. max_rx_seq_no <= packets_sent + q(last_stat)
        BY DEF BudgetInv
      <3>3. PurgeBudget <=> max_rx_seq_no <= packets_sent + q(now)
        BY DEF PurgeBudget
      <3> HIDE DEF q
      <3> QED
        BY <3>1, <3>2, <3>3 DEF Fields
    <2> QED
      BY <2>4, <2>5 DEF StateBounded
  <1> QED
    BY <1>1, Invariance, PTL

\* A step that moves the highest number received and reads nothing comes more
\* than SilenceLimit after the arrival of all that the receiver had read, or left
\* behind it in the socket, when it last read a packet.
THEOREM PurgesJustified == Spec => PurgeOnlyInSilence
  <1> DEFINE Silent == max_rx_seq_no' # max_rx_seq_no /\ taken' = taken
                           => \A a \in Known : now - a[2] > SilenceLimit
  <1>1. IInv /\ [Next]_vars => [Silent]_vars
    <2> SUFFICES ASSUME IInv, Next PROVE Silent
      OBVIOUS
    <2>1. CASE ReceiverPoll
      <3>1. CASE ReceiverRecv
        <4>1. pass' \in {"tick", "poll"} /\ UNCHANGED <<now, skew, senderVars, data, feedbacks>>
          BY <2>1 DEF ReceiverPoll
        <4>2. taken' # taken
          BY <3>1, <4>1, ReceiverRecvIInv
        <4> QED
          BY <4>2
      <3>2. CASE UNCHANGED <<histVars, history, fb_next, last_stat, socket, ghostVars>>
        BY <3>2 DEF histVars
      <3> QED
        BY <2>1, <3>1, <3>2 DEF ReceiverPoll
    <2>2. CASE ReceiverTick
      BY <2>2, ReceiverTickIInv
    <2>3. CASE \/ Tick \/ SenderTick \/ Arrive \/ LoseData
               \/ \E f \in feedbacks : SenderRecv(f) \/ LoseFeedback(f)
      BY <2>3 DEF Tick, SenderTick, Arrive, LoseData, SenderRecv, LoseFeedback, receiverVars, histVars
    <2> QED
      BY <2>1, <2>2, <2>3 DEF Next
  <1> HIDE DEF Silent
  <1>2. [][Silent]_vars => PurgeOnlyInSilence
    BY DEF PurgeOnlyInSilence, Silent
  <1> QED
    BY <1>1, <1>2, Invariance, PTL DEF Spec

\* Whichever way the clocks of the hosts disagree, the sender goes back to
\* BACKOFF_RATE only when a packet was on its way for LatencyLimit and what the
\* clock of the sender is ahead, whatever feedback was lost, late or empty.
THEOREM BackoffsJustified == Spec => BackoffJustified
  <1> DEFINE Late == current_rate' = BackoffRate /\ current_rate # BackoffRate
                         => worst >= LatencyLimit + skew
  <1>1. IInv /\ [Next]_vars => [Late]_vars
    <2> SUFFICES ASSUME IInv, Next PROVE Late
      OBVIOUS
    <2>1. CASE \E f \in feedbacks : SenderRecv(f)
      <3>1. PICK f \in feedbacks : SenderRecv(f)
        BY <2>1
      <3>2. /\ current_rate' = RateFor(f) /\ worst \in Nat /\ skew \in Int
            /\ f \in [rate : Int, latency : Int] /\ Truthful(f)
        BY <3>1 DEF SenderRecv, IInv, FeedbackInv, Fields
      <3>3. f.rate \in Nat /\ f.latency \in Int /\ f.latency <= Larger(0, worst - skew)
        BY <3>2, Constants DEF Truthful
      <3>4. Larger(2 * f.rate, MinimumTxRate) # BackoffRate
        BY <3>3, Constants DEF Larger
      <3>5. f.latency >= LatencyLimit => worst >= LatencyLimit + skew
        BY <3>2, <3>3, Constants DEF Larger
      <3> QED
        BY <3>2, <3>4, <3>5 DEF RateFor
    <2>2. CASE \/ Tick \/ SenderTick \/ Arrive \/ LoseData \/ ReceiverPoll \/ ReceiverTick
               \/ \E f \in feedbacks : LoseFeedback(f)
      BY <2>2 DEF Tick, SenderTick, Arrive, LoseData, ReceiverPoll, ReceiverTick, LoseFeedback,
                  senderVars
    <2> QED
      BY <2>1, <2>2 DEF Next
  <1> HIDE DEF Late
  <1>2. [][Late]_vars => BackoffJustified
    BY DEF BackoffJustified, Late
  <1> QED
    BY <1>1, <1>2, Invariance, PTL DEF Spec

-----------------------------------------------------------------------------
(* The reports refine an exact sliding window.                             *)

LEMMA InitWindow == Init => RateWindow!Init
  BY DEF Init, RateWindow!Init, Unread

\* A tick of the receiver is a report of the window, or leaves it alone.
LEMMA TickReports ==
    ASSUME IInv, ReceiverTick
    PROVE  RateWindow!Report \/ UNCHANGED RateWindow!window
  <1>1. /\ reported' = reported \/ reported' = Cardinality(Since(taken, now - AveragingExtent))
        /\ now' = now /\ taken' = taken /\ socket' = socket
    BY ReceiverTickIInv DEF ReceiverTick
  <1>2. Unread' = Unread
    BY <1>1 DEF Unread
  <1>3. Since(taken, now - AveragingExtent) = RateWindow!Recent
    <2>1. ASSUME NEW a \in taken
          PROVE  a[2] >= now - AveragingExtent <=> now - a[2] <= AveragingExtent
      <3>1. a[2] \in Nat /\ now \in Nat
        BY DEF IInv, Fields
      <3> QED
        BY <3>1, Constants
    <2> QED
      BY <2>1 DEF Since, RateWindow!Recent
  <1>4. CASE reported' = reported
    BY <1>1, <1>2, <1>4 DEF RateWindow!window
  <1>5. CASE reported' = Cardinality(RateWindow!Recent)
    BY <1>1, <1>2, <1>5 DEF RateWindow!Report, Cardinality, RateWindow!Cardinality
  <1> QED
    BY <1>1, <1>3, <1>4, <1>5

\* A poll takes the oldest of the packets that wait, or leaves the window alone.
LEMMA PollTakes ==
    ASSUME IInv, ReceiverPoll
    PROVE  (\E a \in Unread : RateWindow!Take(a)) \/ UNCHANGED RateWindow!window
  <1>1. pass' \in {"tick", "poll"} /\ UNCHANGED <<now, skew, senderVars, data, feedbacks>>
    BY DEF ReceiverPoll
  <1>2. CASE ReceiverRecv
    <2> DEFINE a == <<Head(socket).seq, Head(socket).recv>>
    <2>1. /\ a \in Unread /\ \A b \in Unread : a[2] <= b[2]
          /\ Unread' = Unread \ {a}
          /\ taken' = taken \union {a}
      BY <1>1, <1>2, ReceiverRecvIInv
    <2>2. now' = now /\ reported' = reported
      BY <1>1, <1>2 DEF ReceiverRecv
    <2> HIDE DEF a
    <2>3. RateWindow!Take(a)
      BY <2>1, <2>2 DEF RateWindow!Take
    <2> QED
      BY <2>1, <2>3
  <1>3. CASE UNCHANGED <<histVars, history, fb_next, last_stat, socket, ghostVars>>
    BY <1>1, <1>3 DEF ghostVars, Unread, RateWindow!window
  <1> QED
    BY <1>2, <1>3 DEF ReceiverPoll

\* Every step of the servo is a tick, an arrival, a take or a report of the window,
\* or leaves it alone.
LEMMA StepWindow ==
    ASSUME IInv, [Next]_vars
    PROVE  [RateWindow!Next]_(RateWindow!window)
  <1>1. CASE Tick
    <2>1. now' = now + 1 /\ UNCHANGED <<socket, taken, reported>>
      BY <1>1 DEF Tick, linkVars, ghostVars
    <2>2. RateWindow!Tick
      BY <2>1 DEF RateWindow!Tick, Unread
    <2> QED
      BY <2>2 DEF RateWindow!Next
  <1>2. CASE Arrive
    <2>1. /\ Head(data).seq \in 0 .. MaxSent - 1
          /\ Unread' = Unread \union {<<Head(data).seq, now>>}
          /\ UNCHANGED <<now, taken, reported>>
      BY <1>2, ArriveIInv DEF Arrive, ghostVars
    <2>2. RateWindow!Arrive(Head(data).seq)
      BY <2>1 DEF RateWindow!Arrive
    <2> QED
      BY <2>1, <2>2 DEF RateWindow!Next
  <1>3. CASE ReceiverTick
    BY <1>3, TickReports DEF RateWindow!Next
  <1>4. CASE ReceiverPoll
    BY <1>4, PollTakes DEF RateWindow!Next
  <1>5. CASE \/ SenderTick \/ LoseData
             \/ \E f \in feedbacks : SenderRecv(f) \/ LoseFeedback(f)
    BY <1>5 DEF SenderTick, LoseData, SenderRecv, LoseFeedback, ghostVars, Unread, RateWindow!window
  <1>6. CASE UNCHANGED vars
    BY <1>6 DEF vars, linkVars, ghostVars, Unread, RateWindow!window
  <1> QED
    BY <1>1, <1>2, <1>3, <1>4, <1>5, <1>6 DEF Next

\* Every report of the receiver counts exactly the packets it has read that the
\* kernel took in the last second, in the order they came: however it dropped the
\* old ones and however long nobody asked, only what still waits in the socket is
\* missing.
THEOREM ServoReportsWindow == Spec => ReportsWindow
  <1>1. IInv /\ [Next]_vars => [RateWindow!Next]_(RateWindow!window)
    BY StepWindow
  <1>2. Spec => RateWindow!Init /\ [][RateWindow!Next]_(RateWindow!window)
    BY InitWindow, Invariance, <1>1, PTL DEF Spec
  <1> QED
    BY <1>2 DEF ReportsWindow, RateWindow!Spec
=============================================================================
