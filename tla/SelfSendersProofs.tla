------------------------- MODULE SelfSendersProofs -------------------------
(***************************************************************************)
(* Proofs about SelfSenders for any number of packets, any set-point, any  *)
(* intervals and thresholds, with and without losses, packets of earlier   *)
(* runs and a clock set back: what the counters of packets under way mean, *)
(* when assertions fail, that the smoothed transit times are credible and  *)
(* that the histogram adds up.                                             *)
(***************************************************************************)
EXTENDS SelfSenders, FiniteSetTheorems, NaturalsInduction, TLAPS

-----------------------------------------------------------------------------
(* Lemmas about the constants and the operators of the model.              *)

LEMMA Constants ==
    /\ Packets \in Nat \ {0} /\ MaxSteered \in Nat \ {0} /\ MaxEnRoute \in Nat \ {0}
    /\ Coarse \in Nat \ {0} /\ Interval \in Nat \ {0} /\ BinWidth \in Nat \ {0}
    /\ IntTop \in Nat \ {0} /\ Wrap \in Nat \ {0} /\ TopRate \in Nat \ {0}
    /\ Start \in Nat \ {0} /\ Threshold \in Nat /\ End \in Nat
    /\ MaxEnRoute < Wrap /\ 2 * MaxSteered < Wrap /\ Start <= End
  BY SendersAssumption

LEMMA LeastNumber ==
    ASSUME NEW T, T \subseteq Nat, T # {}
    PROVE  \E x \in T : \A y \in T : x <= y
  <1>1. PICK x \in T : \A y \in T : ~(<<y, x>> \in OpToRel(<, Nat))
    BY NatLessThanWellFounded, WFMin, Zenon
  <1>2. \A y \in T : ~(y < x)
    BY <1>1 DEF OpToRel
  <1> QED
    BY <1>2

LEMMA LeastIs ==
    ASSUME NEW S \in SUBSET Int, NEW m \in S, \A x \in S : m <= x
    PROVE  Min(S) = m
  <1>1. \A x \in S : (\A y \in S : x <= y) => x = m
    OBVIOUS
  <1> QED
    BY <1>1 DEF Min

LEMMA GreatestIs ==
    ASSUME NEW S \in SUBSET Int, NEW m \in S, \A x \in S : m >= x
    PROVE  Max(S) = m
  <1>1. \A x \in S : (\A y \in S : x >= y) => x = m
    OBVIOUS
  <1> QED
    BY <1>1 DEF Max

LEMMA OfTwo ==
    ASSUME NEW x \in Int, NEW y \in Int
    PROVE  /\ Min({x, y}) = IF x <= y THEN x ELSE y
           /\ Max({x, y}) = IF x >= y THEN x ELSE y
  BY LeastIs, GreatestIs

LEMMA SameDifference ==
    ASSUME NEW a \in Int, NEW b \in Int, NEW c \in Int, NEW d \in Int, NEW e \in Int,
           a = c - e, b - a = d - c
    PROVE  b = d - e
  OBVIOUS

LEMMA WakeBound ==
    ASSUME NEW t \in 0 .. End, NEW d \in 0 .. Coarse + Interval
    PROVE  t \in 0 .. End + Coarse + Interval /\ t + d \in 0 .. End + Coarse + Interval
  BY Constants

\* Quotients.
LEMMA Quotient ==
    ASSUME NEW a \in Nat, NEW d \in Nat \ {0}
    PROVE  a \div d \in Nat /\ d * (a \div d) <= a /\ a < d * (a \div d) + d
  OBVIOUS

LEMMA MoreTimes ==
    ASSUME NEW d \in Nat, NEW p \in Nat, NEW q \in Nat, p + 1 <= q
    PROVE  d * p + d <= d * q
  <1> DEFINE r == q - (p + 1)
  <1>1. r \in Nat /\ q = (p + 1) + r
    OBVIOUS
  <1> HIDE DEF r
  <1>2. d * q = d * p + d + d * r /\ d * r \in Nat
    BY <1>1
  <1>3. d * p \in Nat
    OBVIOUS
  <1> QED
    BY <1>2, <1>3

LEMMA QuotientLess ==
    ASSUME NEW a \in Nat, NEW b \in Nat, a <= b, NEW d \in Nat \ {0}
    PROVE  a \div d <= b \div d
  <1> DEFINE p == b \div d
             q == a \div d
  <1>1. /\ p \in Nat /\ b < d * p + d
        /\ q \in Nat /\ d * q <= a
    BY Quotient
  <1> HIDE DEF p, q
  <1>2. d * p \in Nat /\ d * q \in Nat
    BY <1>1
  <1>3. ~(p + 1 <= q)
    <2> SUFFICES ASSUME p + 1 <= q PROVE FALSE
      OBVIOUS
    <2>1. d * p + d <= d * q
      BY <1>1, MoreTimes
    <2> QED
      BY <1>1, <1>2, <2>1
  <1>4. q <= p
    BY <1>1, <1>3
  <1> QED
    BY <1>4 DEF p, q

LEMMA QuotientSmall ==
    ASSUME NEW a \in Nat, NEW d \in Nat \ {0}
    PROVE  a \div d <= a
  <1> DEFINE q == a \div d
  <1>1. q \in Nat /\ d * q <= a
    BY Quotient
  <1> HIDE DEF q
  <1>2. d * q = q + (d - 1) * q /\ (d - 1) * q \in Nat
    BY <1>1
  <1>3. q <= a
    BY <1>1, <1>2
  <1> QED
    BY <1>3 DEF q

\* Remainders.
LEMMA Turn ==
    ASSUME NEW c \in Nat \ {0}, NEW x \in Int, NEW r \in 0 .. c - 1, x = r \/ x = r + c \/ x = r - c
    PROVE  x % c = r
  OBVIOUS

LEMMA Remainder ==
    ASSUME NEW c \in Nat \ {0}, NEW x \in Int
    PROVE  x % c \in 0 .. c - 1 /\ (x \in Nat => x % c <= x)
  OBVIOUS

\* The delay until the next transmission.
LEMMA DelayBound ==
    ASSUME NEW extra \in Int
    PROVE  Delay(extra) \in 0 .. Coarse + Interval
  <1>1. CASE extra > 0
    <2>1. Interval \div extra \in Nat /\ Interval \div extra <= Interval
      BY <1>1, Constants, Quotient, QuotientSmall
    <2> QED
      BY <1>1, <2>1, Constants DEF Delay
  <1>2. CASE ~(extra > 0)
    BY <1>2, Constants DEF Delay
  <1> QED
    BY <1>1, <1>2

\* The rate estimate stays between its sample and its old value.
LEMMA RatesBound ==
    ASSUME rate \in 0 .. MaxSteered, NEW n \in 0 .. MaxSteered
    PROVE  Rates(n) \subseteq 0 .. MaxSteered
  <1>1. /\ Min({rate, n}) = IF rate <= n THEN rate ELSE n
        /\ Max({rate, n}) = IF rate >= n THEN rate ELSE n
    BY OfTwo
  <1> QED
    BY <1>1, Constants DEF Rates

LEMMA ElementsOf ==
    ASSUME NEW S, NEW list \in Seq(S)
    PROVE  \A k \in 1 .. Len(list) : list[k] \in S
  OBVIOUS

\* What is popped was not young; what is kept is the end of the list.
LEMMA Recents ==
    ASSUME NEW S, NEW list \in Seq(S)
    PROVE  /\ Recent(list) \in Seq(S) /\ Len(Recent(list)) <= Len(list)
           /\ \A k \in 1 .. Len(Recent(list)) : \E j \in 1 .. Len(list) : Recent(list)[k] = list[j]
  <1> DEFINE young == {k \in 1 .. Len(list) : now - list[k] <= Interval}
  <1>1. CASE young = {}
    BY <1>1 DEF Recent
  <1>2. CASE young # {}
    <2>1. young \subseteq Nat /\ young \in SUBSET Int
      OBVIOUS
    <2>2. PICK m \in young : \A k \in young : m <= k
      BY <1>2, <2>1, LeastNumber
    <2> HIDE DEF young
    <2>3. Min(young) = m
      BY <2>1, <2>2, LeastIs
    <2> USE DEF young
    <2>4. Recent(list) = SubSeq(list, m, Len(list)) /\ m \in 1 .. Len(list)
      BY <1>2, <2>3 DEF Recent
    <2> QED
      BY <2>4
  <1> QED
    BY <1>1, <1>2

\* checkCongestion() keeps rate and size in their range, and at their least
\* while the transit time is above the threshold.
LEMMA AdjustedBound ==
    ASSUME NEW v \in 1 .. TopRate, NEW s \in Nat
    PROVE  /\ Adjusted(v, s) \in 1 .. TopRate
           /\ v = 1 /\ s > Threshold => Adjusted(v, s) = 1
  <1>1. v \div 2 \in Nat /\ v \div 2 <= v /\ (v = 1 => v \div 2 = 0)
    OBVIOUS
  <1>2. /\ Max({v \div 2, 1}) = IF v \div 2 >= 1 THEN v \div 2 ELSE 1
        /\ Min({v + 1, TopRate}) = IF v + 1 <= TopRate THEN v + 1 ELSE TopRate
    <2>1. v \div 2 \in Int /\ 1 \in Int /\ v + 1 \in Int /\ TopRate \in Int
      BY <1>1, Constants
    <2> QED
      BY <2>1, OfTwo
  <1> QED
    BY <1>1, <1>2, Constants DEF Adjusted

\* Gaps between arrivals as an int, and their bins.
LEMMA SampleBound ==
    ASSUME NEW t \in Int
    PROVE  /\ Sample(t) \in -IntTop .. IntTop - 1
           /\ t \in Nat /\ t < IntTop => Sample(t) = t
  <1>1. 2 * IntTop \in Nat \ {0} /\ t + IntTop \in Int
    BY Constants
  <1>2. (t + IntTop) % (2 * IntTop) \in 0 .. 2 * IntTop - 1
    BY <1>1, Remainder
  <1>3. t \in Nat /\ t < IntTop => (t + IntTop) % (2 * IntTop) = t + IntTop
    BY <1>1, Constants, Turn
  <1> QED
    BY <1>2, <1>3, Constants DEF Sample

LEMMA BinBound ==
    ASSUME NEW sample \in Int
    PROVE  /\ Bin(sample) \in Int
           /\ Bin(sample) >= 0 => Bin(sample) \in 0 .. IntTop \div BinWidth
           /\ sample \in Nat /\ sample + BinWidth \div 2 < IntTop => Bin(sample) >= 0
  <1> DEFINE sum == Sample(sample + BinWidth \div 2)
  <1>1. BinWidth \div 2 \in Nat
    BY Constants
  <1>2. /\ sum \in -IntTop .. IntTop - 1
        /\ sample \in Nat /\ sample + BinWidth \div 2 < IntTop => sum = sample + BinWidth \div 2
    BY <1>1, SampleBound
  <1>3. Bin(sample) = IF sum < 0 THEN -((-sum) \div BinWidth) ELSE sum \div BinWidth
    BY DEF Bin
  <1> HIDE DEF sum
  <1>4. CASE sum < 0
    <2>1. -sum \in Nat /\ sum \in Int
      BY <1>2, <1>4, Constants
    <2>2. (-sum) \div BinWidth \in Nat
      BY <2>1, Constants, Quotient
    <2>3. IntTop \div BinWidth \in Nat
      BY Constants, Quotient
    <2>4. ~(sample \in Nat /\ sample + BinWidth \div 2 < IntTop)
      BY <1>1, <1>2, <1>4
    <2> QED
      BY <1>3, <1>4, <2>2, <2>3, <2>4
  <1>5. CASE ~(sum < 0)
    <2>1. sum \in Nat /\ sum <= IntTop
      BY <1>2, <1>5, Constants
    <2>2. sum \div BinWidth \in Nat /\ sum \div BinWidth <= IntTop \div BinWidth
          /\ IntTop \div BinWidth \in Nat
      BY <2>1, Constants, Quotient, QuotientLess
    <2> QED
      BY <1>3, <1>5, <2>2
  <1> QED
    BY <1>4, <1>5

OwnPackets == {p \in flight : p[1]}

-----------------------------------------------------------------------------
(* The inductive invariant.                                                *)

Clock == now \in Start .. End /\ last \in 0 .. End

\* Every packet sent is in the network, lost, or received, and this program's
\* packets carry the numbers it has used.  "threads" counts no packets received.
Flying ==
    /\ IsFiniteSet(flight)
    /\ \A p \in flight : IF p[1] THEN p[2] < sent ELSE leftover /\ p[2] = Packets - 1
    /\ Cardinality(OwnPackets) + lost + received <= sent
    /\ program # "threads" /\ stage # "aborted" => Cardinality(OwnPackets) + lost + received = sent

\* The counter may have been taken below zero just before a pass, by one packet.
Steered ==
    program = "steered" =>
        /\ stage \in {"nat", "loop", "poll"} \union Ended
        /\ sent <= MaxSteered /\ ~adjusting
        /\ history \in Seq(Start .. End) /\ Len(history) <= received
        /\ ~wasReset => outstanding = sent - received
        /\ stage = "poll" => outstanding <= sent
        /\ stage \in {"nat", "loop"} => outstanding <= sent \/ outstanding = Wrap - 1
        /\ ~jumped => \A k \in 1 .. Len(history) : history[k] <= now
        /\ stage = "aborted" => jumped

Setpoint ==
    program = "setpoint" =>
        /\ stage \in {"nat", "fill", "recv"} \union Ended
        /\ outstanding = sent - received /\ outstanding <= MaxEnRoute
        /\ received <= Packets /\ ~adjusting
        /\ stage = "recv" => received < Packets /\ outstanding = MaxEnRoute
        /\ \A b \in DOMAIN storage : storage[b] <= received
        /\ ~jumped => last <= now
        /\ stage = "aborted" => jumped \/ now - last + BinWidth \div 2 >= IntTop

\* A transit time is the difference to a time that was noted before, so none is
\* longer than the program has run.
TransitBound(tt) == ~jumped /\ ~leftover => tt <= End - Start

\* The smoothed transit time is between two that were measured.
Smoothed ==
    \E lo, hi \in 1 .. Wrap - 1 :
        samples = {lo, hi} /\ lo <= stt /\ stt <= hi /\ TransitBound(hi)

Threads ==
    program = "threads" =>
        /\ stage \in {"nat", "stamp", "send"} \union Ended /\ stage # "aborted"
        /\ received = 0 /\ sent <= Packets
        /\ stage = "send" => sent < Packets
        /\ ~jumped => \A s \in 0 .. sent - 1 : sent_time[s] \in Start .. now
        /\ ~jumped /\ stage = "send" => sent_time[sent] \in Start .. now
        /\ IF samples = {} THEN stt = 0 /\ ~adjusting /\ rate = 1 /\ sendBytes = 1 ELSE Smoothed
        /\ CongestionHeeded

IInv == TypeOK /\ Clock /\ Flying /\ Steered /\ Setpoint /\ Threads

LEMMA InitIInv == Init => IInv
  <1> SUFFICES ASSUME Init PROVE IInv
    OBVIOUS
  <1>1. /\ program \in {"steered", "setpoint", "threads"} /\ stage = "nat"
        /\ lossy \in BOOLEAN /\ leftover \in BOOLEAN /\ neighbour \in BOOLEAN
        /\ adjusting \in BOOLEAN /\ jumped \in BOOLEAN /\ wasReset \in BOOLEAN
    BY DEF Init
  <1>2. flight = {} \/ (leftover /\ flight = {<<FALSE, Packets - 1>>})
    BY DEF Init
  <1>3. /\ now = Start /\ wake = Start /\ first = 0 /\ sent = 0 /\ received = 0 /\ outstanding = 0
        /\ lost = 0 /\ stt = 0 /\ sendBytes = 1 /\ samples = {} /\ history = <<>> /\ ~adjusting
        /\ last \in {0, Start}
        /\ rate = IF program = "steered" THEN 0 ELSE 1
    BY DEF Init
  <1>4. /\ \A b \in 0 .. IntTop \div BinWidth : storage[b] = 0
        /\ DOMAIN storage = 0 .. IntTop \div BinWidth
        /\ storage \in [0 .. IntTop \div BinWidth -> 0 .. Packets]
        /\ sent_time \in [Seqs -> 0 .. End]
    BY Constants DEF Init
  <1>5. TypeOK
    <2>1. flight \subseteq Packet
      <3>1. <<FALSE, Packets - 1>> \in Packet
        <4>1. Packets - 1 \in 0 .. Packets + MaxEnRoute + MaxSteered
          BY Constants
        <4> QED
          BY <4>1 DEF Packet
      <3> QED
        BY <1>2, <3>1
    <2>2. {lossy, leftover, neighbour, adjusting, jumped, wasReset} \subseteq BOOLEAN
      BY <1>1
    <2>3. {now, last, wake, first} \subseteq 0 .. End + Coarse + Interval
      BY <1>3, Constants
    <2>4. /\ sent \in 0 .. Packets + MaxEnRoute + MaxSteered
          /\ received \in 0 .. Packets + MaxSteered /\ outstanding \in 0 .. Wrap - 1
          /\ lost \in 0 .. Packets + MaxEnRoute + MaxSteered
          /\ sendBytes \in 1 .. TopRate /\ {stt} \union samples \subseteq 0 .. Wrap - 1
      BY <1>3, Constants
    <2>5. rate \in IF program = "threads" THEN 1 .. TopRate ELSE 0 .. MaxSteered
      BY <1>1, <1>3, Constants
    <2>6. \A k \in DOMAIN history : history[k] \in Start .. End
      BY <1>3
    <2> QED
      BY <1>1, <1>4, <2>1, <2>2, <2>3, <2>4, <2>5, <2>6 DEF TypeOK
  <1>6. Clock
    BY <1>3, Constants DEF Clock
  <1>7. Flying
    <2> DEFINE e == <<FALSE, Packets - 1>>
    <2>1. ~e[1] /\ e[2] = Packets - 1
      OBVIOUS
    <2>2. flight = {} \/ (leftover /\ flight = {e})
      BY <1>2
    <2> HIDE DEF e
    <2>3. \A p \in flight : ~p[1] /\ leftover /\ p[2] = Packets - 1
      BY <2>1, <2>2
    <2>4. OwnPackets = {}
      BY <2>3 DEF OwnPackets
    <2>5. IsFiniteSet(flight)
      BY <2>2, FS_EmptySet, FS_Singleton
    <2>6. Cardinality(OwnPackets) = 0
      BY <2>4, FS_EmptySet
    <2> QED
      BY <1>3, <2>3, <2>5, <2>6 DEF Flying
  <1>8. Steered
    BY <1>1, <1>3, Constants DEF Steered
  <1>9. Setpoint
    <2>1. program = "setpoint" => last = 0
      BY DEF Init
    <2> QED
      BY <1>1, <1>3, <1>4, <2>1, Constants DEF Setpoint
  <1>10. Threads
    BY <1>1, <1>3, Constants DEF Threads, CongestionHeeded
  <1> QED
    BY <1>5, <1>6, <1>7, <1>8, <1>9, <1>10 DEF IInv

-----------------------------------------------------------------------------
(* Packets that enter and leave the network.                               *)

LEMMA OwnFinite ==
    ASSUME Flying
    PROVE  IsFiniteSet(OwnPackets) /\ Cardinality(OwnPackets) \in Nat
  BY FS_Subset, FS_CardinalityType DEF Flying, OwnPackets

LEMMA OneMore ==
    ASSUME TypeOK, Flying, flight' = flight \union {<<TRUE, sent>>}
    PROVE  /\ IsFiniteSet(flight')
           /\ Cardinality(OwnPackets)' = Cardinality(OwnPackets) + 1
  <1>1. OwnPackets' = OwnPackets \union {<<TRUE, sent>>}
    <2> DEFINE e == <<TRUE, sent>>
    <2>1. e[1]
      OBVIOUS
    <2>2. flight' = flight \union {e}
      OBVIOUS
    <2> HIDE DEF e
    <2>3. OwnPackets' = OwnPackets \union {e}
      BY <2>1, <2>2 DEF OwnPackets
    <2> QED
      BY <2>3 DEF e
  <1>2. <<TRUE, sent>> \notin OwnPackets
    BY DEF OwnPackets, Flying, TypeOK
  <1> QED
    BY <1>1, <1>2, OwnFinite, FS_AddElement DEF Flying

LEMMA OneLess ==
    ASSUME Flying, NEW p \in flight, flight' = flight \ {p}
    PROVE  /\ IsFiniteSet(flight') /\ Cardinality(OwnPackets)' \in Nat
           /\ Cardinality(OwnPackets)' =
                  IF p[1] THEN Cardinality(OwnPackets) - 1 ELSE Cardinality(OwnPackets)
  <1>1. OwnPackets' = OwnPackets \ {p} /\ (p \in OwnPackets <=> p[1])
    BY DEF OwnPackets
  <1>2. IsFiniteSet(flight')
    BY FS_RemoveElement DEF Flying
  <1>3. Cardinality(OwnPackets)' \in Nat
    BY <1>1, OwnFinite, FS_RemoveElement, FS_CardinalityType
  <1> QED
    BY <1>1, <1>2, <1>3, OwnFinite, FS_RemoveElement

\* A packet is taken: it is counted as received, or not counted because it is
\* of another run or because the program ends.
LEMMA FlyingTaken ==
    ASSUME TypeOK, Flying, NEW p \in flight, flight' = flight \ {p},
           UNCHANGED <<sent, lost, leftover, program>>,
           received' = received \/ (received' = received + 1 /\ p[1] /\ program # "threads"),
           program # "threads" /\ stage' # "aborted" =>
               stage # "aborted" /\ (received' = IF p[1] THEN received + 1 ELSE received)
    PROVE  Flying' /\ received' <= sent
  <1> DEFINE n == Cardinality(OwnPackets)
             m == Cardinality(OwnPackets)'
  <1>1. n \in Nat /\ m \in Nat /\ IsFiniteSet(flight') /\ m = (IF p[1] THEN n - 1 ELSE n)
    BY OneLess, OwnFinite
  <1>2. /\ n + lost + received <= sent
        /\ program # "threads" /\ stage # "aborted" => n + lost + received = sent
    BY DEF Flying
  <1>3. lost \in Nat /\ received \in Nat /\ sent \in Nat
    BY Constants DEF TypeOK
  <1>4. \A q \in flight' : IF q[1] THEN q[2] < sent' ELSE leftover' /\ q[2] = Packets - 1
    BY DEF Flying
  <1> HIDE DEF n, m
  <1>5. m + lost + received' <= sent /\ received' <= sent
    BY <1>1, <1>2, <1>3
  <1>6. program # "threads" /\ stage' # "aborted" => m + lost + received' = sent
    BY <1>1, <1>2, <1>3
  <1> QED
    BY <1>1, <1>4, <1>5, <1>6 DEF Flying, m

\* A packet is sent.
LEMMA FlyingSent ==
    ASSUME TypeOK, Flying, flight' = flight \union {<<TRUE, sent>>}, sent' = sent + 1,
           UNCHANGED <<lost, received, leftover, program>>,
           stage' # "aborted" => stage # "aborted"
    PROVE  Flying'
  <1> DEFINE n == Cardinality(OwnPackets)
             m == Cardinality(OwnPackets)'
  <1>1. m = n + 1 /\ IsFiniteSet(flight') /\ n \in Nat
    BY OneMore, OwnFinite
  <1>2. /\ n + lost + received <= sent
        /\ program # "threads" /\ stage # "aborted" => n + lost + received = sent
    BY DEF Flying
  <1>3. lost \in Nat /\ received \in Nat /\ sent \in Nat
    BY Constants DEF TypeOK
  <1>4. \A p \in flight' : IF p[1] THEN p[2] < sent' ELSE leftover /\ p[2] = Packets - 1
    <2>1. \A p \in flight : IF p[1] THEN p[2] < sent' ELSE leftover /\ p[2] = Packets - 1
      <3> SUFFICES ASSUME NEW p \in flight
                   PROVE  IF p[1] THEN p[2] < sent' ELSE leftover /\ p[2] = Packets - 1
        OBVIOUS
      <3>1. p[2] \in Int
        BY DEF TypeOK, Packet
      <3> QED
        BY <1>3, <3>1 DEF Flying
    <2> DEFINE e == <<TRUE, sent>>
    <2>2. e[1] /\ e[2] < sent'
      BY <1>3
    <2>3. flight' = flight \union {e}
      OBVIOUS
    <2> HIDE DEF e
    <2> QED
      BY <2>1, <2>2, <2>3
  <1> HIDE DEF n, m
  <1>5. m + lost + received <= sent' /\ (n + lost + received = sent => m + lost + received = sent')
    BY <1>1, <1>2, <1>3
  <1> QED
    BY <1>1, <1>2, <1>4, <1>5 DEF Flying, m

\* A step that leaves packets and counts alone.
LEMMA FlyingKept ==
    ASSUME Flying, UNCHANGED <<flight, sent, lost, received, leftover, program>>,
           stage' # "aborted" => stage # "aborted"
    PROVE  Flying'
  <1>1. OwnPackets' = OwnPackets
    BY DEF OwnPackets
  <1> QED
    BY <1>1 DEF Flying

-----------------------------------------------------------------------------
(* The start, the network and the clock.                                   *)

LEMMA GetNatAddrIInv == IInv /\ GetNatAddr => IInv'
  <1> SUFFICES ASSUME IInv, GetNatAddr PROVE IInv'
    OBVIOUS
  <1> USE DEF IInv, netVars, steeredVars, setpointVars, threadVars
  <1>1. /\ stage = "nat" /\ stage' \in {Top, "exit", "blocked"}
        /\ UNCHANGED <<netVars, now, flight, sent, received, outstanding, last, rate,
                       steeredVars, setpointVars, threadVars>>
    BY DEF GetNatAddr
  <1>2. Top = IF program = "steered" THEN "loop" ELSE IF program = "setpoint" THEN "fill" ELSE "stamp"
    BY DEF Top, TypeOK
  <1>3. TypeOK'
    BY <1>1, <1>2 DEF TypeOK, Ended
  <1>4. Clock' /\ Flying'
    BY <1>1, FlyingKept DEF Clock
  <1>5. Steered'
    BY <1>1, <1>2 DEF Steered, Ended, TypeOK
  <1>6. Setpoint'
    BY <1>1, <1>2 DEF Setpoint, Ended, TypeOK
  <1>7. Threads'
    BY <1>1, <1>2 DEF Threads, Ended, TypeOK, Smoothed, TransitBound, CongestionHeeded
  <1> QED
    BY <1>3, <1>4, <1>5, <1>6, <1>7

LEMMA LoseIInv ==
    ASSUME IInv, NEW p \in flight, Lose(p)
    PROVE  IInv'
  <1> USE DEF IInv, steeredVars, setpointVars, threadVars
  <1>1. /\ p \in Packet /\ flight' = flight \ {p}
        /\ lost' = IF p[1] THEN lost + 1 ELSE lost
        /\ UNCHANGED <<program, lossy, leftover, neighbour, jumped, stage, now, sent, received,
                       outstanding, last, rate, steeredVars, setpointVars, threadVars>>
    BY DEF Lose, TypeOK
  <1>2. Flying'
    <2> DEFINE n == Cardinality(OwnPackets)
               m == Cardinality(OwnPackets)'
    <2>1. n \in Nat /\ IsFiniteSet(flight') /\ m = (IF p[1] THEN n - 1 ELSE n)
      BY <1>1, OneLess, OwnFinite
    <2>2. /\ n + lost + received <= sent
          /\ program # "threads" /\ stage # "aborted" => n + lost + received = sent
      BY DEF Flying
    <2>3. \A q \in flight' : IF q[1] THEN q[2] < sent ELSE leftover /\ q[2] = Packets - 1
      BY <1>1 DEF Flying
    <2>4. lost \in Nat /\ received \in Nat /\ sent \in Nat
      BY Constants DEF TypeOK
    <2> HIDE DEF n, m
    <2>5. m + lost' = n + lost
      BY <1>1, <2>1, <2>4
    <2>6. m \in Int /\ lost' \in Int
      BY <1>1, <2>1, <2>4
    <2>7. m + lost' + received = n + lost + received
      BY <2>5
    <2>8. /\ m + lost' + received' <= sent'
          /\ program' # "threads" /\ stage' # "aborted" => m + lost' + received' = sent'
      BY <1>1, <2>2, <2>7
    <2> QED
      BY <1>1, <2>1, <2>3, <2>8 DEF Flying, m
  <1>3. TypeOK'
    <2>1. flight' \subseteq Packet
      BY <1>1 DEF TypeOK
    <2>2. lost' \in 0 .. Packets + MaxEnRoute + MaxSteered
      <3>1. Cardinality(OwnPackets)' \in Nat
        <4>1. OwnPackets' \in SUBSET flight' /\ IsFiniteSet(flight')
          BY <1>2 DEF OwnPackets, Flying
        <4> QED
          BY <4>1, FS_Subset, FS_CardinalityType
      <3> DEFINE m == Cardinality(OwnPackets)'
      <3>2. m + lost' + received' <= sent'
        BY <1>2 DEF Flying
      <3> HIDE DEF m
      <3>3. m \in Nat
        BY <3>1 DEF m
      <3> QED
        BY <1>1, <3>2, <3>3, Constants DEF TypeOK
    <2> QED
      BY <1>1, <2>1, <2>2 DEF TypeOK
  <1>4. Clock' /\ Steered' /\ Setpoint'
    BY <1>1 DEF Clock, Steered, Setpoint
  <1>5. Threads'
    BY <1>1 DEF Threads, Smoothed, TransitBound, CongestionHeeded
  <1> QED
    BY <1>2, <1>3, <1>4, <1>5

LEMMA TickIInv == IInv /\ Tick => IInv'
  <1> SUFFICES ASSUME IInv, Tick PROVE IInv'
    OBVIOUS
  <1> USE DEF IInv, netVars, steeredVars, setpointVars, threadVars
  <1>1. /\ now' = now + 1 /\ now' \in Start .. End /\ now \in Nat /\ stage \notin Ended
        /\ UNCHANGED <<netVars, stage, flight, sent, received, outstanding, last, rate,
                       steeredVars, setpointVars, threadVars>>
    BY Constants DEF Tick, Clock
  <1>2. TypeOK'
    <2>1. now' \in 0 .. End + Coarse + Interval
      BY <1>1, Constants
    <2> QED
      BY <1>1, <2>1 DEF TypeOK
  <1>3. Clock' /\ Flying'
    BY <1>1, FlyingKept DEF Clock
  <1>4. Steered'
    <2>1. \A k : history[k] \in Start .. End /\ history[k] <= now => history[k] <= now'
      BY <1>1, Constants
    <2>2. history \in Seq(Start .. End) => \A k \in 1 .. Len(history) : history[k] \in Start .. End
      BY ElementsOf
    <2> QED
      BY <1>1, <2>1, <2>2 DEF Steered
  <1>5. Setpoint'
    BY <1>1 DEF Setpoint, Ended, Clock
  <1>6. Threads'
    <2>1. \A x : x \in Start .. now => x \in Start .. now'
      BY <1>1, Constants
    <2> QED
      BY <1>1, <2>1 DEF Threads, Smoothed, TransitBound, CongestionHeeded
  <1> QED
    BY <1>2, <1>3, <1>4, <1>5, <1>6

LEMMA SetBackIInv == IInv /\ SetBack => IInv'
  <1> SUFFICES ASSUME IInv, SetBack PROVE IInv'
    OBVIOUS
  <1> USE DEF IInv, steeredVars, setpointVars, threadVars
  <1>1. /\ now' = Start /\ jumped' = TRUE /\ stage \notin Ended
        /\ UNCHANGED <<program, lossy, leftover, neighbour, lost, stage, flight, sent, received,
                       outstanding, last, rate, steeredVars, setpointVars, threadVars>>
    BY DEF SetBack
  <1>2. TypeOK'
    <2>1. now' \in 0 .. End + Coarse + Interval
      BY <1>1, Constants
    <2> QED
      BY <1>1, <2>1 DEF TypeOK
  <1>3. Clock' /\ Flying'
    BY <1>1, FlyingKept, Constants DEF Clock
  <1>4. Steered' /\ Setpoint'
    BY <1>1 DEF Steered, Setpoint
  <1>5. Threads'
    BY <1>1 DEF Threads, Smoothed, TransitBound, CongestionHeeded
  <1> QED
    BY <1>2, <1>3, <1>4, <1>5

-----------------------------------------------------------------------------
(* sender/controlled-delay.cc.                                             *)

\* Without a clock set back no packet is ahead of the clock.
LEMMA SaneUnlessAhead ==
    ASSUME NEW list \in Seq(Start .. End), \A k \in 1 .. Len(list) : list[k] <= now
    PROVE  /\ Sane(list)
           /\ \A k \in 1 .. Len(Recent(list)) : Recent(list)[k] <= now
  <1> DEFINE R == Recent(list)
  <1>1. /\ R \in Seq(Start .. End)
        /\ \A k \in 1 .. Len(R) : \E j \in 1 .. Len(list) : R[k] = list[j]
    BY Recents
  <1>2. \A k \in 1 .. Len(R) : R[k] <= now
    BY <1>1
  <1>3. \A t \in Start .. End : t <= now => now >= t
    BY Constants DEF Clock
  <1> HIDE DEF R
  <1>4. R # <<>> => 1 \in 1 .. Len(R) /\ Head(R) = R[1] /\ R[1] \in Start .. End
    <2> SUFFICES ASSUME R # <<>> PROVE 1 \in 1 .. Len(R) /\ Head(R) = R[1] /\ R[1] \in Start .. End
      OBVIOUS
    <2>1. 1 \in 1 .. Len(R) /\ Head(R) = R[1]
      BY <1>1
    <2> QED
      BY <1>1, <2>1, ElementsOf
  <1>5. R = <<>> \/ now >= Head(R)
    BY <1>2, <1>3, <1>4
  <1> QED
    BY <1>2, <1>5 DEF R, Sane

LEMMA PassIInv == IInv /\ Pass => IInv'
  <1> SUFFICES ASSUME IInv, Pass PROVE IInv'
    OBVIOUS
  <1> USE DEF IInv, netVars, setpointVars, threadVars
  <1>1. /\ program = "steered" /\ stage = "loop"
        /\ UNCHANGED <<netVars, now, received, setpointVars, threadVars>>
    BY DEF Pass, Setpoint, Threads, Ended, TypeOK
  <1>2. /\ history \in Seq(Start .. End) /\ Len(history) <= received /\ Len(history) \in Nat
        /\ sent \in 0 .. MaxSteered /\ received \in Nat /\ lost \in Nat
        /\ outstanding \in 0 .. Wrap - 1 /\ rate \in 0 .. MaxSteered
        /\ ~wasReset => outstanding = sent - received
        /\ outstanding <= sent \/ outstanding = Wrap - 1
        /\ ~jumped => \A k \in 1 .. Len(history) : history[k] <= now
    <2>1. history \in Seq(Start .. End)
      BY <1>1 DEF Steered
    <2>2. Len(history) \in Nat
      BY <2>1
    <2> QED
      BY <1>1, <2>1, <2>2, Constants DEF Steered, TypeOK
  <1>3. now \in Start .. End /\ last \in 0 .. End
    BY DEF Clock
  <1>4. received <= sent
    <2> DEFINE n == Cardinality(OwnPackets)
    <2>1. n \in Nat /\ n + lost + received <= sent
      BY OwnFinite DEF Flying
    <2> HIDE DEF n
    <2> QED
      BY <1>2, <2>1
  <1>5. Setpoint' /\ Threads'
    BY <1>1 DEF Setpoint, Threads
  <1>6. CASE ~Sane(history)
    <2>1. stage' = "aborted" /\ UNCHANGED <<flight, sent, outstanding, last, rate, steeredVars>>
      BY <1>6 DEF Pass
    <2>2. jumped
      BY <1>2, <1>6, SaneUnlessAhead
    <2>3. TypeOK'
      BY <1>1, <2>1 DEF TypeOK, steeredVars, Ended
    <2>4. Steered'
      BY <1>1, <2>1, <2>2 DEF Steered, steeredVars, Ended
    <2>5. Clock' /\ Flying'
      BY <1>1, <2>1, FlyingKept DEF Clock
    <2> QED
      BY <1>5, <2>3, <2>4, <2>5
  <1>7. CASE Sane(history)
    <2> DEFINE kept == Recent(history)
    <2>1. PICK r \in Rates(Len(kept)) :
            LET extra == ExtraPackets(r, outstanding)
                sends == last + Delay(extra) <= now
            IN  /\ sends => sent < MaxSteered
                /\ stage' = "poll"
                /\ history' = kept
                /\ rate' = IF Len(history') <= 2 THEN rate ELSE r
                /\ flight' = IF sends THEN flight \union {<<TRUE, sent>>} ELSE flight
                /\ sent' = IF sends THEN sent + 1 ELSE sent
                /\ last' = IF sends THEN now ELSE last
                /\ outstanding' = IF extra <= 0 THEN 0
                                  ELSE IF sends THEN (outstanding + 1) % Wrap ELSE outstanding
                /\ wasReset' = (wasReset \/ extra <= 0)
                /\ wake' = last' + Delay(extra)
      BY <1>7, Zenon DEF Pass
    <2>2. /\ kept \in Seq(Start .. End) /\ Len(kept) \in Nat /\ Len(kept) <= Len(history)
          /\ ~jumped => \A k \in 1 .. Len(kept) : kept[k] <= now
      BY <1>2, Recents, SaneUnlessAhead
    <2> HIDE DEF kept
    <2>3. r \in 0 .. MaxSteered
      <3>1. Len(kept) \in 0 .. MaxSteered
        BY <1>2, <1>4, <2>2, Constants
      <3> QED
        BY <1>2, <3>1, RatesBound
    <2> DEFINE extra == ExtraPackets(r, outstanding)
               sends == last + Delay(extra) <= now
    <2>4. extra = 3 * r - 2 * outstanding /\ extra \in Int /\ Delay(extra) \in 0 .. Coarse + Interval
      <3>1. extra = 3 * r - 2 * outstanding /\ extra \in Int
        BY <1>2, <2>3, Constants DEF ExtraPackets
      <3> QED
        BY <3>1, DelayBound
    <2> DEFINE d == Delay(extra)
    <2>5. /\ sends => sent < MaxSteered
          /\ stage' = "poll" /\ history' = kept
          /\ rate' = IF Len(kept) <= 2 THEN rate ELSE r
          /\ flight' = IF sends THEN flight \union {<<TRUE, sent>>} ELSE flight
          /\ sent' = IF sends THEN sent + 1 ELSE sent
          /\ last' = IF sends THEN now ELSE last
          /\ outstanding' = IF extra <= 0 THEN 0
                            ELSE IF sends THEN (outstanding + 1) % Wrap ELSE outstanding
          /\ wake' = last' + d
      BY <2>1
    <2>6. wasReset' = (wasReset \/ extra <= 0)
      BY <2>1
    <2> HIDE DEF extra, sends, d
    <2>7. d \in 0 .. Coarse + Interval
      BY <2>4 DEF d
    <2>8. extra > 0 => outstanding <= sent
      BY <1>2, <2>3, <2>4, Constants
    <2>9. /\ sent' \in 0 .. MaxSteered /\ sent' >= sent
          /\ last' \in 0 .. End
          /\ outstanding' \in 0 .. Wrap - 1 /\ outstanding' <= sent'
          /\ extra > 0 => outstanding' - outstanding = sent' - sent
      <3>1. CASE sends
        <4>1. extra > 0 => (outstanding + 1) % Wrap = outstanding + 1
          <5> SUFFICES ASSUME extra > 0 PROVE (outstanding + 1) % Wrap = outstanding + 1
            OBVIOUS
          <5>1. outstanding + 1 \in 0 .. Wrap - 1 /\ outstanding + 1 \in Int
            BY <1>2, <2>5, <2>8, <3>1, Constants
          <5> QED
            BY <5>1, Constants, Turn
        <4> QED
          BY <1>2, <1>3, <2>4, <2>5, <2>8, <3>1, <4>1, Constants
      <3>2. CASE ~sends
        BY <1>2, <1>3, <2>4, <2>5, <2>8, <3>2, Constants
      <3> QED
        BY <3>1, <3>2
    <2>10. wasReset' \in BOOLEAN
      BY <2>6, Zenon DEF TypeOK
    <2>11. ~wasReset' => ~wasReset /\ extra > 0
      <3>1. ~(extra <= 0) => extra > 0
        BY <2>4
      <3> QED
        BY <2>6, <3>1, Zenon
    <2>12. Flying'
      <3>1. CASE sends
        BY <1>1, <2>5, <3>1, FlyingSent
      <3>2. CASE ~sends
        BY <1>1, <2>5, <3>2, FlyingKept
      <3> QED
        BY <3>1, <3>2
    <2>13. TypeOK'
      <3>1. flight' \subseteq Packet
        <4>1. sent \in 0 .. Packets + MaxEnRoute + MaxSteered
          BY DEF TypeOK
        <4>2. <<TRUE, sent>> \in Packet /\ flight \subseteq Packet
          BY <4>1 DEF Packet, TypeOK
        <4> QED
          BY <2>5, <4>2
      <3>2. sent' \in 0 .. Packets + MaxEnRoute + MaxSteered
        BY <2>9, Constants
      <3>3. {now', last', wake', first'} \subseteq 0 .. End + Coarse + Interval
        <4>1. last' \in 0 .. End + Coarse + Interval /\ wake' \in 0 .. End + Coarse + Interval
          <5>1. wake' = last' + d
            BY <2>5
          <5> QED
            BY <2>7, <2>9, <5>1, WakeBound
        <4> QED
          BY <1>1, <4>1 DEF TypeOK
      <3>4. rate' \in 0 .. MaxSteered
        BY <1>2, <2>3, <2>5
      <3>5. \A k \in DOMAIN history' : history'[k] \in Start .. End
        <4>1. DOMAIN kept = 1 .. Len(kept) /\ \A k \in 1 .. Len(kept) : kept[k] \in Start .. End
          <5>1. kept \in Seq(Start .. End)
            BY <2>2
          <5>2. DOMAIN kept = 1 .. Len(kept)
            BY <5>1
          <5> QED
            BY <5>1, <5>2, ElementsOf
        <4> QED
          BY <2>5, <4>1
      <3>6. program' = "steered"
        BY <1>1
      <3> QED
        BY <1>1, <2>5, <2>9, <2>10, <3>1, <3>2, <3>3, <3>4, <3>5, <3>6 DEF TypeOK
    <2>14. Clock'
      BY <1>1, <1>3, <2>9 DEF Clock
    <2>15. Steered'
      <3>1. ~wasReset' => outstanding' = sent' - received
        <4> SUFFICES ASSUME ~wasReset' PROVE outstanding' = sent' - received
          OBVIOUS
        <4>1. outstanding = sent - received /\ outstanding' - outstanding = sent' - sent
          BY <1>2, <2>9, <2>11
        <4>2. /\ outstanding \in Int /\ outstanding' \in Int /\ sent \in Int /\ sent' \in Int
              /\ received \in Int
          BY <1>2, <2>9, Constants
        <4> DEFINE a == outstanding
                   b == outstanding'
                   c == sent
                   e == sent'
        <4>3. a = c - received /\ b - a = e - c
          BY <4>1
        <4>4. a \in Int /\ b \in Int /\ c \in Int /\ e \in Int /\ received \in Int
          BY <4>2
        <4> HIDE DEF a, b, c, e
        <4>5. b = e - received
          BY <4>3, <4>4, SameDifference
        <4> QED
          BY <4>5 DEF b, e
      <3>2. Len(kept) <= received
        BY <1>2, <2>2
      <3> QED
        BY <1>1, <2>2, <2>5, <2>9, <3>1, <3>2 DEF Steered
    <2> QED
      BY <1>5, <2>12, <2>13, <2>14, <2>15
  <1> QED
    BY <1>6, <1>7

LEMMA TimeoutIInv == IInv /\ Timeout => IInv'
  <1> SUFFICES ASSUME IInv, Timeout PROVE IInv'
    OBVIOUS
  <1> USE DEF IInv, netVars, steeredVars, setpointVars, threadVars
  <1>1. /\ program = "steered" /\ stage = "poll" /\ stage' = "loop"
        /\ UNCHANGED <<netVars, now, flight, sent, received, outstanding, last, rate,
                       steeredVars, setpointVars, threadVars>>
    BY DEF Timeout, Setpoint, Threads, Ended, TypeOK
  <1>2. TypeOK' /\ Clock' /\ Steered' /\ Setpoint' /\ Threads'
    BY <1>1 DEF TypeOK, Clock, Steered, Setpoint, Threads
  <1>3. Flying'
    BY <1>1, FlyingKept
  <1> QED
    BY <1>2, <1>3

LEMMA TakeSteeredIInv ==
    ASSUME IInv, NEW p \in flight, TakeSteered(p)
    PROVE  IInv'
  <1> USE DEF IInv, netVars, setpointVars, threadVars
  <1> DEFINE list == Append(history, now)
  <1>1. /\ program = "steered" /\ stage = "poll" /\ flight' = flight \ {p}
        /\ UNCHANGED <<netVars, now, sent, last, rate, wake, wasReset, setpointVars, threadVars>>
    BY DEF TakeSteered, Setpoint, Threads, Ended, TypeOK
  <1>2. IF p[1] /\ Sane(list)
        THEN /\ history' = Recent(list)
             /\ outstanding' = (outstanding - 1) % Wrap
             /\ received' = received + 1
        ELSE UNCHANGED <<outstanding, received, history>>
    BY DEF TakeSteered, Own
  <1>3. stage' = IF p[1] => Sane(list) THEN "loop" ELSE "aborted"
    BY DEF TakeSteered, Own
  <1>4. /\ history \in Seq(Start .. End) /\ Len(history) <= received /\ Len(history) \in Nat
        /\ sent \in 0 .. MaxSteered /\ received \in Nat
        /\ outstanding \in 0 .. Wrap - 1 /\ outstanding <= sent
        /\ ~wasReset => outstanding = sent - received
        /\ ~jumped => \A k \in 1 .. Len(history) : history[k] <= now
        /\ now \in Start .. End
    <2>1. history \in Seq(Start .. End)
      BY <1>1 DEF Steered
    <2>2. Len(history) \in Nat
      BY <2>1
    <2> QED
      BY <1>1, <2>1, <2>2, Constants DEF Steered, TypeOK, Clock
  <1>5. /\ list \in Seq(Start .. End) /\ Len(list) = Len(history) + 1
        /\ ~jumped => \A k \in 1 .. Len(list) : list[k] <= now
    <2>1. list \in Seq(Start .. End) /\ Len(list) = Len(history) + 1
      BY <1>4
    <2>2. now <= now
      BY <1>4, Constants
    <2>3. \A k \in 1 .. Len(list) : list[k] = now \/ (k \in 1 .. Len(history) /\ list[k] = history[k])
      BY <1>4
    <2> QED
      BY <1>4, <2>1, <2>2, <2>3
  <1>6. /\ Recent(list) \in Seq(Start .. End) /\ Len(Recent(list)) <= Len(list)
        /\ Len(Recent(list)) \in Nat
        /\ ~jumped => Sane(list) /\ \A k \in 1 .. Len(Recent(list)) : Recent(list)[k] <= now
    <2>1. Recent(list) \in Seq(Start .. End) /\ Len(Recent(list)) <= Len(list)
      BY <1>5, Recents
    <2>2. Len(Recent(list)) \in Nat
      BY <2>1
    <2> QED
      BY <1>5, <2>1, <2>2, SaneUnlessAhead
  <1>7. Flying' /\ received' <= sent
    <2>1. received' = received \/ (received' = received + 1 /\ p[1] /\ program # "threads")
      BY <1>1, <1>2
    <2>2. stage' # "aborted" => stage # "aborted" /\ (received' = IF p[1] THEN received + 1 ELSE received)
      BY <1>1, <1>2, <1>3
    <2> QED
      BY <1>1, <2>1, <2>2, FlyingTaken
  <1>8. Setpoint' /\ Threads' /\ Clock'
    BY <1>1 DEF Setpoint, Threads, Clock
  <1> HIDE DEF list
  <1>9. CASE p[1] /\ Sane(list)
    <2>1. /\ history' = Recent(list) /\ outstanding' = (outstanding - 1) % Wrap
          /\ received' = received + 1 /\ stage' = "loop"
      BY <1>2, <1>3, <1>9
    <2>2. (outstanding - 1) % Wrap = IF outstanding = 0 THEN Wrap - 1 ELSE outstanding - 1
      <3>1. CASE outstanding = 0
        <4>1. Wrap - 1 \in 0 .. Wrap - 1 /\ outstanding - 1 = (Wrap - 1) - Wrap /\ outstanding - 1 \in Int
          BY <3>1, Constants
        <4> QED
          BY <3>1, <4>1, Constants, Turn
      <3>2. CASE outstanding # 0
        <4>1. outstanding - 1 \in 0 .. Wrap - 1 /\ outstanding - 1 \in Int
          BY <1>4, <3>2, Constants
        <4> QED
          BY <3>2, <4>1, Constants, Turn
      <3> QED
        BY <3>1, <3>2
    <2>3. /\ outstanding' \in 0 .. Wrap - 1
          /\ outstanding' <= sent \/ outstanding' = Wrap - 1
          /\ ~wasReset => outstanding' = sent - received'
      <3>1. received + 1 <= sent
        BY <1>7, <2>1
      <3>2. ~wasReset => outstanding # 0
        BY <1>4, <3>1, Constants
      <3> QED
        BY <1>4, <2>1, <2>2, <3>2, Constants
    <2>4. Len(history') <= received' /\ received' \in 0 .. Packets + MaxSteered
      BY <1>4, <1>5, <1>6, <1>7, <2>1, Constants
    <2>5. Steered'
      BY <1>1, <1>4, <1>6, <2>1, <2>3, <2>4 DEF Steered
    <2>6. TypeOK'
      <3>1. \A k \in DOMAIN history' : history'[k] \in Start .. End
        <4>1. DOMAIN Recent(list) = 1 .. Len(Recent(list))
          BY <1>6
        <4> QED
          BY <1>6, <2>1, <4>1, ElementsOf
      <3>2. flight' \subseteq Packet
        BY <1>1 DEF TypeOK
      <3> QED
        BY <1>1, <2>1, <2>3, <2>4, <3>1, <3>2 DEF TypeOK
    <2> QED
      BY <1>7, <1>8, <2>5, <2>6
  <1>10. CASE ~(p[1] /\ Sane(list))
    <2>1. UNCHANGED <<outstanding, received, history>> /\ stage' \in {"loop", "aborted"}
      BY <1>2, <1>3, <1>10
    <2>2. stage' = "aborted" => jumped
      BY <1>3, <1>6
    <2>3. Steered'
      BY <1>1, <1>4, <2>1, <2>2 DEF Steered, Ended
    <2>4. TypeOK'
      BY <1>1, <2>1 DEF TypeOK, Ended
    <2> QED
      BY <1>7, <1>8, <2>3, <2>4
  <1> QED
    BY <1>9, <1>10

-----------------------------------------------------------------------------
(* sender/buffer-setpoint.cc.                                              *)

LEMMA FillIInv == IInv /\ Fill => IInv'
  <1> SUFFICES ASSUME IInv, Fill PROVE IInv'
    OBVIOUS
  <1> USE DEF IInv, netVars, steeredVars, setpointVars, threadVars
  <1>1. /\ program = "setpoint" /\ stage = "fill"
        /\ UNCHANGED <<netVars, now, received, last, rate, steeredVars, setpointVars, threadVars>>
    BY DEF Fill, Steered, Threads, Ended, TypeOK
  <1>2. /\ outstanding = sent - received /\ outstanding <= MaxEnRoute /\ received <= Packets
        /\ received \in Nat /\ sent \in Nat /\ outstanding \in Nat /\ lost \in Nat
    BY <1>1, Constants DEF Setpoint, TypeOK
  <1>3. Steered' /\ Threads' /\ Clock'
    BY <1>1 DEF Steered, Threads, Clock
  <1>4. CASE received < Packets /\ outstanding < MaxEnRoute
    <2>1. /\ flight' = flight \union {<<TRUE, sent>>} /\ sent' = sent + 1
          /\ outstanding' = outstanding + 1 /\ stage' = stage
      BY <1>4 DEF Fill
    <2>2. /\ outstanding' = sent' - received /\ outstanding' <= MaxEnRoute
          /\ outstanding' \in 0 .. Wrap - 1
          /\ sent' \in 0 .. Packets + MaxEnRoute + MaxSteered
      BY <1>2, <1>4, <2>1, Constants
    <2>3. Setpoint'
      BY <1>1, <1>2, <2>1, <2>2 DEF Setpoint
    <2>4. TypeOK'
      <3>1. flight' \subseteq Packet
        <4>1. sent \in 0 .. Packets + MaxEnRoute + MaxSteered
          BY DEF TypeOK
        <4>2. <<TRUE, sent>> \in Packet /\ flight \subseteq Packet
          BY <4>1 DEF Packet, TypeOK
        <4> QED
          BY <2>1, <4>2
      <3> QED
        BY <1>1, <2>1, <2>2, <3>1 DEF TypeOK
    <2>5. Flying'
      BY <1>1, <2>1, FlyingSent
    <2> QED
      BY <1>3, <2>3, <2>4, <2>5
  <1>5. CASE ~(received < Packets /\ outstanding < MaxEnRoute)
    <2>1. /\ stage' = IF received < Packets THEN "recv" ELSE "done"
          /\ UNCHANGED <<flight, sent, outstanding>>
      BY <1>5 DEF Fill
    <2>2. received < Packets => outstanding = MaxEnRoute
      BY <1>2, <1>5, Constants
    <2>3. Setpoint'
      BY <1>1, <1>2, <2>1, <2>2 DEF Setpoint, Ended
    <2>4. TypeOK'
      BY <1>1, <2>1 DEF TypeOK, Ended
    <2>5. Flying'
      BY <1>1, <2>1, FlyingKept
    <2> QED
      BY <1>3, <2>3, <2>4, <2>5
  <1> QED
    BY <1>4, <1>5

LEMMA TakeSetpointIInv ==
    ASSUME IInv, NEW p \in flight, TakeSetpoint(p)
    PROVE  IInv'
  <1> USE DEF IInv, netVars, steeredVars, threadVars
  <1> DEFINE bin == Bin(Sample(now - last))
  <1>1. /\ program = "setpoint" /\ stage = "recv" /\ flight' = flight \ {p}
        /\ UNCHANGED <<netVars, now, sent, rate, steeredVars, threadVars>>
    BY DEF TakeSetpoint, Steered, Threads, Ended, TypeOK
  <1>2. IF ~p[1] THEN stage' = "fill" /\ UNCHANGED <<outstanding, received, last, setpointVars>>
        ELSE IF last > 0 /\ bin < 0
        THEN stage' = "aborted" /\ UNCHANGED <<outstanding, received, last, setpointVars>>
        ELSE /\ stage' = "fill"
             /\ storage' = IF last > 0 THEN [storage EXCEPT ![bin] = @ + 1] ELSE storage
             /\ first' = IF last > 0 THEN first ELSE now
             /\ last' = now
             /\ outstanding' = outstanding - 1
             /\ received' = received + 1
    BY DEF TakeSetpoint, Own, EnRouteAfter
  <1>3. /\ outstanding = sent - received /\ outstanding <= MaxEnRoute /\ received < Packets
        /\ received \in Nat /\ sent \in Nat /\ outstanding \in 0 .. Wrap - 1
        /\ now \in Start .. End /\ last \in 0 .. End
    BY <1>1, Constants DEF Setpoint, TypeOK, Clock
  <1>4. Flying' /\ received' <= sent
    <2>1. received' = received \/ (received' = received + 1 /\ p[1] /\ program # "threads")
      BY <1>1, <1>2
    <2>2. stage' # "aborted" => stage # "aborted" /\ (received' = IF p[1] THEN received + 1 ELSE received)
      BY <1>1, <1>2
    <2> QED
      BY <1>1, <2>1, <2>2, FlyingTaken
  <1>5. /\ bin \in Int
        /\ bin >= 0 => bin \in 0 .. IntTop \div BinWidth
        /\ now - last \in Nat /\ now - last + BinWidth \div 2 < IntTop => bin >= 0
    <2>1. now - last \in Int /\ BinWidth \div 2 \in Nat /\ IntTop \in Nat
      BY <1>3, Constants
    <2>2. /\ Sample(now - last) \in Int
          /\ now - last \in Nat /\ now - last < IntTop => Sample(now - last) = now - last
      BY <2>1, SampleBound, Constants
    <2>3. now - last \in Nat /\ now - last + BinWidth \div 2 < IntTop => now - last < IntTop
      BY <2>1
    <2> QED
      BY <2>2, <2>3, BinBound
  <1> HIDE DEF bin
  <1>6. Steered' /\ Threads'
    BY <1>1 DEF Steered, Threads
  <1>7. Clock'
    BY <1>1, <1>2, <1>3, Constants DEF Clock
  <1>8. flight' \subseteq Packet
    BY <1>1 DEF TypeOK
  <1>9. CASE ~p[1]
    <2>1. stage' = "fill" /\ UNCHANGED <<outstanding, received, last, setpointVars>>
      BY <1>2, <1>9
    <2>2. Setpoint'
      BY <1>1, <2>1 DEF Setpoint, setpointVars
    <2>3. TypeOK'
      BY <1>1, <1>8, <2>1 DEF TypeOK, setpointVars
    <2> QED
      BY <1>4, <1>6, <1>7, <2>2, <2>3
  <1>10. CASE p[1] /\ last > 0 /\ bin < 0
    <2>1. stage' = "aborted" /\ UNCHANGED <<outstanding, received, last, setpointVars>>
      BY <1>2, <1>10
    <2>2. jumped \/ now - last + BinWidth \div 2 >= IntTop
      <3> SUFFICES ASSUME ~jumped, now - last + BinWidth \div 2 < IntTop PROVE FALSE
        BY <1>3, Constants
      <3>1. now - last \in Nat
        BY <1>1, <1>3, Constants DEF Setpoint
      <3> QED
        BY <1>5, <1>10, <3>1
    <2>3. Setpoint'
      BY <1>1, <2>1, <2>2 DEF Setpoint, setpointVars, Ended
    <2>4. TypeOK'
      BY <1>1, <1>8, <2>1 DEF TypeOK, setpointVars, Ended
    <2> QED
      BY <1>4, <1>6, <1>7, <2>3, <2>4
  <1>11. CASE p[1] /\ ~(last > 0 /\ bin < 0)
    <2>1. /\ stage' = "fill"
          /\ storage' = IF last > 0 THEN [storage EXCEPT ![bin] = @ + 1] ELSE storage
          /\ first' = IF last > 0 THEN first ELSE now
          /\ last' = now
          /\ outstanding' = outstanding - 1
          /\ received' = received + 1
      BY <1>2, <1>11
    <2>2. last > 0 => bin \in 0 .. IntTop \div BinWidth
      BY <1>3, <1>5, <1>11
    <2>3. /\ storage \in [0 .. IntTop \div BinWidth -> 0 .. Packets]
          /\ \A b \in 0 .. IntTop \div BinWidth : storage[b] \in 0 .. Packets /\ storage[b] <= received
      BY <1>1 DEF TypeOK, Setpoint
    <2>4. /\ storage' \in [0 .. IntTop \div BinWidth -> 0 .. Packets]
          /\ \A b \in 0 .. IntTop \div BinWidth : storage'[b] <= received + 1
      <3>1. \A n \in 0 .. Packets : n <= received => n <= received + 1 /\ n + 1 \in 0 .. Packets /\ n + 1 <= received + 1
        BY <1>3, Constants
      <3>2. CASE last > 0
        BY <2>1, <2>2, <2>3, <3>1, <3>2
      <3>3. CASE ~(last > 0)
        BY <2>1, <2>3, <3>1, <3>3
      <3> QED
        BY <3>2, <3>3
    <2>5. outstanding' \in 0 .. Wrap - 1 /\ outstanding' = sent - received' /\ outstanding' <= MaxEnRoute
      BY <1>3, <1>4, <2>1, Constants
    <2>6. received' <= Packets /\ received' \in 0 .. Packets + MaxSteered
      BY <1>3, <2>1, Constants
    <2>7. now <= now
      BY <1>3, Constants
    <2>8. Setpoint'
      BY <1>1, <2>1, <2>4, <2>5, <2>6, <2>7 DEF Setpoint
    <2>9. TypeOK'
      <3>1. {now', last', wake', first'} \subseteq 0 .. End + Coarse + Interval
        BY <1>1, <2>1 DEF TypeOK
      <3> QED
        BY <1>1, <1>8, <2>1, <2>4, <2>5, <2>6, <3>1 DEF TypeOK
    <2> QED
      BY <1>4, <1>6, <1>7, <2>8, <2>9
  <1> QED
    BY <1>9, <1>10, <1>11

-----------------------------------------------------------------------------
(* one-way-delay/sender/ethernetToLte.cc.                                  *)

LEMMA StampIInv == IInv /\ Stamp => IInv'
  <1> SUFFICES ASSUME IInv, Stamp PROVE IInv'
    OBVIOUS
  <1> USE DEF IInv, netVars, steeredVars, setpointVars
  <1>1. /\ program = "threads" /\ stage = "stamp"
        /\ UNCHANGED <<netVars, now, flight, sent, received, outstanding, last, rate,
                       steeredVars, setpointVars, stt, sendBytes, adjusting, samples>>
    BY DEF Stamp, Steered, Setpoint, Ended, TypeOK
  <1>2. Steered' /\ Setpoint' /\ Clock' /\ Flying'
    <2>1. stage' # "aborted"
      BY DEF Stamp
    <2> QED
      BY <1>1, <2>1, FlyingKept DEF Steered, Setpoint, Clock
  <1>3. /\ sent \in Nat /\ now \in Start .. End /\ now \in 0 .. End /\ now \in Start .. now
        /\ sent_time \in [Seqs -> 0 .. End]
    BY Constants DEF TypeOK, Clock
  <1>4. CASE sent < Packets
    <2>1. sent_time' = [sent_time EXCEPT ![sent] = now] /\ stage' = "send"
      BY <1>4 DEF Stamp, Stamped
    <2>2. sent \in Seqs
      BY <1>3, <1>4, Constants DEF Seqs
    <2>3. TypeOK'
      <3>1. sent_time' \in [Seqs -> 0 .. End]
        BY <1>3, <2>1
      <3> QED
        BY <1>1, <2>1, <3>1 DEF TypeOK
    <2>4. sent_time'[sent] = now /\ \A s \in 0 .. sent - 1 : sent_time'[s] = sent_time[s]
      <3>1. \A s \in 0 .. sent - 1 : s \in Seqs /\ s # sent
        BY <1>3, <1>4, Constants DEF Seqs
      <3> QED
        BY <1>3, <2>1, <2>2, <3>1
    <2>5. Threads'
      BY <1>1, <1>3, <1>4, <2>1, <2>4 DEF Threads, Smoothed, TransitBound, CongestionHeeded
    <2> QED
      BY <1>2, <2>3, <2>5
  <1>5. CASE ~(sent < Packets)
    <2>1. sent_time' = sent_time /\ stage' = "done"
      BY <1>5 DEF Stamp
    <2>2. TypeOK'
      BY <1>1, <2>1 DEF TypeOK, Ended
    <2>3. Threads'
      BY <1>1, <2>1 DEF Threads, Smoothed, TransitBound, CongestionHeeded, Ended
    <2> QED
      BY <1>2, <2>2, <2>3
  <1> QED
    BY <1>4, <1>5

LEMMA SendStampedIInv == IInv /\ SendStamped => IInv'
  <1> SUFFICES ASSUME IInv, SendStamped PROVE IInv'
    OBVIOUS
  <1> USE DEF IInv, netVars, steeredVars, setpointVars, threadVars
  <1>1. /\ program = "threads" /\ stage = "send" /\ stage' = "stamp"
        /\ flight' = flight \union {<<TRUE, sent>>} /\ sent' = sent + 1
        /\ UNCHANGED <<netVars, now, received, outstanding, last, rate,
                       steeredVars, setpointVars, threadVars>>
    BY DEF SendStamped, Steered, Setpoint, Ended, TypeOK
  <1>2. sent \in Nat /\ sent < Packets
    BY <1>1, Constants DEF TypeOK, Threads
  <1>3. Steered' /\ Setpoint' /\ Clock'
    BY <1>1 DEF Steered, Setpoint, Clock
  <1>4. Flying'
    BY <1>1, FlyingSent
  <1>5. TypeOK'
    <2>1. flight' \subseteq Packet
      <3>1. sent \in 0 .. Packets + MaxEnRoute + MaxSteered
        BY DEF TypeOK
      <3>2. <<TRUE, sent>> \in Packet /\ flight \subseteq Packet
        BY <3>1 DEF Packet, TypeOK
      <3> QED
        BY <1>1, <3>2
    <2>2. sent' \in 0 .. Packets + MaxEnRoute + MaxSteered
      BY <1>1, <1>2, Constants
    <2> QED
      BY <1>1, <2>1, <2>2 DEF TypeOK
  <1>6. Threads'
    <2>1. \A s \in 0 .. sent' - 1 : s \in 0 .. sent - 1 \/ s = sent
      BY <1>1, <1>2
    <2>2. sent' <= Packets
      BY <1>1, <1>2, Constants
    <2> QED
      BY <1>1, <2>1, <2>2 DEF Threads, Smoothed, TransitBound, CongestionHeeded
  <1> QED
    BY <1>3, <1>4, <1>5, <1>6

\* The smoothed time stays between the least and the greatest measured.
LEMMA Smoothing ==
    ASSUME NEW lo \in Nat, NEW hi \in Nat, NEW s \in Nat, NEW tt \in Nat,
           1 <= lo, lo <= s, s <= hi
    PROVE  /\ UpdateStt(tt, s) \in Nat
           /\ (IF lo <= tt THEN lo ELSE tt) <= UpdateStt(tt, s)
           /\ UpdateStt(tt, s) <= (IF hi >= tt THEN hi ELSE tt)
  BY DEF UpdateStt

LEMMA Extremes ==
    ASSUME NEW lo \in Nat, NEW hi \in Nat, NEW tt \in Nat, lo <= hi
    PROVE  /\ Min({lo, hi} \union {tt}) = IF lo <= tt THEN lo ELSE tt
           /\ Max({lo, hi} \union {tt}) = IF hi >= tt THEN hi ELSE tt
  <1> DEFINE S == {lo, hi} \union {tt}
             m == IF lo <= tt THEN lo ELSE tt
             g == IF hi >= tt THEN hi ELSE tt
  <1>1. S \in SUBSET Int /\ m \in S /\ g \in S
    OBVIOUS
  <1>2. \A x \in S : m <= x /\ g >= x
    OBVIOUS
  <1> HIDE DEF S, m, g
  <1>3. Min(S) = m /\ Max(S) = g
    BY <1>1, <1>2, LeastIs, GreatestIs
  <1> QED
    BY <1>3 DEF S, m, g

LEMMA HearIInv ==
    ASSUME IInv, NEW p \in flight, Hear(p)
    PROVE  IInv'
  <1> USE DEF IInv, netVars, steeredVars, setpointVars
  <1> DEFINE tt == (now - sent_time[p[2]]) % Wrap
  <1>1. /\ program = "threads" /\ stage \in {"stamp", "send"} /\ ~adjusting
        /\ flight' = flight \ {p} /\ tt # 0
        /\ UNCHANGED <<netVars, now, sent, received, outstanding, last, rate,
                       steeredVars, setpointVars, sent_time>>
    BY DEF Hear
  <1>2. IF neighbour
        THEN stage' = "crashed" /\ UNCHANGED <<stt, sendBytes, adjusting, samples>>
        ELSE /\ stt' = UpdateStt(tt, stt)
             /\ samples' = {Min(samples \union {tt}), Max(samples \union {tt})}
             /\ sendBytes' = Adjusted(sendBytes, stt')
             /\ adjusting' = TRUE
             /\ UNCHANGED stage
    BY DEF Hear
  <1>3. /\ now \in Start .. End /\ sent \in Nat /\ sent <= Packets
        /\ sent_time \in [Seqs -> 0 .. End]
        /\ stt \in 0 .. Wrap - 1 /\ sendBytes \in 1 .. TopRate /\ rate \in 1 .. TopRate
    BY <1>1, Constants DEF Clock, TypeOK, Threads
  <1>4. p[2] \in Seqs /\ (~leftover => p[2] \in 0 .. sent - 1)
    <2>1. p[2] \in Nat
      BY DEF TypeOK, Packet
    <2>2. IF p[1] THEN p[2] < sent ELSE leftover /\ p[2] = Packets - 1
      BY DEF Flying
    <2> QED
      BY <1>3, <2>1, <2>2, Constants DEF Seqs
  <1>5. tt \in 1 .. Wrap - 1 /\ TransitBound(tt)
    <2> DEFINE t == sent_time[p[2]]
    <2>1. t \in 0 .. End /\ now \in Int
      BY <1>3, <1>4, Constants
    <2>2. ~jumped /\ ~leftover => t \in Start .. now
      BY <1>1, <1>4 DEF Threads
    <2>3. tt = (now - t) % Wrap
      OBVIOUS
    <2> HIDE DEF t, tt
    <2>4. tt \in 0 .. Wrap - 1 /\ (now - t \in Nat => tt <= now - t)
      <3> DEFINE x == now - t
      <3>1. x \in Int /\ tt = x % Wrap
        BY <2>1, <2>3
      <3> HIDE DEF x
      <3>2. x % Wrap \in 0 .. Wrap - 1 /\ (x \in Nat => x % Wrap <= x)
        BY <3>1, Constants, Remainder
      <3>3. tt \in 0 .. Wrap - 1 /\ (x \in Nat => tt <= x)
        BY <3>1, <3>2
      <3> QED
        BY <3>3 DEF x
    <2>5. ~jumped /\ ~leftover => now - t \in Nat /\ now - t <= End - Start
      BY <1>3, <2>1, <2>2, Constants
    <2>6. ~jumped /\ ~leftover => tt <= End - Start
      BY <1>3, <2>1, <2>4, <2>5, Constants
    <2> QED
      BY <1>1, <2>4, <2>6, Constants DEF TransitBound
  <1> HIDE DEF tt
  <1>6. Flying'
    <2>1. received' = received /\ program = "threads" /\ UNCHANGED <<sent, lost, leftover, program>>
      BY <1>1
    <2> QED
      BY <1>1, <2>1, FlyingTaken
  <1>7. Clock' /\ Steered' /\ Setpoint' /\ flight' \subseteq Packet
    BY <1>1 DEF Clock, Steered, Setpoint, TypeOK
  <1>8. CASE neighbour
    <2>1. stage' = "crashed" /\ UNCHANGED <<stt, sendBytes, adjusting, samples>>
      BY <1>2, <1>8
    <2>2. TypeOK'
      BY <1>1, <1>7, <2>1 DEF TypeOK, Ended
    <2>3. Threads'
      BY <1>1, <2>1 DEF Threads, Smoothed, TransitBound, CongestionHeeded, Ended
    <2> QED
      BY <1>6, <1>7, <2>2, <2>3
  <1>9. CASE ~neighbour
    <2>1. /\ stt' = UpdateStt(tt, stt)
          /\ samples' = {Min(samples \union {tt}), Max(samples \union {tt})}
          /\ sendBytes' = Adjusted(sendBytes, stt')
          /\ adjusting' = TRUE /\ stage' = stage
      BY <1>2, <1>9
    \* One pair of samples bounds the others, before and after.
    <2>2. \E m, g \in 1 .. Wrap - 1 :
            /\ samples' = {m, g} /\ m <= stt' /\ stt' <= g /\ TransitBound(g)
            /\ m > Threshold => \A x \in samples : x > Threshold
      <3>1. CASE samples = {}
        <4>1. stt = 0
          BY <1>1, <3>1 DEF Threads
        <4>2. stt' = tt
          BY <2>1, <4>1 DEF UpdateStt
        <4>3. tt \in Int /\ samples \union {tt} = {tt, tt}
          BY <1>5, <3>1, Constants
        <4>4. Min({tt, tt}) = tt /\ Max({tt, tt}) = tt
          BY <4>3, OfTwo
        <4>5. samples' = {tt, tt} /\ tt <= tt
          BY <2>1, <4>3, <4>4
        <4> QED
          BY <1>5, <3>1, <4>2, <4>5
      <3>2. CASE samples # {}
        <4>1. PICK lo, hi \in 1 .. Wrap - 1 :
                samples = {lo, hi} /\ lo <= stt /\ stt <= hi /\ TransitBound(hi)
          BY <1>1, <3>2 DEF Threads, Smoothed
        <4> DEFINE m == IF lo <= tt THEN lo ELSE tt
                   g == IF hi >= tt THEN hi ELSE tt
        <4>2. lo \in Nat /\ hi \in Nat /\ tt \in Nat /\ stt \in Nat /\ 1 <= lo /\ lo <= hi
          BY <1>3, <1>5, <4>1, Constants
        <4>3. Min(samples \union {tt}) = m /\ Max(samples \union {tt}) = g
          BY <4>1, <4>2, Extremes
        <4>4. m <= stt' /\ stt' <= g
          BY <2>1, <4>1, <4>2, Smoothing
        <4>5. m \in 1 .. Wrap - 1 /\ g \in 1 .. Wrap - 1
          BY <1>5, Constants
        <4>6. TransitBound(g)
          BY <1>5, <4>1
        <4>7. m > Threshold => \A x \in samples : x > Threshold
          BY <1>5, <4>1, <4>2, Constants
        <4> HIDE DEF m, g
        <4> QED
          BY <2>1, <4>3, <4>4, <4>5, <4>6, <4>7
      <3> QED
        BY <3>1, <3>2
    <2>3. PICK m, g \in 1 .. Wrap - 1 :
            /\ samples' = {m, g} /\ m <= stt' /\ stt' <= g /\ TransitBound(g)
            /\ m > Threshold => \A x \in samples : x > Threshold
      BY <2>2
    <2>4. stt' \in 0 .. Wrap - 1 /\ stt' \in Nat
      <3>1. stt' \in Int
        <4>1. tt \in Nat /\ stt \in Nat
          BY <1>3, <1>5, Constants
        <4> QED
          BY <2>1, <4>1 DEF UpdateStt
      <3> QED
        BY <2>3, <3>1, Constants
    <2>5. /\ sendBytes' \in 1 .. TopRate
          /\ sendBytes = 1 /\ stt' > Threshold => sendBytes' = 1
      BY <1>3, <2>1, <2>4, AdjustedBound
    <2>6. Smoothed'
      <3>1. TransitBound(g)'
        BY <1>1, <2>3 DEF TransitBound
      <3> QED
        BY <2>3, <3>1 DEF Smoothed
    <2>7. CongestionHeeded'
      <3> SUFFICES ASSUME \A x \in samples' : x > Threshold PROVE rate' = 1 /\ sendBytes' = 1
        BY DEF CongestionHeeded
      <3>1. m > Threshold
        BY <2>3
      <3>2. rate = 1 /\ sendBytes = 1
        BY <1>1, <2>3, <3>1 DEF Threads, CongestionHeeded
      <3>3. stt' > Threshold
        BY <2>3, <2>4, <3>1, Constants
      <3> QED
        BY <1>1, <2>5, <3>2, <3>3
    <2>8. Threads'
      <3>1. samples' # {}
        BY <2>3
      <3> QED
        BY <1>1, <2>1, <2>6, <2>7, <3>1 DEF Threads
    <2>9. TypeOK'
      <3>1. {stt'} \union samples' \subseteq 0 .. Wrap - 1
        BY <2>3, <2>4, Constants
      <3> QED
        BY <1>1, <1>7, <2>1, <2>5, <3>1 DEF TypeOK
    <2> QED
      BY <1>6, <1>7, <2>8, <2>9
  <1> QED
    BY <1>8, <1>9

LEMMA SetRateIInv == IInv /\ SetRate => IInv'
  <1> SUFFICES ASSUME IInv, SetRate PROVE IInv'
    OBVIOUS
  <1> USE DEF IInv, netVars, steeredVars, setpointVars
  <1>1. /\ program = "threads" /\ adjusting /\ adjusting' = FALSE
        /\ rate' = Adjusted(rate, stt)
        /\ UNCHANGED <<netVars, stage, now, flight, sent, received, outstanding, last,
                       steeredVars, setpointVars, sent_time, stt, sendBytes, samples>>
    BY DEF SetRate, Steered, Setpoint, TypeOK
  <1>2. rate \in 1 .. TopRate /\ stt \in Nat
    BY <1>1, Constants DEF TypeOK
  <1>3. rate' \in 1 .. TopRate /\ (rate = 1 /\ stt > Threshold => rate' = 1)
    BY <1>1, <1>2, AdjustedBound
  <1>4. samples # {} /\ Smoothed
    BY <1>1 DEF Threads
  <1>5. (\A x \in samples : x > Threshold) => stt > Threshold
    BY <1>2, <1>4, Constants DEF Smoothed
  <1>6. CongestionHeeded'
    BY <1>1, <1>3, <1>5 DEF Threads, CongestionHeeded
  <1>7. Smoothed'
    BY <1>1, <1>4 DEF Smoothed, TransitBound
  <1>8. Threads'
    BY <1>1, <1>4, <1>6, <1>7 DEF Threads
  <1>9. TypeOK'
    BY <1>1, <1>3 DEF TypeOK
  <1>10. Clock' /\ Steered' /\ Setpoint' /\ Flying'
    BY <1>1, FlyingKept DEF Clock, Steered, Setpoint
  <1> QED
    BY <1>8, <1>9, <1>10

-----------------------------------------------------------------------------
(* The theorems.                                                           *)

LEMMA NextIInv == IInv /\ [Next]_vars => IInv'
  <1> SUFFICES ASSUME IInv, [Next]_vars PROVE IInv'
    OBVIOUS
  <1>1. CASE MainThread
    BY <1>1, GetNatAddrIInv, PassIInv, TimeoutIInv, FillIInv, StampIInv, SendStampedIInv DEF MainThread
  <1>2. CASE Tick \/ SetBack \/ SetRate
    BY <1>2, TickIInv, SetBackIInv, SetRateIInv
  <1>3. CASE \E p \in flight : Lose(p) \/ Take(p)
    BY <1>3, LoseIInv, TakeSteeredIInv, TakeSetpointIInv, HearIInv DEF Take
  <1>4. CASE UNCHANGED vars
    <2> USE <1>4 DEF IInv, vars, netVars, steeredVars, setpointVars, threadVars
    <2>1. TypeOK' /\ Clock' /\ Steered' /\ Setpoint'
      BY DEF TypeOK, Clock, Steered, Setpoint
    <2>2. Threads'
      BY DEF Threads, Smoothed, TransitBound, CongestionHeeded
    <2>3. Flying'
      BY FlyingKept
    <2> QED
      BY <2>1, <2>2, <2>3
  <1> QED
    BY <1>1, <1>2, <1>3, <1>4 DEF Next

\* The invariant holds in all three programs: packets are sent, lost and received
\* consistently, and every variable stays in its range.
THEOREM Invariance == Spec => []IInv
  <1> QED
    BY InitIInv, NextIInv, PTL DEF Spec

\* What the counters of packets under way mean: in controlled-delay.cc until the
\* first reset exactly those not received, never more than those sent when it
\* waits; in buffer-setpoint.cc the set-point less all that was ever lost.
THEOREM CountersCorrect == Spec => []CountersConsistent
  <1>1. IInv => CountersConsistent
    <2> SUFFICES ASSUME IInv PROVE CountersConsistent
      OBVIOUS
    <2> USE DEF IInv
    <2>1. CountExact /\ WrapHeals
      BY DEF Steered, CountExact, WrapHeals
    <2>2. SetPointErodes
      <3> SUFFICES ASSUME stage = "recv"
                   PROVE  Cardinality({p \in flight : p[1]}) + lost = MaxEnRoute
        BY DEF SetPointErodes
      <3>1. program = "setpoint"
        BY DEF Steered, Threads, TypeOK, Ended
      <3>2. outstanding = sent - received /\ outstanding = MaxEnRoute
        BY <3>1 DEF Setpoint
      <3> DEFINE n == Cardinality(OwnPackets)
      <3>3. n \in Nat /\ n + lost + received = sent
        BY <3>1, OwnFinite DEF Flying
      <3>4. lost \in Nat /\ sent \in Nat /\ received \in Nat
        BY Constants DEF TypeOK
      <3> HIDE DEF n
      <3>5. n + lost = MaxEnRoute
        BY <3>2, <3>3, <3>4
      <3> QED
        BY <3>5 DEF n, OwnPackets
    <2> QED
      BY <2>1, <2>2 DEF CountersConsistent
  <1> QED
    BY <1>1, Invariance, PTL

\* The assertions in housekeeping() and record() fail only after the clock was
\* set back or after a gap between arrivals that does not fit an int.
THEOREM AssertionsJustified == Spec => []AssertionsHold
  <1>1. IInv => AssertionsHold
    BY DEF IInv, TypeOK, Steered, Setpoint, Threads, AssertionsHold
  <1> QED
    BY <1>1, Invariance, PTL

\* What the receiver thread of ethernetToLte.cc makes of transit times is
\* justified: the smoothed one lies between those measured, none is longer than
\* the run, and a sender all of whose packets were slow has not speeded up.
THEOREM TransitTimesCorrect == Spec => []TransitTimesHeeded
  <1>1. IInv => TransitTimesHeeded
    <2> SUFFICES ASSUME IInv, program = "threads" PROVE TransitTimesHeeded
      BY DEF TransitTimesHeeded, SttCredible, CongestionHeeded
    <2>1. CongestionHeeded
      BY DEF IInv, Threads
    <2>2. SttCredible
      <3> SUFFICES ASSUME samples # {}
                   PROVE  /\ Min(samples) <= stt /\ stt <= Max(samples)
                          /\ ~jumped /\ ~leftover => Max(samples) <= End - Start
        BY DEF SttCredible
      <3>1. PICK lo, hi \in 1 .. Wrap - 1 :
              samples = {lo, hi} /\ lo <= stt /\ stt <= hi /\ TransitBound(hi)
        BY DEF IInv, Threads, Smoothed
      <3>2. lo \in Int /\ hi \in Int /\ stt \in Int /\ lo <= hi
        BY <3>1, Constants DEF IInv, TypeOK
      <3>3. Min(samples) = lo /\ Max(samples) = hi
        BY <3>1, <3>2, OfTwo
      <3> QED
        BY <3>1, <3>3 DEF TransitBound
    <2> QED
      BY <2>1, <2>2 DEF TransitTimesHeeded
  <1> QED
    BY <1>1, Invariance, PTL

-----------------------------------------------------------------------------
(* The histogram.  First, what Total computes.                             *)

\* A set of natural numbers that contains 0, and n + 1 with each n below N,
\* contains all numbers up to N.
LEMMA UpTo ==
    ASSUME NEW N \in Nat, NEW P, 0 \in P, \A n \in 0 .. N - 1 : n \in P => n + 1 \in P
    PROVE  0 .. N \subseteq P
  <1> DEFINE T == {n \in Nat : n <= N /\ n \notin P}
  <1>1. CASE T # {}
    <2>1. PICK m \in T : \A y \in T : m <= y
      BY <1>1, LeastNumber
    <2>2. m # 0 /\ m - 1 \in 0 .. N - 1 /\ m - 1 \notin T
      BY <2>1
    <2>3. m - 1 \in P
      BY <2>2
    <2>4. m - 1 + 1 \in P
      BY <2>2, <2>3
    <2> QED
      BY <2>1, <2>4
  <1> QED
    BY <1>1

\* g gives the sums of f up to n.
Sums(f, n, g) == g = [k \in 0 .. n |-> IF k = 0 THEN f[0] ELSE g[k - 1] + f[k]]

LEMMA SumsExist ==
    ASSUME NEW f, NEW n \in Nat
    PROVE  \E g : Sums(f, n, g)
  <1> DEFINE P == {m \in Nat : \E g : Sums(f, m, g)}
  <1>1. 0 \in P
    <2>1. Sums(f, 0, [k \in 0 .. 0 |-> f[0]])
      BY DEF Sums
    <2> QED
      BY <2>1
  <1>2. ASSUME NEW m \in 0 .. n - 1, m \in P
        PROVE  m + 1 \in P
    <2>1. PICK g : Sums(f, m, g)
      BY <1>2
    <2> DEFINE h == [k \in 0 .. m + 1 |-> IF k = m + 1 THEN g[m] + f[m + 1] ELSE g[k]]
    <2>2. ASSUME NEW k \in 0 .. m + 1
          PROVE  h[k] = IF k = 0 THEN f[0] ELSE h[k - 1] + f[k]
      <3>1. CASE k = m + 1
        BY <3>1
      <3>2. CASE k # m + 1
        <4>1. k \in 0 .. m /\ (k # 0 => k - 1 \in 0 .. m)
          BY <3>2
        <4>2. g[k] = IF k = 0 THEN f[0] ELSE g[k - 1] + f[k]
          BY <2>1, <4>1 DEF Sums
        <4>3. h[k] = g[k] /\ (k # 0 => h[k - 1] = g[k - 1])
          BY <3>2, <4>1
        <4> HIDE DEF h
        <4> QED
          BY <4>2, <4>3
      <3> QED
        BY <3>1, <3>2
    <2>3. h = [k \in 0 .. m + 1 |-> h[k]]
      OBVIOUS
    <2> HIDE DEF h
    <2>4. Sums(f, m + 1, h)
      BY <2>2, <2>3 DEF Sums
    <2> QED
      BY <2>4
  <1> HIDE DEF P
  <1>3. 0 .. n \subseteq P
    BY <1>1, <1>2, UpTo
  <1> QED
    BY <1>3 DEF P

LEMMA SumsUnique ==
    ASSUME NEW f, NEW m \in Nat, NEW n \in Nat, m <= n, NEW g, NEW h, Sums(f, m, g), Sums(f, n, h)
    PROVE  g[m] = h[m]
  <1> DEFINE P == {k \in Nat : g[k] = h[k]}
  <1>1. 0 \in P
    BY DEF Sums
  <1>2. ASSUME NEW k \in 0 .. m - 1, k \in P
        PROVE  k + 1 \in P
    <2>1. k + 1 \in 0 .. m /\ k + 1 \in 0 .. n /\ k + 1 # 0 /\ k + 1 - 1 = k
      OBVIOUS
    <2>2. g[k + 1] = g[k] + f[k + 1] /\ h[k + 1] = h[k] + f[k + 1]
      BY <2>1 DEF Sums
    <2> QED
      BY <1>2, <2>2
  <1> HIDE DEF P
  <1>3. 0 .. m \subseteq P
    BY <1>1, <1>2, UpTo
  <1> QED
    BY <1>3 DEF P

LEMMA TotalUnfolds ==
    ASSUME NEW f
    PROVE  /\ Total(f, 0) = f[0]
           /\ \A n \in Nat : Total(f, n + 1) = Total(f, n) + f[n + 1]
  <1> DEFINE F(n) == CHOOSE g : Sums(f, n, g)
             H == [n \in Nat |-> F(n)[n]]
             AllSums(h) == h = [k \in Nat |-> IF k = 0 THEN f[0] ELSE h[k - 1] + f[k]]
             S == CHOOSE h : AllSums(h)
  <1>1. \A n \in Nat : Sums(f, n, F(n))
    BY SumsExist
  <1> HIDE DEF F
  <1>2. ASSUME NEW k \in Nat
        PROVE  H[k] = IF k = 0 THEN f[0] ELSE H[k - 1] + f[k]
    <2>1. F(k)[k] = IF k = 0 THEN f[0] ELSE F(k)[k - 1] + f[k]
      BY <1>1 DEF Sums
    <2>2. ASSUME k # 0
          PROVE  F(k)[k - 1] = F(k - 1)[k - 1]
      <3>1. k - 1 \in Nat /\ k - 1 <= k
        BY <2>2
      <3> QED
        BY <1>1, <3>1, SumsUnique
    <2>3. k # 0 => k - 1 \in Nat
      OBVIOUS
    <2> QED
      BY <2>1, <2>2, <2>3
  <1>3. H = [k \in Nat |-> H[k]]
    OBVIOUS
  <1> HIDE DEF H
  <1>4. AllSums(H)
    BY <1>2, <1>3
  <1>5. AllSums(S)
    BY <1>4
  <1>6. \A n : Total(f, n) = S[n]
    BY DEF Total
  <1> HIDE DEF S
  <1>7. S[0] = f[0] /\ \A n \in Nat : S[n + 1] = S[n] + f[n + 1]
    BY <1>5
  <1> QED
    BY <1>6, <1>7

\* Nothing adds up to nothing.
LEMMA TotalOfNone ==
    ASSUME NEW f, NEW n \in Nat, \A k \in 0 .. n : f[k] = 0
    PROVE  Total(f, n) = 0
  <1> DEFINE P == {k \in Nat : Total(f, k) = 0}
  <1>1. 0 \in P
    BY TotalUnfolds
  <1>2. ASSUME NEW k \in 0 .. n - 1, k \in P
        PROVE  k + 1 \in P
    <2>1. Total(f, k + 1) = Total(f, k) + f[k + 1] /\ k + 1 \in 0 .. n
      BY TotalUnfolds
    <2> QED
      BY <1>2, <2>1
  <1> HIDE DEF P
  <1>3. 0 .. n \subseteq P
    BY <1>1, <1>2, UpTo
  <1> QED
    BY <1>3 DEF P

\* What is added in one place is added to the total.
LEMMA TotalWithMore ==
    ASSUME NEW n \in Nat, NEW f, NEW h, NEW b \in 0 .. n, NEW d \in Int,
           \A k \in 0 .. n : f[k] \in Int /\ h[k] = IF k = b THEN f[k] + d ELSE f[k]
    PROVE  Total(f, n) \in Int /\ Total(h, n) = Total(f, n) + d
  <1> DEFINE P == {k \in Nat : /\ Total(f, k) \in Int
                               /\ Total(h, k) = IF b <= k THEN Total(f, k) + d ELSE Total(f, k)}
  <1>1. 0 \in P
    <2>1. Total(f, 0) = f[0] /\ Total(h, 0) = h[0] /\ 0 \in 0 .. n /\ (b <= 0 <=> b = 0)
      BY TotalUnfolds
    <2> QED
      BY <2>1
  <1>2. ASSUME NEW k \in 0 .. n - 1, k \in P
        PROVE  k + 1 \in P
    <2>1. /\ Total(f, k + 1) = Total(f, k) + f[k + 1] /\ Total(h, k + 1) = Total(h, k) + h[k + 1]
          /\ k + 1 \in 0 .. n
      BY TotalUnfolds
    <2>2. f[k + 1] \in Int /\ h[k + 1] = IF k + 1 = b THEN f[k + 1] + d ELSE f[k + 1]
      BY <2>1
    <2>3. Total(f, k) \in Int /\ Total(h, k) = IF b <= k THEN Total(f, k) + d ELSE Total(f, k)
      BY <1>2
    <2> QED
      BY <2>1, <2>2, <2>3
  <1> HIDE DEF P
  <1>3. 0 .. n \subseteq P
    BY <1>1, <1>2, UpTo
  <1>4. n \in P
    BY <1>3
  <1> QED
    BY <1>4 DEF P

\* A gap that fits goes to the bin whose middle is nearest.
LEMMA BinNearest ==
    ASSUME NEW gap \in Nat, gap + BinWidth \div 2 < IntTop
    PROVE  /\ Bin(Sample(gap)) \in 0 .. IntTop \div BinWidth
           /\ 2 * (Bin(Sample(gap)) * BinWidth - gap) \in -BinWidth .. BinWidth
  <1> DEFINE half == BinWidth \div 2
             bin == (gap + half) \div BinWidth
  <1>1. half \in Nat /\ 2 * half <= BinWidth /\ BinWidth <= 2 * half + 1
    BY Constants
  <1>2. gap < IntTop /\ gap + half \in Nat /\ gap + half < IntTop
    BY <1>1, Constants
  <1>3. Sample(gap) = gap /\ Sample(gap + half) = gap + half
    BY <1>2, SampleBound
  <1>4. Bin(Sample(gap)) = bin
    BY <1>2, <1>3 DEF Bin
  <1>5. bin \in Nat /\ BinWidth * bin <= gap + half /\ gap + half < BinWidth * bin + BinWidth
    BY <1>2, Constants, Quotient
  <1>6. Bin(Sample(gap)) \in 0 .. IntTop \div BinWidth
    BY <1>3, <1>4, <1>5, BinBound
  <1> DEFINE middle == bin * BinWidth
  <1>7. middle \in Nat /\ middle = BinWidth * bin
    BY <1>5, Constants
  <1> HIDE DEF bin, half
  <1>8. middle <= gap + half /\ gap + half < middle + BinWidth
    BY <1>5, <1>7
  <1> HIDE DEF middle
  <1>9. 2 * (middle - gap) \in -BinWidth .. BinWidth
    BY <1>1, <1>7, <1>8, Constants
  <1> QED
    BY <1>4, <1>6, <1>9 DEF middle

\* One more gap in the histogram.
LEMMA OneGapMore ==
    ASSUME NEW bins \in [0 .. IntTop \div BinWidth -> Nat], NEW b \in 0 .. IntTop \div BinWidth
    PROVE  /\ Gaps(bins) \in Int /\ Gaps([bins EXCEPT ![b] = @ + 1]) = Gaps(bins) + 1
           /\ Span(bins) \in Int /\ Span([bins EXCEPT ![b] = @ + 1]) = Span(bins) + b * BinWidth
  <1> DEFINE n == IntTop \div BinWidth
             more == [bins EXCEPT ![b] = @ + 1]
  <1>1. n \in Nat /\ BinWidth \in Nat /\ b \in 0 .. n
    BY Constants, Quotient
  <1>2. /\ DOMAIN bins = 0 .. n /\ DOMAIN more = 0 .. n
        /\ \A k \in 0 .. n : bins[k] \in Nat /\ more[k] = IF k = b THEN bins[k] + 1 ELSE bins[k]
    OBVIOUS
  <1> HIDE DEF n, more
  <1>3. Total(bins, n) \in Int /\ Total(more, n) = Total(bins, n) + 1
    <2>1. \A k \in 0 .. n : bins[k] \in Int /\ more[k] = IF k = b THEN bins[k] + 1 ELSE bins[k]
      BY <1>2
    <2> DEFINE one == 1
    <2>2. one \in Int /\ one = 1
      OBVIOUS
    <2> HIDE DEF one
    <2>3. \A k \in 0 .. n : bins[k] \in Int /\ more[k] = IF k = b THEN bins[k] + one ELSE bins[k]
      BY <2>1, <2>2
    <2>4. Total(bins, n) \in Int /\ Total(more, n) = Total(bins, n) + one
      BY <1>1, <2>2, <2>3, TotalWithMore
    <2> QED
      BY <2>2, <2>4
  <1> DEFINE f == [k \in 0 .. n |-> k * BinWidth * bins[k]]
             h == [k \in 0 .. n |-> k * BinWidth * more[k]]
  <1>4. b * BinWidth \in Int
    BY <1>1
  <1>5. ASSUME NEW k \in 0 .. n
        PROVE  f[k] \in Int /\ h[k] = IF k = b THEN f[k] + b * BinWidth ELSE f[k]
    <2> DEFINE c == k * BinWidth
    <2>1. c \in Int /\ f[k] = c * bins[k] /\ h[k] = c * more[k]
      BY <1>1
    <2>2. bins[k] \in Nat /\ more[k] = IF k = b THEN bins[k] + 1 ELSE bins[k]
      BY <1>2
    <2>3. k = b => c = b * BinWidth
      OBVIOUS
    <2> HIDE DEF c, f, h
    <2>4. c * (bins[k] + 1) = c * bins[k] + c /\ c * bins[k] \in Int
      BY <2>1, <2>2
    <2> QED
      BY <2>1, <2>2, <2>3, <2>4
  <1> HIDE DEF f, h
  <1>6. Total(f, n) \in Int /\ Total(h, n) = Total(f, n) + b * BinWidth
    BY <1>1, <1>4, <1>5, TotalWithMore
  <1>7. Span(bins) = Total(f, n) /\ Span(more) = Total(h, n)
    BY <1>2 DEF Span, f, h, n
  <1> QED
    BY <1>3, <1>6, <1>7 DEF Gaps, n, more

\* What HistogramSpans rests on: the times of the first and the last arrival are
\* set together, and before the first one the histogram is empty.
Arrivals ==
    program = "setpoint" =>
        /\ received > 0 <=> last > 0
        /\ received = 0 => Gaps(storage) = 0 /\ Span(storage) = 0
        /\ received > 0 /\ ~jumped => first <= last

HInv == Arrivals /\ HistogramSpans

LEMMA InitHInv == Init => HInv
  <1> SUFFICES ASSUME Init PROVE HInv
    OBVIOUS
  <1> DEFINE n == IntTop \div BinWidth
             f == [b \in DOMAIN storage |-> b * BinWidth * storage[b]]
  <1>1. n \in Nat /\ storage = [b \in 0 .. n |-> 0] /\ BinWidth \in Nat
    BY Constants, Quotient DEF Init
  <1>2. received = 0 /\ (program = "setpoint" => last = 0)
    BY DEF Init
  <1> HIDE DEF n
  <1>3. \A b \in 0 .. n : storage[b] = 0 /\ f[b] = 0
    BY <1>1
  <1> HIDE DEF f
  <1>4. Total(storage, n) = 0 /\ Total(f, n) = 0
    BY <1>1, <1>3, TotalOfNone
  <1>5. Gaps(storage) = 0 /\ Span(storage) = 0
    BY <1>4 DEF Gaps, Span, f, n
  <1> QED
    BY <1>2, <1>5 DEF HInv, Arrivals, HistogramSpans

LEMMA HistogramKept ==
    ASSUME HInv, jumped => jumped',
           program' = "setpoint" =>
             UNCHANGED <<program, storage, first, last, received>>
    PROVE  HInv'
  BY DEF HInv, Arrivals, HistogramSpans, Gaps, Span

LEMMA TakeSetpointHInv ==
    ASSUME IInv, HInv, NEW p \in flight, TakeSetpoint(p)
    PROVE  HInv'
  <1> USE DEF IInv
  <1> DEFINE bin == Bin(Sample(now - last))
  <1>1. program = "setpoint" /\ UNCHANGED <<program, jumped, now>>
    BY DEF TakeSetpoint, Steered, Threads, Ended, TypeOK, netVars
  <1>2. \/ UNCHANGED <<received, last, storage, first>>
        \/ /\ ~(last > 0 /\ bin < 0)
           /\ storage' = IF last > 0 THEN [storage EXCEPT ![bin] = @ + 1] ELSE storage
           /\ first' = IF last > 0 THEN first ELSE now
           /\ last' = now
           /\ received' = received + 1
    BY DEF TakeSetpoint, setpointVars
  <1>3. /\ now \in Nat /\ now > 0 /\ last \in Nat /\ received \in Nat /\ first \in Nat
        /\ ~jumped => last <= now
        /\ storage \in [0 .. IntTop \div BinWidth -> Nat]
    BY <1>1, Constants DEF Clock, TypeOK, Setpoint
  <1>4. CASE UNCHANGED <<received, last, storage, first>>
    BY <1>1, <1>4, HistogramKept
  <1>5. CASE /\ storage' = IF last > 0 THEN [storage EXCEPT ![bin] = @ + 1] ELSE storage
             /\ first' = IF last > 0 THEN first ELSE now
             /\ last' = now
             /\ received' = received + 1
    <2>1. CASE last = 0
      <3>1. received = 0 /\ Gaps(storage) = 0 /\ Span(storage) = 0
        BY <1>1, <1>3, <2>1 DEF HInv, Arrivals
      <3>2. storage' = storage /\ first' = now /\ last' = now /\ received' = 1
        BY <1>3, <1>5, <2>1, <3>1
      <3>3. Gaps(storage') = 0 /\ Span(storage') = 0
        BY <3>1, <3>2
      <3>4. Arrivals'
        BY <1>3, <3>2 DEF Arrivals
      <3>5. HistogramSpans'
        <4>1. /\ Gaps(storage') = received' - 1
              /\ 2 * (Span(storage') - (last' - first')) = 0
              /\ BinWidth * Gaps(storage') = 0
          BY <1>1, <1>3, <3>2, <3>3, Constants
        <4>2. 2 * (Span(storage') - (last' - first'))
                \in -(BinWidth * Gaps(storage')) .. BinWidth * Gaps(storage')
          BY <4>1
        <4> QED
          BY <4>1, <4>2 DEF HistogramSpans
      <3> QED
        BY <3>4, <3>5 DEF HInv
    <2>2. CASE last > 0
      <3>1. received > 0 /\ (~jumped => first <= last)
        BY <1>1, <1>3, <2>2 DEF HInv, Arrivals
      <3>2. /\ storage' = [storage EXCEPT ![bin] = @ + 1] /\ first' = first /\ last' = now
            /\ received' = received + 1
        BY <1>5, <2>2
      <3>3. Arrivals'
        BY <1>1, <1>3, <3>1, <3>2 DEF Arrivals
      <3>4. HistogramSpans'
        <4> DEFINE gap   == now - last
                   count == Gaps(storage)
                   span  == Span(storage)
                   c     == bin * BinWidth
        <4> SUFFICES ASSUME ~jumped, now - first + BinWidth \div 2 < IntTop
                     PROVE  /\ Gaps(storage') = received' - 1
                            /\ 2 * (Span(storage') - (now - first))
                                 \in -(BinWidth * Gaps(storage')) .. BinWidth * Gaps(storage')
          BY <1>1, <3>2 DEF HistogramSpans
        <4>1. BinWidth \div 2 \in Nat /\ BinWidth \in Nat /\ IntTop \in Nat
          BY Constants
        <4>2. gap \in Nat /\ gap + BinWidth \div 2 < IntTop /\ last - first + BinWidth \div 2 < IntTop
          BY <1>3, <3>1, <4>1
        <4>3. bin \in 0 .. IntTop \div BinWidth /\ 2 * (c - gap) \in -BinWidth .. BinWidth
          BY <4>2, BinNearest
        <4> HIDE DEF bin
        <4>4. /\ count \in Int /\ Gaps(storage') = count + 1
              /\ span \in Int /\ Span(storage') = span + c
          BY <1>3, <3>2, <4>3, OneGapMore
        <4>5. /\ count = received - 1
              /\ 2 * (span - (last - first)) \in -(BinWidth * count) .. BinWidth * count
          BY <1>1, <3>1, <4>2 DEF HInv, HistogramSpans
        <4>6. c \in Int
          BY <4>1, <4>3, Constants, Quotient
        <4> HIDE DEF count, span, c
        <4>7. now - first = (last - first) + gap
          BY <1>3
        <4> DEFINE all == BinWidth * count
        <4>8. all \in Int /\ BinWidth * (count + 1) = all + BinWidth
          BY <4>1, <4>4
        <4> DEFINE d == last - first
        <4>9. d \in Int /\ now - first = d + gap /\ 2 * (span - d) \in -all .. all
          BY <1>3, <4>5, <4>7
        <4> HIDE DEF all, gap, d
        <4>10. 2 * (span + c - (d + gap)) \in -(all + BinWidth) .. all + BinWidth
          BY <4>1, <4>2, <4>3, <4>4, <4>6, <4>8, <4>9
        <4>11. BinWidth * Gaps(storage') = all + BinWidth
          BY <4>4, <4>8
        <4>12. Span(storage') - (now - first) = span + c - (d + gap)
          BY <1>3, <4>2, <4>4, <4>6, <4>9
        <4>13. Gaps(storage') = received' - 1
          BY <1>3, <3>2, <4>4, <4>5
        <4> QED
          BY <4>10, <4>11, <4>12, <4>13
      <3> QED
        BY <3>3, <3>4 DEF HInv
    <2> QED
      BY <1>3, <2>1, <2>2
  <1> QED
    BY <1>2, <1>4, <1>5

LEMMA NextHInv == IInv /\ HInv /\ [Next]_vars => HInv'
  <1> SUFFICES ASSUME IInv, HInv, [Next]_vars PROVE HInv'
    OBVIOUS
  <1> USE DEF netVars, steeredVars, setpointVars, threadVars
  <1>1. CASE Pass \/ Timeout \/ \E p \in flight : TakeSteered(p)
    <2>1. stage \in {"loop", "poll"} /\ program' = program /\ jumped' = jumped
      BY <1>1 DEF Pass, Timeout, TakeSteered
    <2>2. program' # "setpoint"
      BY <2>1 DEF IInv, Setpoint, Ended
    <2> QED
      BY <2>1, <2>2, HistogramKept
  <1>2. CASE \/ GetNatAddr \/ Fill \/ Stamp \/ SendStamped \/ Tick \/ SetBack \/ SetRate
             \/ \E p \in flight : Lose(p) \/ Hear(p)
    <2>1. UNCHANGED <<program, storage, first, last, received>> /\ (jumped => jumped')
      <3>1. CASE GetNatAddr
        BY <3>1 DEF GetNatAddr
      <3>4. CASE Fill
        BY <3>4 DEF Fill
      <3>5. CASE Stamp
        BY <3>5 DEF Stamp
      <3>6. CASE SendStamped
        BY <3>6 DEF SendStamped
      <3>2. CASE Tick \/ SetBack \/ SetRate
        BY <3>2 DEF Tick, SetBack, SetRate
      <3>3. CASE \E p \in flight : Lose(p) \/ Hear(p)
        BY <3>3 DEF Lose, Hear
      <3> QED
        BY <1>2, <3>1, <3>2, <3>3, <3>4, <3>5, <3>6
    <2> QED
      BY <2>1, HistogramKept
  <1>3. CASE \E p \in flight : TakeSetpoint(p)
    BY <1>3, TakeSetpointHInv
  <1>4. CASE UNCHANGED vars
    <2>1. UNCHANGED <<program, storage, first, last, received, jumped>>
      BY <1>4 DEF vars
    <2> QED
      BY <2>1, HistogramKept
  <1> QED
    BY <1>1, <1>2, <1>3, <1>4 DEF Next, MainThread, Take

\* The histogram of buffer-setpoint.cc counts one gap for every packet but the
\* first, and the middles of the bins add up to the time between the first
\* arrival and the last, give or take half a bin for each gap.
THEOREM HistogramCorrect == Spec => []HistogramSpans
  <1>1. HInv => HistogramSpans
    BY DEF HInv
  <1> QED
    BY <1>1, InitHInv, NextHInv, Invariance, PTL DEF Spec
=============================================================================
