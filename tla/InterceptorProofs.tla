------------------------- MODULE InterceptorProofs -------------------------
(***************************************************************************)
(* Proofs about Interceptor for every rate, schedule and trace, every size *)
(* of frames and of the buffer, and any number of frames and units of time. *)
(***************************************************************************)
EXTENDS Interceptor, FiniteSetTheorems, SequenceTheorems, WellFoundedInduction, TLAPS

(* Induction on natural numbers, by the least number that has a property.  *)

LEMMA LeastNumber ==
    ASSUME NEW T, T \subseteq Nat, T # {}
    PROVE  \E x \in T : \A y \in T : x <= y
  <1>1. PICK x \in T : \A y \in T : ~(<<y, x>> \in OpToRel(<, Nat))
    BY NatLessThanWellFounded, WFMin, Zenon
  <1>2. \A y \in T : ~(y < x)
    BY <1>1 DEF OpToRel
  <1> QED
    BY <1>2

\* A set of natural numbers that contains 0, and n + 1 with each n below N,
\* contains all numbers up to N.
LEMMA UpTo ==
    ASSUME NEW N \in Nat, NEW P, 0 \in P, \A n \in 0 .. N - 1 : n \in P => n + 1 \in P
    PROVE  0 .. N \subseteq P
  <1> DEFINE T == {n \in Nat : n <= N /\ n \notin P}
  <1>1. CASE T # {}
    <2>1. PICK m \in T : \A y \in T : m <= y
      BY <1>1, LeastNumber
    <2>2. m # 0 /\ m - 1 \in 0 .. N - 1 /\ m - 1 \notin T
      BY <2>1
    <2>3. m - 1 \in P
      BY <2>2
    <2>4. m - 1 + 1 \in P
      BY <2>2, <2>3
    <2> QED
      BY <2>1, <2>4
  <1> QED
    BY <1>1

\* A nonempty set of numbers up to n has a greatest one.
LEMMA MaxExists ==
    ASSUME NEW n \in Nat, NEW S, S \subseteq 0 .. n, S # {}
    PROVE  Max(S) \in S /\ \A y \in S : y <= Max(S)
  <1> DEFINE T == {n - y : y \in S}
  <1>1. T \subseteq Nat /\ T # {}
    OBVIOUS
  <1>2. PICK m \in T : \A y \in T : m <= y
    BY <1>1, LeastNumber
  <1>3. PICK x \in S : m = n - x
    OBVIOUS
  <1>4. \A y \in S : y <= x
    <2>1. ASSUME NEW y \in S
          PROVE  y <= x
      <3>1. n - y \in T
        OBVIOUS
      <3>2. n - x <= n - y /\ x \in Int /\ y \in Int
        BY <1>2, <1>3, <3>1
      <3> QED
        BY <3>2
    <2> QED
      BY <2>1
  <1>5. \E z \in S : \A y \in S : z >= y
    BY <1>4
  <1>6. Max(S) \in S /\ \A y \in S : Max(S) >= y
    BY <1>5, Zenon DEF Max
  <1> QED
    BY <1>6

-----------------------------------------------------------------------------
(* Total.                                                                  *)

\* g gives the sums of f up to n.
Sums(f, n, g) == g = [k \in 0 .. n |-> IF k = 0 THEN 0 ELSE g[k - 1] + f[k]]

LEMMA SumsExist ==
    ASSUME NEW f, NEW n \in Nat
    PROVE  \E g : Sums(f, n, g)
  <1> DEFINE P == {m \in Nat : \E g : Sums(f, m, g)}
  <1>1. 0 \in P
    <2>1. Sums(f, 0, [k \in 0 .. 0 |-> 0])
      BY DEF Sums
    <2> QED
      BY <2>1
  <1>2. ASSUME NEW m \in 0 .. n - 1, m \in P
        PROVE  m + 1 \in P
    <2>1. PICK g : Sums(f, m, g)
      BY <1>2
    <2> DEFINE h == [k \in 0 .. m + 1 |-> IF k = m + 1 THEN g[m] + f[m + 1] ELSE g[k]]
    <2>2. ASSUME NEW k \in 0 .. m + 1
          PROVE  h[k] = IF k = 0 THEN 0 ELSE h[k - 1] + f[k]
      <3>1. CASE k = m + 1
        BY <3>1
      <3>2. CASE k # m + 1
        <4>1. k \in 0 .. m /\ (k # 0 => k - 1 \in 0 .. m)
          BY <3>2
        <4>2. g[k] = IF k = 0 THEN 0 ELSE g[k - 1] + f[k]
          BY <2>1, <4>1 DEF Sums
        <4>3. h[k] = g[k] /\ (k # 0 => h[k - 1] = g[k - 1])
          BY <3>2, <4>1
        <4> HIDE DEF h
        <4> QED
          BY <4>2, <4>3
      <3> QED
        BY <3>1, <3>2
    <2>3. h = [k \in 0 .. m + 1 |-> h[k]]
      OBVIOUS
    <2> HIDE DEF h
    <2>4. Sums(f, m + 1, h)
      BY <2>2, <2>3 DEF Sums
    <2> QED
      BY <2>4
  <1> HIDE DEF P
  <1>3. 0 .. n \subseteq P
    BY <1>1, <1>2, UpTo
  <1> QED
    BY <1>3 DEF P

LEMMA SumsUnique ==
    ASSUME NEW f, NEW m \in Nat, NEW n \in Nat, m <= n, NEW g, NEW h, Sums(f, m, g), Sums(f, n, h)
    PROVE  g[m] = h[m]
  <1> DEFINE P == {k \in Nat : g[k] = h[k]}
  <1>1. 0 \in P
    BY DEF Sums
  <1>2. ASSUME NEW k \in 0 .. m - 1, k \in P
        PROVE  k + 1 \in P
    <2>1. k + 1 \in 0 .. m /\ k + 1 \in 0 .. n /\ k + 1 # 0 /\ k + 1 - 1 = k
      OBVIOUS
    <2>2. g[k + 1] = g[k] + f[k + 1] /\ h[k + 1] = h[k] + f[k + 1]
      BY <2>1 DEF Sums
    <2> QED
      BY <1>2, <2>2
  <1> HIDE DEF P
  <1>3. 0 .. m \subseteq P
    BY <1>1, <1>2, UpTo
  <1> QED
    BY <1>3 DEF P

\* What Total computes.
LEMMA TotalUnfolds ==
    ASSUME NEW f
    PROVE  /\ Total(f, 0) = 0
           /\ \A n \in Nat : Total(f, n + 1) = Total(f, n) + f[n + 1]
  <1> DEFINE F(n) == CHOOSE g : Sums(f, n, g)
             H == [n \in Nat |-> F(n)[n]]
             AllSums(h) == h = [k \in Nat |-> IF k = 0 THEN 0 ELSE h[k - 1] + f[k]]
             S == CHOOSE h : AllSums(h)
  <1>1. \A n \in Nat : Sums(f, n, F(n))
    BY SumsExist
  <1> HIDE DEF F
  <1>2. ASSUME NEW k \in Nat
        PROVE  H[k] = IF k = 0 THEN 0 ELSE H[k - 1] + f[k]
    <2>1. F(k)[k] = IF k = 0 THEN 0 ELSE F(k)[k - 1] + f[k]
      BY <1>1 DEF Sums
    <2>2. ASSUME k # 0
          PROVE  F(k)[k - 1] = F(k - 1)[k - 1]
      <3>1. k - 1 \in Nat /\ k - 1 <= k
        BY <2>2
      <3> QED
        BY <1>1, <3>1, SumsUnique
    <2>3. k # 0 => k - 1 \in Nat
      OBVIOUS
    <2> QED
      BY <2>1, <2>2, <2>3
  <1>3. H = [k \in Nat |-> H[k]]
    OBVIOUS
  <1> HIDE DEF H
  <1>4. AllSums(H)
    BY <1>2, <1>3
  <1>5. AllSums(S)
    BY <1>4
  <1>6. \A n : Total(f, n) = S[n]
    BY DEF Total
  <1> HIDE DEF S
  <1>7. S[0] = 0 /\ \A n \in Nat : S[n + 1] = S[n] + f[n + 1]
    BY <1>5
  <1> QED
    BY <1>6, <1>7

\* Totals of natural numbers are natural numbers and grow.
LEMMA TotalGrows ==
    ASSUME NEW f, NEW N \in Nat, \A k \in 1 .. N : f[k] \in Nat
    PROVE  \A n \in 0 .. N : /\ Total(f, n) \in Nat
                             /\ \A m \in 0 .. n : Total(f, m) \in Nat /\ Total(f, m) <= Total(f, n)
  <1> DEFINE P == {n \in Nat : /\ Total(f, n) \in Nat
                               /\ \A m \in 0 .. n : Total(f, m) \in Nat /\ Total(f, m) <= Total(f, n)}
  <1>1. 0 \in P
    <2>1. Total(f, 0) = 0 /\ \A m \in 0 .. 0 : m = 0
      BY TotalUnfolds
    <2> QED
      BY <2>1
  <1>2. ASSUME NEW n \in 0 .. N - 1, n \in P
        PROVE  n + 1 \in P
    <2>1. Total(f, n + 1) = Total(f, n) + f[n + 1] /\ f[n + 1] \in Nat
      BY TotalUnfolds
    <2>2. /\ Total(f, n) \in Nat
          /\ \A m \in 0 .. n : Total(f, m) \in Nat /\ Total(f, m) <= Total(f, n)
      BY <1>2
    <2>3. Total(f, n + 1) \in Nat /\ Total(f, n) <= Total(f, n + 1)
      BY <2>1, <2>2
    <2>4. ASSUME NEW m \in 0 .. n + 1
          PROVE  Total(f, m) \in Nat /\ Total(f, m) <= Total(f, n + 1)
      <3>1. CASE m = n + 1
        BY <2>3, <3>1
      <3>2. CASE m # n + 1
        <4>1. m \in 0 .. n
          BY <3>2
        <4> DEFINE a == Total(f, m)  b == Total(f, n)  d == Total(f, n + 1)
        <4>2. a <= b /\ b <= d /\ a \in Nat /\ b \in Nat /\ d \in Nat
          BY <2>2, <2>3, <4>1
        <4> HIDE DEF a, b, d
        <4>3. a <= d
          BY <4>2
        <4> QED
          BY <4>2, <4>3 DEF a, d
      <3> QED
        BY <3>1, <3>2
    <2> QED
      BY <2>3, <2>4
  <1> HIDE DEF P
  <1>3. 0 .. N \subseteq P
    BY <1>1, <1>2, UpTo
  <1> QED
    BY <1>3 DEF P

LEMMA TotalNat ==
    ASSUME NEW f, NEW n \in Nat, \A k \in 1 .. n : f[k] \in Nat
    PROVE  Total(f, n) \in Nat
  <1>1. n \in 0 .. n
    OBVIOUS
  <1> QED
    BY <1>1, TotalGrows

\* Totals of equal numbers are equal.
LEMMA TotalEqual ==
    ASSUME NEW f, NEW g, NEW n \in Nat, \A k \in 1 .. n : f[k] = g[k]
    PROVE  Total(f, n) = Total(g, n)
  <1> DEFINE P == {m \in Nat : Total(f, m) = Total(g, m)}
  <1>1. 0 \in P
    BY TotalUnfolds
  <1>2. ASSUME NEW m \in 0 .. n - 1, m \in P
        PROVE  m + 1 \in P
    <2>1. f[m + 1] = g[m + 1] /\ m \in Nat
      OBVIOUS
    <2>2. Total(f, m + 1) = Total(f, m) + f[m + 1] /\ Total(g, m + 1) = Total(g, m) + g[m + 1]
      BY <2>1, TotalUnfolds
    <2> QED
      BY <1>2, <2>1, <2>2
  <1> HIDE DEF P
  <1>3. 0 .. n \subseteq P
    BY <1>1, <1>2, UpTo
  <1> QED
    BY <1>3 DEF P

\* Totals of smaller numbers are smaller.
LEMMA TotalAtMost ==
    ASSUME NEW f, NEW g, NEW n \in Nat, \A k \in 1 .. n : f[k] \in Nat /\ g[k] \in Nat /\ f[k] <= g[k]
    PROVE  Total(f, n) <= Total(g, n)
  <1> DEFINE P == {m \in Nat : Total(f, m) \in Nat /\ Total(g, m) \in Nat /\ Total(f, m) <= Total(g, m)}
  <1>1. 0 \in P
    BY TotalUnfolds
  <1>2. ASSUME NEW m \in 0 .. n - 1, m \in P
        PROVE  m + 1 \in P
    <2>1. f[m + 1] \in Nat /\ g[m + 1] \in Nat /\ f[m + 1] <= g[m + 1] /\ m \in Nat
      OBVIOUS
    <2>2. Total(f, m + 1) = Total(f, m) + f[m + 1] /\ Total(g, m + 1) = Total(g, m) + g[m + 1]
      BY <2>1, TotalUnfolds
    <2> QED
      BY <1>2, <2>1, <2>2
  <1> HIDE DEF P
  <1>3. 0 .. n \subseteq P
    BY <1>1, <1>2, UpTo
  <1> QED
    BY <1>3 DEF P

\* The first n elements of g are those of f from m + 1 on.
Continues(f, m, g, n) ==
    /\ \A k \in 1 .. m : f[k] \in Int
    /\ \A k \in 1 .. n : g[k] \in Int /\ g[k] = f[m + k]

\* The total of a concatenation.
LEMMA TotalSplit ==
    ASSUME NEW f, NEW g, NEW m \in Nat, NEW n \in Nat, Continues(f, m, g, n)
    PROVE  Total(f, m) \in Int /\ Total(g, n) \in Int /\ Total(f, m + n) = Total(f, m) + Total(g, n)
  <1> DEFINE Q == {k \in Nat : Total(f, k) \in Int}
             P == {k \in Nat : Total(g, k) \in Int /\ Total(f, m + k) = Total(f, m) + Total(g, k)}
  <1>1. 0 .. m \subseteq Q
    <2>1. 0 \in Q
      BY TotalUnfolds
    <2>2. ASSUME NEW k \in 0 .. m - 1, k \in Q
          PROVE  k + 1 \in Q
      <3>1. Total(f, k + 1) = Total(f, k) + f[k + 1] /\ f[k + 1] \in Int
        BY TotalUnfolds DEF Continues
      <3> QED
        BY <2>2, <3>1
    <2> HIDE DEF Q
    <2> QED
      BY <2>1, <2>2, UpTo
  <1>2. Total(f, m) \in Int
    BY <1>1
  <1>3. 0 \in P
    BY <1>2, TotalUnfolds
  <1>4. ASSUME NEW k \in 0 .. n - 1, k \in P
        PROVE  k + 1 \in P
    <2>1. f[m + (k + 1)] \in Int /\ g[k + 1] = f[m + (k + 1)] /\ k \in Nat /\ m + k \in Nat
      BY DEF Continues
    <2>2. /\ Total(f, (m + k) + 1) = Total(f, m + k) + f[(m + k) + 1]
          /\ Total(g, k + 1) = Total(g, k) + g[k + 1]
      BY <2>1, TotalUnfolds
    <2>3. (m + k) + 1 = m + (k + 1)
      OBVIOUS
    <2> DEFINE a == Total(f, m)  b == Total(g, k)  c == f[m + (k + 1)]
               d == Total(f, m + (k + 1))  e == Total(g, k + 1)
    <2>4. a \in Int /\ b \in Int /\ c \in Int /\ d = a + b + c /\ e = b + c
      BY <1>2, <1>4, <2>1, <2>2, <2>3
    <2> HIDE DEF a, b, c, d, e
    <2>5. e \in Int /\ d = a + e
      BY <2>4
    <2> QED
      BY <2>5 DEF a, d, e
  <1> HIDE DEF P
  <1>5. 0 .. n \subseteq P
    BY <1>3, <1>4, UpTo
  <1> QED
    BY <1>2, <1>5 DEF P

-----------------------------------------------------------------------------
(* Queues.                                                                 *)

\* A packet as it is queued.
Packet == [frame : Nat, size : Nat, since : Nat, ahead : Nat]

Sizes(q) == [i \in 1 .. Len(q) |-> q[i].size]

\* The bytes of the first packets, of all packets, and of the other ones.
LEMMA BytesFacts ==
    ASSUME NEW q \in Seq(Packet), NEW k \in 0 .. Len(q)
    PROVE  /\ Bytes(q) \in Nat /\ Total(Sizes(q), k) \in Nat
           /\ Bytes(SubSeq(q, 1, k)) = Total(Sizes(q), k)
           /\ Bytes(SubSeq(q, k + 1, Len(q))) = Bytes(q) - Total(Sizes(q), k)
           /\ \A j \in 0 .. k : Total(Sizes(q), j) \in Nat /\ Total(Sizes(q), j) <= Total(Sizes(q), k)
  <1> DEFINE n == Len(q)
             front == SubSeq(q, 1, k)
             back == SubSeq(q, k + 1, n)
  <1>1. n \in Nat /\ k \in Nat /\ k <= n /\ \A i \in 1 .. n : q[i] \in Packet
    BY ElementOfSeq, LenProperties
  <1>2. \A i \in 1 .. n : Sizes(q)[i] = q[i].size /\ Sizes(q)[i] \in Nat
    BY <1>1 DEF Sizes, Packet
  <1>3. \A m \in 0 .. n : /\ Total(Sizes(q), m) \in Nat
                          /\ \A j \in 0 .. m : Total(Sizes(q), j) \in Nat
                                               /\ Total(Sizes(q), j) <= Total(Sizes(q), m)
    BY <1>1, <1>2, TotalGrows
  <1>4. Bytes(q) = Total(Sizes(q), n)
    BY DEF Bytes, Sizes
  <1>5. /\ Len(front) = k /\ \A i \in 1 .. k : front[i] = q[i]
        /\ Len(back) = n - k /\ \A i \in 1 .. n - k : back[i] = q[k + i]
    BY <1>1
  <1>6. Bytes(front) = Total(Sizes(q), k)
    <2>1. \A i \in 1 .. k : Sizes(front)[i] = Sizes(q)[i]
      BY <1>1, <1>2, <1>5 DEF Sizes
    <2>2. Total(Sizes(front), k) = Total(Sizes(q), k)
      BY <1>1, <2>1, TotalEqual
    <2> QED
      BY <1>5, <2>2 DEF Bytes, Sizes
  <1>7. Bytes(back) = Bytes(q) - Total(Sizes(q), k)
    <2>1. n - k \in Nat /\ \A i \in 1 .. n - k : k + i \in 1 .. n
      BY <1>1
    <2>2. \A i \in 1 .. n - k : Sizes(back)[i] = Sizes(q)[k + i]
      BY <1>2, <1>5, <2>1 DEF Sizes
    <2>3. /\ Total(Sizes(q), k) \in Int /\ Total(Sizes(back), n - k) \in Int
          /\ Total(Sizes(q), k + (n - k)) = Total(Sizes(q), k) + Total(Sizes(back), n - k)
      <3> DEFINE f == Sizes(q)  g == Sizes(back)  m == n - k
      <3>1. m \in Nat /\ Continues(f, k, g, m)
        BY <1>1, <1>2, <2>1, <2>2 DEF Continues
      <3> HIDE DEF f, g, m
      <3>3. Total(f, k) \in Int /\ Total(g, m) \in Int /\ Total(f, k + m) = Total(f, k) + Total(g, m)
        BY <1>1, <3>1, TotalSplit
      <3> QED
        BY <3>3 DEF f, g, m
    <2>4. k + (n - k) = n
      BY <1>1
    <2>5. Bytes(back) = Total(Sizes(back), n - k)
      BY <1>5 DEF Bytes, Sizes
    <2> DEFINE a == Total(Sizes(q), k)  b == Total(Sizes(back), n - k)  c == Total(Sizes(q), n)
    <2>6. a \in Int /\ b \in Int /\ c = a + b
      BY <2>3, <2>4
    <2> HIDE DEF a, b, c
    <2>7. b = c - a
      BY <2>6
    <2> QED
      BY <1>4, <2>5, <2>7 DEF a, b, c
  <1>8. n \in 0 .. n
    BY <1>1
  <1> QED
    BY <1>3, <1>4, <1>6, <1>7, <1>8

LEMMA BytesAppend ==
    ASSUME NEW q \in Seq(Packet), NEW p \in Packet
    PROVE  /\ Bytes(Append(q, p)) = Bytes(q) + p.size
           /\ \A k \in 0 .. Len(q) : Total(Sizes(Append(q, p)), k) = Total(Sizes(q), k)
  <1> DEFINE n == Len(q)
             r == Append(q, p)
  <1>1. n \in Nat /\ Len(r) = n + 1 /\ r[n + 1] = p /\ \A i \in 1 .. n : r[i] = q[i]
    BY AppendProperties, LenProperties
  <1>2. \A k \in 0 .. n : Total(Sizes(r), k) = Total(Sizes(q), k)
    <2>1. ASSUME NEW k \in 0 .. n
          PROVE  Total(Sizes(r), k) = Total(Sizes(q), k)
      <3>1. k \in Nat /\ \A i \in 1 .. k : Sizes(r)[i] = Sizes(q)[i]
        BY <1>1 DEF Sizes
      <3> QED
        BY <3>1, TotalEqual
    <2> QED
      BY <2>1
  <1>3. Total(Sizes(r), n + 1) = Total(Sizes(r), n) + Sizes(r)[n + 1]
    BY <1>1, TotalUnfolds
  <1>4. Sizes(r)[n + 1] = p.size
    BY <1>1 DEF Sizes
  <1>5. n \in 0 .. n
    BY <1>1
  <1>6. Bytes(r) = Total(Sizes(r), n + 1) /\ Bytes(q) = Total(Sizes(q), n)
    BY <1>1 DEF Bytes, Sizes
  <1> QED
    BY <1>2, <1>3, <1>4, <1>5, <1>6

-----------------------------------------------------------------------------
(* Lists of times and rates or credits.                                    *)

Entries == Nat \X Nat

Sorted(list) == \A i, j \in 1 .. Len(list) : i < j => list[i][1] <= list[j][1]

Increasing(list) == \A i, j \in 1 .. Len(list) : i < j => list[i][1] < list[j][1]

LEMMA FileSorted ==
    ASSUME NEW file, WellFormed(file)
    PROVE  Sorted(file)
  <1>1. /\ file \in Seq(Entries) /\ Len(file) \in Nat
        /\ \A i \in 2 .. Len(file) : file[i - 1][1] <= file[i][1]
        /\ \A i \in 1 .. Len(file) : file[i][1] \in Nat
    <2>1. file \in Seq(Entries) /\ Len(file) \in Nat
      BY LenProperties DEF WellFormed, Entries
    <2>2. \A i \in 1 .. Len(file) : file[i] \in Entries
      BY <2>1, ElementOfSeq
    <2> QED
      BY <2>1, <2>2 DEF WellFormed, Entries
  <1>2. ASSUME NEW i \in 1 .. Len(file)
        PROVE  \A j \in 1 .. Len(file) : i < j => file[i][1] <= file[j][1]
    <2> DEFINE P == {d \in Nat : i + d <= Len(file) => file[i][1] <= file[i + d][1]}
    <2>1. 0 \in P
      BY <1>1
    <2>2. ASSUME NEW d \in 0 .. Len(file) - 1, d \in P
          PROVE  d + 1 \in P
      <3>1. CASE i + (d + 1) <= Len(file)
        <4>1. /\ i + (d + 1) \in 2 .. Len(file) /\ i + (d + 1) - 1 = i + d
              /\ i + d \in 1 .. Len(file)
          BY <1>1, <3>1
        <4>2. file[i + d][1] <= file[i + (d + 1)][1] /\ file[i][1] <= file[i + d][1]
          BY <1>1, <2>2, <4>1
        <4>3. file[i][1] \in Nat /\ file[i + d][1] \in Nat /\ file[i + (d + 1)][1] \in Nat
          BY <1>1, <4>1
        <4> QED
          BY <4>2, <4>3
      <3> QED
        BY <3>1
    <2> HIDE DEF P
    <2>3. 0 .. Len(file) \subseteq P
      BY <1>1, <2>1, <2>2, UpTo
    <2>4. ASSUME NEW j \in 1 .. Len(file), i < j
          PROVE  file[i][1] <= file[j][1]
      <3>1. j - i \in 0 .. Len(file) /\ i + (j - i) = j
        BY <1>1, <2>4
      <3>2. j - i \in P
        BY <2>3, <3>1
      <3> QED
        BY <3>1, <3>2 DEF P
    <2> QED
      BY <2>4
  <1> QED
    BY <1>2 DEF Sorted

\* The entries that are due are the first ones.
LEMMA DueFacts ==
    ASSUME NEW list \in Seq(Entries), Sorted(list), NEW t \in Int
    PROVE  /\ DueBy(list, t) \in 0 .. Len(list)
           /\ \A i \in 1 .. Len(list) : list[i][1] <= t <=> i <= DueBy(list, t)
  <1> DEFINE n == Len(list)
             D == {i \in 1 .. n : list[i][1] <= t}
             m == Max(D \union {0})
  <1>1. n \in Nat /\ \A i \in 1 .. n : list[i][1] \in Nat
    <2>1. n \in Nat /\ \A i \in 1 .. n : list[i] \in Entries
      BY ElementOfSeq, LenProperties
    <2> QED
      BY <2>1 DEF Entries
  <1>2. m \in D \union {0} /\ \A i \in D \union {0} : i <= m
    <2>1. D \union {0} \subseteq 0 .. n /\ D \union {0} # {}
      BY <1>1
    <2> HIDE DEF D
    <2> QED
      BY <1>1, <2>1, MaxExists
  <1>3. m \in 0 .. n
    BY <1>1, <1>2
  <1>7. DueBy(list, t) = Cardinality(D)
    BY DEF DueBy
  <1> HIDE DEF m
  <1>4. ASSUME NEW i \in 1 .. n
        PROVE  i \in D <=> i <= m
    <2>1. i \in D => i <= m
      BY <1>2
    <2>2. ASSUME i <= m
          PROVE  i \in D
      <3>1. m \in D /\ m \in 1 .. n
        BY <1>1, <1>2, <2>2
      <3>2. list[i][1] <= list[m][1]
        <4>1. CASE i = m
          BY <1>1, <4>1
        <4>2. CASE i # m
          <5>1. i < m
            BY <1>3, <2>2, <4>2
          <5> QED
            BY <3>1, <5>1 DEF Sorted
        <4> QED
          BY <4>1, <4>2
      <3>3. list[m][1] <= t /\ list[m][1] \in Nat /\ list[i][1] \in Nat
        BY <1>1, <3>1
      <3>4. list[i][1] <= t
        BY <3>2, <3>3
      <3> QED
        BY <3>4
    <2> QED
      BY <2>1, <2>2
  <1>5. D = 1 .. m
    <2>1. D \subseteq 1 .. n
      OBVIOUS
    <2>2. \A i \in 1 .. m : i \in 1 .. n /\ i <= m
      BY <1>1, <1>3
    <2>3. \A i \in 1 .. n : i <= m => i \in 1 .. m
      BY <1>1, <1>3
    <2> HIDE DEF D
    <2>4. D \subseteq 1 .. m
      BY <1>4, <2>1, <2>3
    <2>5. 1 .. m \subseteq D
      BY <1>4, <2>2
    <2> QED
      BY <2>4, <2>5
  <1>6. Cardinality(D) = m
    <2>1. 1 \in Int /\ m \in Int
      BY <1>1, <1>3
    <2>2. Cardinality(1 .. m) = IF 1 > m THEN 0 ELSE m - 1 + 1
      BY <2>1, FS_Interval
    <2>3. Cardinality(1 .. m) = m
      BY <1>1, <1>3, <2>2
    <2> HIDE DEF D
    <2> QED
      BY <1>5, <2>3
  <1>8. DueBy(list, t) = m
    BY <1>6, <1>7
  <1> QED
    BY <1>3, <1>4, <1>8

-----------------------------------------------------------------------------
(* The credits of a list up to a time.                                     *)

Credits(list, t) == [i \in 1 .. Len(list) |-> IF list[i][1] <= t THEN list[i][2] ELSE 0]

CreditBy(list, t) == Total(Credits(list, t), Len(list))

LEMMA CreditsNat ==
    ASSUME NEW list \in Seq(Entries), NEW t \in Int
    PROVE  /\ Len(list) \in Nat
           /\ \A i \in 1 .. Len(list) : /\ list[i][1] \in Nat /\ list[i][2] \in Nat
                                        /\ Credits(list, t)[i] \in Nat
           /\ CreditBy(list, t) \in Nat
  <1>1. Len(list) \in Nat /\ \A i \in 1 .. Len(list) : list[i] \in Entries
    BY ElementOfSeq, LenProperties
  <1>2. \A i \in 1 .. Len(list) : list[i][1] \in Nat /\ list[i][2] \in Nat
    BY <1>1 DEF Entries
  <1>3. \A i \in 1 .. Len(list) : Credits(list, t)[i] \in Nat
    BY <1>2 DEF Credits
  <1>4. CreditBy(list, t) \in Nat
    BY <1>1, <1>3, TotalNat DEF CreditBy
  <1> QED
    BY <1>1, <1>2, <1>3, <1>4

LEMMA CreditConcat ==
    ASSUME NEW s \in Seq(Entries), NEW r \in Seq(Entries), NEW t \in Int
    PROVE  CreditBy(s \o r, t) = CreditBy(s, t) + CreditBy(r, t)
  <1> DEFINE m == Len(s)
             n == Len(r)
             c == s \o r
  <1>1. m \in Nat /\ n \in Nat /\ Len(c) = m + n
    BY ConcatProperties, LenProperties
  <1>2. (\A i \in 1 .. m : c[i] = s[i]) /\ (\A i \in 1 .. n : c[m + i] = r[i])
    BY <1>1
  <1>3. \A i \in 1 .. m : Credits(c, t)[i] = Credits(s, t)[i] /\ Credits(s, t)[i] \in Nat
    BY <1>1, <1>2, CreditsNat DEF Credits
  <1>4. \A i \in 1 .. n : Credits(c, t)[m + i] = Credits(r, t)[i] /\ Credits(r, t)[i] \in Nat
    <2>1. ASSUME NEW i \in 1 .. n
          PROVE  Credits(c, t)[m + i] = Credits(r, t)[i]
      <3>1. m + i \in 1 .. Len(c) /\ c[m + i] = r[i]
        BY <1>1, <1>2
      <3> QED
        BY <3>1 DEF Credits
    <2> QED
      BY <2>1, CreditsNat
  <1> DEFINE f == Credits(c, t)
             g == Credits(r, t)
  <1>5. Continues(f, m, g, n)
    BY <1>3, <1>4 DEF Continues
  <1> HIDE DEF f, g
  <1>6. Total(f, m + n) = Total(f, m) + Total(g, n)
    BY <1>1, <1>5, TotalSplit
  <1>7. Total(f, m) = CreditBy(s, t)
    BY <1>1, <1>3, TotalEqual DEF CreditBy, f
  <1> QED
    BY <1>1, <1>6, <1>7 DEF CreditBy, f, g

LEMMA CreditOne ==
    ASSUME NEW e \in Entries, NEW t \in Int
    PROVE  CreditBy(<<e>>, t) = IF e[1] <= t THEN e[2] ELSE 0
  <1> DEFINE f == Credits(<<e>>, t)
  <1>1. Len(<<e>>) = 1 /\ f[1] = (IF e[1] <= t THEN e[2] ELSE 0) /\ f[1] \in Nat
    BY DEF Credits, Entries
  <1>2. Total(f, 0) = 0 /\ Total(f, 0 + 1) = Total(f, 0) + f[0 + 1]
    BY TotalUnfolds
  <1> HIDE DEF f
  <1>3. Total(f, 1) = f[1]
    BY <1>1, <1>2
  <1> QED
    BY <1>1, <1>3 DEF CreditBy, f

\* What a line adds.
LEMMA WithLineFacts ==
    ASSUME NEW list \in Seq(Entries), NEW e \in Entries, Increasing(list),
           list # <<>> => list[Len(list)][1] <= e[1]
    PROVE  /\ WithLine(list, e) \in Seq(Entries) /\ WithLine(list, e) # <<>>
           /\ Increasing(WithLine(list, e))
           /\ WithLine(list, e)[Len(WithLine(list, e))][1] = e[1]
           /\ WithLine(list, e)[1][1] = IF list = <<>> THEN e[1] ELSE list[1][1]
           /\ \A t \in Int : CreditBy(WithLine(list, e), t)
                                 = CreditBy(list, t) + (IF e[1] <= t THEN e[2] ELSE 0)
  <1> DEFINE n == Len(list)
             r == WithLine(list, e)
  <1>1. n \in Nat /\ \A i \in 1 .. n : list[i] \in Entries /\ list[i][1] \in Nat /\ list[i][2] \in Nat
    <2>1. 0 \in Int
      OBVIOUS
    <2> QED
      BY <2>1, CreditsNat, ElementOfSeq
  <1>2. e[1] \in Nat /\ e[2] \in Nat
    BY DEF Entries
  <1>3. list = <<>> <=> n = 0
    BY EmptySeq
  <1>4. CASE list # <<>> /\ list[n][1] = e[1]
    <2>1. n \in 1 .. n /\ n - 1 \in Nat
      BY <1>1, <1>3, <1>4
    <2> DEFINE x == <<e[1], list[n][2] + e[2]>>
    <2>2. r = [list EXCEPT ![n] = x]
      BY <1>4 DEF WithLine
    <2>3. x \in Entries
      BY <1>1, <1>2, <2>1 DEF Entries
    <2> HIDE DEF r
    <2>4. /\ r \in Seq(Entries) /\ Len(r) = n /\ r[n] = x
          /\ \A i \in 1 .. n - 1 : r[i] = list[i]
      BY <2>1, <2>2, <2>3, ExceptSeq
    <2>5. \A i \in 1 .. n : r[i][1] = list[i][1]
      BY <1>1, <1>4, <2>1, <2>4
    <2>6. Increasing(r)
      BY <2>4, <2>5 DEF Increasing
    <2>7. ASSUME NEW t \in Int
          PROVE  CreditBy(r, t) = CreditBy(list, t) + (IF e[1] <= t THEN e[2] ELSE 0)
      <3> DEFINE f == Credits(list, t)
                 g == Credits(r, t)
      <3>1. ASSUME NEW i \in 1 .. n - 1
            PROVE  f[i] = g[i]
        <4>1. i \in 1 .. Len(list) /\ i \in 1 .. Len(r) /\ r[i] = list[i]
          BY <2>1, <2>4
        <4> QED
          BY <4>1 DEF Credits
      <3>2. /\ f[n] = (IF e[1] <= t THEN list[n][2] ELSE 0)
            /\ g[n] = (IF e[1] <= t THEN list[n][2] + e[2] ELSE 0)
            /\ list[n][2] \in Nat
        BY <1>1, <1>4, <2>1, <2>4 DEF Credits
      <3>3. \A i \in 1 .. n - 1 : f[i] \in Nat
        BY <1>1, CreditsNat
      <3>4. CreditBy(list, t) = Total(f, n) /\ CreditBy(r, t) = Total(g, n)
        BY <2>4 DEF CreditBy
      <3> HIDE DEF f, g
      <3>5. Total(f, n - 1) = Total(g, n - 1) /\ Total(f, n - 1) \in Nat
        BY <2>1, <3>1, <3>3, TotalEqual, TotalNat
      <3>6. (n - 1) + 1 = n
        BY <1>1
      <3>7. Total(f, n) = Total(f, n - 1) + f[n] /\ Total(g, n) = Total(g, n - 1) + g[n]
        BY <2>1, <3>6, TotalUnfolds
      <3> QED
        BY <1>2, <3>2, <3>4, <3>5, <3>7
    <2> QED
      BY <1>3, <1>4, <2>1, <2>4, <2>5, <2>6, <2>7 DEF r
  <1>5. CASE ~(list # <<>> /\ list[n][1] = e[1])
    <2>1. r = Append(list, e)
      BY <1>5 DEF WithLine
    <2> HIDE DEF r
    <2>2. /\ r \in Seq(Entries) /\ Len(r) = n + 1 /\ r[n + 1] = e
          /\ \A i \in 1 .. n : r[i] = list[i]
      BY <2>1, AppendProperties
    <2>3. Increasing(r)
      <3>1. ASSUME NEW i \in 1 .. n + 1, NEW j \in 1 .. n + 1, i < j
            PROVE  r[i][1] < r[j][1]
        <4>1. CASE j \in 1 .. n
          <5>1. i \in 1 .. n
            BY <1>1, <3>1, <4>1
          <5> QED
            BY <2>2, <3>1, <4>1, <5>1 DEF Increasing
        <4>2. CASE j = n + 1
          <5>1. i \in 1 .. n /\ n \in 1 .. n
            BY <1>1, <3>1, <4>2
          <5>2. list[n][1] < e[1]
            BY <1>1, <1>2, <1>3, <1>5, <5>1
          <5>3. i # n => list[i][1] < list[n][1]
            BY <5>1 DEF Increasing
          <5>4. list[i][1] < e[1]
            BY <1>1, <1>2, <5>1, <5>2, <5>3
          <5> QED
            BY <2>2, <4>2, <5>1, <5>4
        <4> QED
          BY <1>1, <4>1, <4>2
      <3> QED
        BY <2>2, <3>1 DEF Increasing
    <2>4. r = list \o <<e>>
      BY <2>1, AppendIsConcat
    <2>5. ASSUME NEW t \in Int
          PROVE  CreditBy(r, t) = CreditBy(list, t) + (IF e[1] <= t THEN e[2] ELSE 0)
      <3>1. <<e>> \in Seq(Entries)
        OBVIOUS
      <3>2. CreditBy(r, t) = CreditBy(list, t) + CreditBy(<<e>>, t)
        BY <2>4, <3>1, CreditConcat
      <3> QED
        BY <3>2, CreditOne
    <2>6. r # <<>>
      BY <1>1, <2>2, EmptySeq
    <2>7. r[1][1] = IF list = <<>> THEN e[1] ELSE list[1][1]
      BY <1>1, <1>3, <2>2
    <2> QED
      BY <2>2, <2>3, <2>5, <2>6, <2>7 DEF r
  <1> QED
    BY <1>4, <1>5

-----------------------------------------------------------------------------
(* What the constructor of a TraceLink makes of a file.                    *)

\* L gives the list after each of the first n lines.
Joins(file, n, L) == L = [k \in 0 .. n |-> IF k = 0 THEN <<>> ELSE WithLine(L[k - 1], file[k])]

LEMMA JoinsExist ==
    ASSUME NEW file, NEW n \in Nat
    PROVE  \E L : Joins(file, n, L)
  <1> DEFINE P == {m \in Nat : \E L : Joins(file, m, L)}
  <1>1. 0 \in P
    <2>1. Joins(file, 0, [k \in 0 .. 0 |-> <<>>])
      BY DEF Joins
    <2> QED
      BY <2>1
  <1>2. ASSUME NEW m \in 0 .. n - 1, m \in P
        PROVE  m + 1 \in P
    <2>1. PICK g : Joins(file, m, g)
      BY <1>2
    <2> DEFINE h == [k \in 0 .. m + 1 |-> IF k = m + 1 THEN WithLine(g[m], file[m + 1]) ELSE g[k]]
    <2>2. ASSUME NEW k \in 0 .. m + 1
          PROVE  h[k] = IF k = 0 THEN <<>> ELSE WithLine(h[k - 1], file[k])
      <3>1. CASE k = m + 1
        BY <3>1
      <3>2. CASE k # m + 1
        <4>1. k \in 0 .. m /\ (k # 0 => k - 1 \in 0 .. m)
          BY <3>2
        <4>2. g[k] = IF k = 0 THEN <<>> ELSE WithLine(g[k - 1], file[k])
          BY <2>1, <4>1 DEF Joins
        <4>3. h[k] = g[k] /\ (k # 0 => h[k - 1] = g[k - 1])
          BY <3>2, <4>1
        <4> HIDE DEF h
        <4> QED
          BY <4>2, <4>3
      <3> QED
        BY <3>1, <3>2
    <2>3. h = [k \in 0 .. m + 1 |-> h[k]]
      OBVIOUS
    <2> HIDE DEF h
    <2>4. Joins(file, m + 1, h)
      BY <2>2, <2>3 DEF Joins
    <2> QED
      BY <2>4
  <1> HIDE DEF P
  <1>3. 0 .. n \subseteq P
    BY <1>1, <1>2, UpTo
  <1> QED
    BY <1>3 DEF P

\* Aggregation keeps the credit, leaves one entry for each time, and begins and
\* ends with the times of the file.
LEMMA AggregatedFacts ==
    ASSUME NEW file, WellFormed(file)
    PROVE  /\ Aggregated(file) \in Seq(Entries) /\ Aggregated(file) # <<>>
           /\ Increasing(Aggregated(file))
           /\ Aggregated(file)[1][1] = file[1][1]
           /\ Aggregated(file)[Len(Aggregated(file))][1] = file[Len(file)][1]
           /\ \A t \in Int : CreditBy(Aggregated(file), t) = CreditBy(file, t)
  <1> DEFINE n == Len(file)
             L == CHOOSE L : Joins(file, n, L)
             Good(k) == /\ L[k] \in Seq(Entries) /\ Increasing(L[k])
                        /\ L[k] = <<>> <=> k = 0
                        /\ k > 0 => L[k][1][1] = file[1][1] /\ L[k][Len(L[k])][1] = file[k][1]
                        /\ \A t \in Int : CreditBy(L[k], t) = Total(Credits(file, t), k)
             P == {k \in 0 .. n : Good(k)}
  <1>1. n \in Nat /\ n >= 2 /\ file \in Seq(Entries) /\ \A i \in 1 .. n : file[i] \in Entries
    BY LenProperties, ElementOfSeq DEF WellFormed, Entries
  <1>2. Joins(file, n, L)
    BY <1>1, JoinsExist
  <1>3. Aggregated(file) = L[n]
    BY DEF Aggregated, Joins
  <1> HIDE DEF L
  <1>4. L[0] = <<>> /\ \A k \in 0 .. n - 1 : L[k + 1] = WithLine(L[k], file[k + 1])
    <2>1. ASSUME NEW k \in 0 .. n - 1
          PROVE  L[k + 1] = WithLine(L[k], file[k + 1])
      <3>1. k + 1 \in 0 .. n /\ k + 1 # 0 /\ (k + 1) - 1 = k
        BY <1>1
      <3> QED
        BY <1>2, <3>1 DEF Joins
    <2> QED
      BY <1>1, <1>2, <2>1 DEF Joins
  <1>5. Good(0)
    <2>1. L[0] \in Seq(Entries) /\ Increasing(L[0]) /\ Len(L[0]) = 0
      BY <1>4 DEF Increasing
    <2>2. \A t \in Int : CreditBy(L[0], t) = 0 /\ Total(Credits(file, t), 0) = 0
      BY <2>1, TotalUnfolds DEF CreditBy
    <2> QED
      BY <1>4, <2>1, <2>2
  <1>6. ASSUME NEW k \in 0 .. n - 1, Good(k)
        PROVE  Good(k + 1)
    <2> DEFINE e == file[k + 1]
    <2>1. k + 1 \in 1 .. n /\ e \in Entries /\ k \in Nat /\ e[1] \in Nat /\ e[2] \in Nat
      BY <1>1 DEF Entries
    <2>2. k > 0 => file[k][1] <= e[1]
      <3>1. k > 0 => k + 1 \in 2 .. n /\ (k + 1) - 1 = k
        BY <2>1
      <3> QED
        BY <3>1 DEF WellFormed
    <2>3. L[k] # <<>> => L[k][Len(L[k])][1] <= e[1]
      BY <1>6, <2>1, <2>2
    <2>4. L[k + 1] = WithLine(L[k], e)
      BY <1>4
    <2> HIDE DEF e
    <2>5. /\ L[k + 1] \in Seq(Entries) /\ L[k + 1] # <<>>
          /\ Increasing(L[k + 1])
          /\ L[k + 1][Len(L[k + 1])][1] = e[1]
          /\ L[k + 1][1][1] = IF L[k] = <<>> THEN e[1] ELSE L[k][1][1]
          /\ \A t \in Int : CreditBy(L[k + 1], t) = CreditBy(L[k], t) + (IF e[1] <= t THEN e[2] ELSE 0)
      <3> DEFINE list == L[k]
      <3>1. list \in Seq(Entries) /\ Increasing(list) /\ (list # <<>> => list[Len(list)][1] <= e[1])
        BY <1>6, <2>3
      <3>2. L[k + 1] = WithLine(list, e)
        BY <2>4
      <3> HIDE DEF list
      <3>3. /\ WithLine(list, e) \in Seq(Entries) /\ WithLine(list, e) # <<>>
            /\ Increasing(WithLine(list, e))
            /\ WithLine(list, e)[Len(WithLine(list, e))][1] = e[1]
            /\ WithLine(list, e)[1][1] = IF list = <<>> THEN e[1] ELSE list[1][1]
            /\ \A t \in Int : CreditBy(WithLine(list, e), t)
                                  = CreditBy(list, t) + (IF e[1] <= t THEN e[2] ELSE 0)
        BY <2>1, <3>1, WithLineFacts, Zenon
      <3> QED
        BY <3>2, <3>3 DEF list
    <2>6. L[k + 1][1][1] = file[1][1]
      BY <1>6, <2>1, <2>5 DEF e
    <2>7. ASSUME NEW t \in Int
          PROVE  CreditBy(L[k + 1], t) = Total(Credits(file, t), k + 1)
      <3>1. Credits(file, t)[k + 1] = IF e[1] <= t THEN e[2] ELSE 0
        BY <2>1 DEF Credits, e
      <3>2. Total(Credits(file, t), k + 1) = Total(Credits(file, t), k) + Credits(file, t)[k + 1]
        BY <2>1, TotalUnfolds
      <3> QED
        BY <1>6, <2>5, <3>1, <3>2
    <2>8. k + 1 > 0 /\ L[k + 1][Len(L[k + 1])][1] = file[k + 1][1]
      BY <2>1, <2>5 DEF e
    <2> QED
      BY <2>5, <2>6, <2>7, <2>8
  <1> HIDE DEF Good
  <1>7. 0 .. n \subseteq P
    <2>1. 0 \in P
      BY <1>1, <1>5
    <2>2. ASSUME NEW k \in 0 .. n - 1, k \in P
          PROVE  k + 1 \in P
      <3>1. k + 1 \in 0 .. n /\ Good(k)
        BY <1>1, <2>2
      <3> QED
        BY <1>6, <3>1
    <2> HIDE DEF P
    <2> QED
      BY <1>1, <2>1, <2>2, UpTo
  <1>8. Good(n) /\ n > 0
    BY <1>1, <1>7
  <1> QED
    BY <1>3, <1>8 DEF Good, CreditBy

\* Totals of numbers up to c.
LEMMA TotalBound ==
    ASSUME NEW f, NEW n \in Nat, NEW c \in Nat, \A k \in 1 .. n : f[k] \in Nat /\ f[k] <= c
    PROVE  Total(f, n) \in Nat /\ Total(f, n) <= n * c
  <1> DEFINE P == {m \in Nat : Total(f, m) \in Nat /\ Total(f, m) <= m * c}
  <1>1. 0 \in P
    BY TotalUnfolds
  <1>2. ASSUME NEW m \in 0 .. n - 1, m \in P
        PROVE  m + 1 \in P
    <2>1. f[m + 1] \in Nat /\ f[m + 1] <= c /\ m \in Nat
      OBVIOUS
    <2>2. Total(f, m + 1) = Total(f, m) + f[m + 1]
      BY <2>1, TotalUnfolds
    <2>3. (m + 1) * c = m * c + c /\ m * c \in Nat
      BY <2>1
    <2> DEFINE a == m * c  b == (m + 1) * c
    <2>4. Total(f, m) \in Nat /\ Total(f, m) <= a /\ b = a + c /\ a \in Nat
      BY <1>2, <2>3
    <2> HIDE DEF a, b
    <2>5. Total(f, m + 1) \in Nat /\ Total(f, m + 1) <= b
      BY <2>1, <2>2, <2>4
    <2> QED
      BY <2>1, <2>5 DEF b
  <1> HIDE DEF P
  <1>3. 0 .. n \subseteq P
    BY <1>1, <1>2, UpTo
  <1> QED
    BY <1>3 DEF P

\* Lists for one span of time and for a later one.
LEMMA ConcatFacts ==
    ASSUME NEW s \in Seq(Entries), NEW r \in Seq(Entries), Increasing(s), Increasing(r),
           s # <<>>, r # <<>>, NEW b \in Nat,
           \A i \in 1 .. Len(s) : s[i][1] < b, \A i \in 1 .. Len(r) : b <= r[i][1]
    PROVE  /\ s \o r \in Seq(Entries) /\ s \o r # <<>> /\ Increasing(s \o r)
           /\ (s \o r)[1] = s[1]
           /\ (s \o r)[Len(s \o r)] = r[Len(r)]
           /\ \A i \in 1 .. Len(s \o r) : \/ \E j \in 1 .. Len(s) : (s \o r)[i] = s[j]
                                          \/ \E j \in 1 .. Len(r) : (s \o r)[i] = r[j]
  <1> DEFINE c == s \o r
             m == Len(s)
             n == Len(r)
  <1>1. m \in Nat /\ n \in Nat /\ m > 0 /\ n > 0
    BY EmptySeq, LenProperties
  <1>2. c \in Seq(Entries) /\ Len(c) = m + n
    BY ConcatProperties
  <1>3. \A i \in 1 .. m + n : c[i] = IF i <= m THEN s[i] ELSE r[i - m]
    BY ConcatProperties
  <1>4. (\A i \in 1 .. m : s[i][1] \in Nat) /\ (\A i \in 1 .. n : r[i][1] \in Nat)
    <2>1. 0 \in Int
      OBVIOUS
    <2> QED
      BY <2>1, CreditsNat
  <1> HIDE DEF c
  <1>5. ASSUME NEW i \in 1 .. m + n
        PROVE  \/ i \in 1 .. m /\ c[i] = s[i]
               \/ i > m /\ i - m \in 1 .. n /\ c[i] = r[i - m]
    BY <1>1, <1>3
  <1>6. ASSUME NEW i \in 1 .. m + n, NEW j \in 1 .. m + n, i < j
        PROVE  c[i][1] < c[j][1]
    <2>1. CASE j <= m
      <3>1. i \in 1 .. m /\ j \in 1 .. m /\ c[i] = s[i] /\ c[j] = s[j]
        BY <1>1, <1>3, <1>6, <2>1
      <3> QED
        BY <1>6, <3>1 DEF Increasing
    <2>2. CASE j > m /\ i <= m
      <3>1. i \in 1 .. m /\ j - m \in 1 .. n /\ c[i] = s[i] /\ c[j] = r[j - m]
        BY <1>1, <1>3, <2>2
      <3>2. s[i][1] < b /\ b <= r[j - m][1] /\ s[i][1] \in Nat /\ r[j - m][1] \in Nat
        BY <1>4, <3>1
      <3> QED
        BY <3>1, <3>2
    <2>3. CASE i > m
      <3>1. i - m \in 1 .. n /\ j - m \in 1 .. n /\ i - m < j - m /\ ~(i <= m) /\ ~(j <= m)
        BY <1>1, <1>6, <2>3
      <3>2. c[i] = r[i - m] /\ c[j] = r[j - m]
        BY <1>3, <3>1
      <3> QED
        BY <3>1, <3>2 DEF Increasing
    <2> QED
      BY <1>1, <2>1, <2>2, <2>3
  <1>7. Increasing(c)
    BY <1>2, <1>6 DEF Increasing
  <1>8. c # <<>>
    BY <1>1, <1>2
  <1>9. c[1] = s[1] /\ c[m + n] = r[n]
    BY <1>1, <1>3
  <1>10. \A i \in 1 .. m + n : \/ \E j \in 1 .. m : c[i] = s[j]
                               \/ \E j \in 1 .. n : c[i] = r[j]
    BY <1>5
  <1> QED
    BY <1>2, <1>7, <1>8, <1>9, <1>10 DEF c

LEMMA ShareFits ==
    ASSUME NEW a \in Nat, NEW d \in Nat, d >= 1
    PROVE  a \div d \in Nat /\ d * (a \div d) <= a
  OBVIOUS

\* What interpolation makes of one entry: its span of time, and no more credit.
LEMMA PieceFacts ==
    ASSUME InterceptorAssumption, NEW list \in Seq(Entries), Increasing(list), NEW i \in 1 .. Len(list)
    PROVE  /\ Piece(list, i) \in Seq(Entries) /\ Piece(list, i) # <<>>
           /\ Increasing(Piece(list, i))
           /\ Piece(list, i)[1][1] = list[i][1]
           /\ \A k \in 1 .. Len(Piece(list, i)) :
                  /\ list[i][1] <= Piece(list, i)[k][1]
                  /\ i < Len(list) => Piece(list, i)[k][1] < list[i + 1][1]
           /\ i = Len(list) => Piece(list, i) = <<list[i]>>
           /\ \A t \in Int : CreditBy(Piece(list, i), t) <= Credits(list, t)[i]
  <1> DEFINE n == Len(list)
             e == list[i]
             d == list[i + 1][1] - e[1]
             p == Piece(list, i)
  <1>1. n \in Nat /\ e \in Entries /\ e[1] \in Nat /\ e[2] \in Nat
    BY LenProperties, ElementOfSeq DEF Entries
  <1>2. i < n => list[i + 1][1] \in Nat /\ e[1] < list[i + 1][1]
    <2>1. i < n => i + 1 \in 1 .. n /\ i < i + 1
      BY <1>1
    <2>2. i < n => list[i + 1] \in Entries
      BY <2>1, ElementOfSeq
    <2> QED
      BY <2>1, <2>2 DEF Increasing, Entries
  <1>3. \A t \in Int : Credits(list, t)[i] = IF e[1] <= t THEN e[2] ELSE 0
    BY DEF Credits
  <1>4. CASE i < n /\ d \in 2 .. Outage
    <2>1. p = [k \in 1 .. d |-> <<e[1] + k - 1, e[2] \div d>>]
      BY <1>4 DEF Piece, Spread
    <2>2. d \in Nat /\ d >= 2 /\ d = list[i + 1][1] - e[1]
      BY <1>1, <1>2, <1>4
    <2> DEFINE c == e[2] \div d
    <2>3. c \in Nat /\ d * c <= e[2]
      <3>1. d \in Nat /\ d >= 1
        BY <2>2
      <3> HIDE DEF d
      <3> QED
        BY <1>1, <3>1, ShareFits
    <2> HIDE DEF c, d, p
    <2>4. /\ p \in Seq(Entries) /\ Len(p) = d
          /\ \A k \in 1 .. d : p[k][1] = e[1] + k - 1 /\ p[k][2] = c
      <3>1. p = [k \in 1 .. d |-> <<e[1] + k - 1, c>>]
        BY <2>1 DEF c
      <3>2. \A k \in 1 .. d : <<e[1] + k - 1, c>> \in Entries
        <4>1. ASSUME NEW k \in 1 .. d
              PROVE  <<e[1] + k - 1, c>> \in Entries
          <5>1. e[1] + k - 1 \in Nat
            BY <1>1, <2>2
          <5> QED
            BY <2>3, <5>1 DEF Entries
        <4> QED
          BY <4>1
      <3>3. /\ Len(p) = d
            /\ \A k \in 1 .. d : p[k] = <<e[1] + k - 1, c>>
        BY <2>2, <3>1
      <3>4. p \in Seq(Entries)
        <4>1. p \in [1 .. d -> Entries]
          BY <3>1, <3>2
        <4> QED
          BY <2>2, <4>1, SeqDef
      <3>5. \A k \in 1 .. d : p[k][1] = e[1] + k - 1 /\ p[k][2] = c
        BY <3>3
      <3> QED
        BY <3>3, <3>4, <3>5
    <2>5. Increasing(p)
      BY <1>1, <2>2, <2>4 DEF Increasing
    <2>6. \A k \in 1 .. d : e[1] <= p[k][1] /\ p[k][1] < list[i + 1][1]
      BY <1>1, <1>2, <1>4, <2>2, <2>4
    <2>7. ASSUME NEW t \in Int
          PROVE  CreditBy(p, t) <= Credits(list, t)[i]
      <3> DEFINE f == Credits(p, t)
                 y == IF e[1] <= t THEN c ELSE 0
      <3>1. y \in Nat /\ \A k \in 1 .. d : f[k] \in Nat /\ f[k] <= y
        <4>1. ASSUME NEW k \in 1 .. d
              PROVE  f[k] \in Nat /\ f[k] <= y
          <5>1. f[k] = IF e[1] + k - 1 <= t THEN c ELSE 0
            BY <2>4 DEF Credits
          <5>2. e[1] + k - 1 <= t => e[1] <= t
            BY <1>1, <2>2
          <5> QED
            BY <2>3, <5>1, <5>2
        <4> QED
          BY <2>3, <4>1
      <3> HIDE DEF f, y
      <3>2. Total(f, d) \in Nat /\ Total(f, d) <= d * y
        BY <2>2, <3>1, TotalBound
      <3>3. d * y <= IF e[1] <= t THEN e[2] ELSE 0
        BY <2>2, <2>3 DEF y
      <3>4. CreditBy(p, t) = Total(f, d)
        BY <2>4 DEF CreditBy, f
      <3>5. d * y \in Nat
        BY <2>2, <3>1
      <3> QED
        BY <1>1, <1>3, <3>2, <3>3, <3>4, <3>5
    <2>8. p # <<>> /\ p[1][1] = e[1]
      BY <1>1, <2>2, <2>4
    <2> QED
      BY <1>1, <1>4, <2>4, <2>5, <2>6, <2>7, <2>8 DEF p
  <1>5. CASE ~(i < n /\ d \in 2 .. Outage)
    <2>1. p = <<e>>
      BY <1>5 DEF Piece
    <2> HIDE DEF p
    <2>2. p \in Seq(Entries) /\ Len(p) = 1 /\ p[1] = e /\ p # <<>>
      BY <1>1, <2>1
    <2>3. Increasing(p)
      BY <2>2 DEF Increasing
    <2>4. \A t \in Int : CreditBy(p, t) <= Credits(list, t)[i]
      <3>1. ASSUME NEW t \in Int
            PROVE  CreditBy(p, t) <= Credits(list, t)[i]
        <4>1. CreditBy(p, t) = IF e[1] <= t THEN e[2] ELSE 0
          BY <1>1, <2>1, CreditOne
        <4> QED
          BY <1>1, <1>3, <4>1
      <3> QED
        BY <3>1
    <2>5. \A k \in 1 .. Len(p) : e[1] <= p[k][1] /\ (i < n => p[k][1] < list[i + 1][1])
      BY <1>1, <1>2, <2>2
    <2> QED
      BY <2>1, <2>2, <2>3, <2>4, <2>5 DEF p
  <1> QED
    BY <1>4, <1>5

\* F gives the concatenation of the first elements of seqs, up to n of them.
Joined(seqs, n, F) == F = [i \in 1 .. n |-> IF i = 1 THEN seqs[i] ELSE F[i - 1] \o seqs[i]]

LEMMA JoinedExists ==
    ASSUME NEW seqs, NEW n \in Nat
    PROVE  \E F : Joined(seqs, n, F)
  <1> DEFINE P == {m \in Nat : \E F : Joined(seqs, m, F)}
  <1>1. 0 \in P
    <2>1. Joined(seqs, 0, [i \in 1 .. 0 |-> <<>>])
      BY DEF Joined
    <2> QED
      BY <2>1
  <1>2. ASSUME NEW m \in 0 .. n - 1, m \in P
        PROVE  m + 1 \in P
    <2>1. PICK g : Joined(seqs, m, g)
      BY <1>2
    <2> DEFINE x == IF m = 0 THEN seqs[1] ELSE g[m] \o seqs[m + 1]
               h == [i \in 1 .. m + 1 |-> IF i = m + 1 THEN x ELSE g[i]]
    <2>2. ASSUME NEW i \in 1 .. m + 1
          PROVE  h[i] = IF i = 1 THEN seqs[i] ELSE h[i - 1] \o seqs[i]
      <3>1. CASE i = m + 1
        <4>1. h[i] = x /\ (i # 1 => i - 1 = m /\ h[m] = g[m]) /\ (i = 1 <=> m = 0)
          BY <3>1
        <4> QED
          BY <3>1, <4>1
      <3>2. CASE i # m + 1
        <4>1. i \in 1 .. m /\ (i # 1 => i - 1 \in 1 .. m)
          BY <3>2
        <4>2. g[i] = IF i = 1 THEN seqs[i] ELSE g[i - 1] \o seqs[i]
          BY <2>1, <4>1 DEF Joined
        <4>3. h[i] = g[i] /\ (i # 1 => h[i - 1] = g[i - 1])
          BY <3>2, <4>1
        <4> HIDE DEF h
        <4> QED
          BY <4>2, <4>3
      <3> QED
        BY <3>1, <3>2
    <2>3. h = [i \in 1 .. m + 1 |-> h[i]]
      OBVIOUS
    <2> HIDE DEF h
    <2>4. Joined(seqs, m + 1, h)
      BY <2>2, <2>3 DEF Joined
    <2> QED
      BY <2>4
  <1> HIDE DEF P
  <1>3. 0 .. n \subseteq P
    BY <1>1, <1>2, UpTo
  <1> QED
    BY <1>3 DEF P

LEMMA FlattenUnfolds ==
    ASSUME NEW seqs, Len(seqs) \in Nat, Len(seqs) > 0
    PROVE  \E F : /\ F[1] = seqs[1]
                  /\ \A i \in 1 .. Len(seqs) - 1 : F[i + 1] = F[i] \o seqs[i + 1]
                  /\ FlattenSeq(seqs) = F[Len(seqs)]
  <1> DEFINE n == Len(seqs)
             F == CHOOSE F : Joined(seqs, n, F)
  <1>1. Joined(seqs, n, F)
    BY JoinedExists
  <1>2. FlattenSeq(seqs) = F[n]
    BY DEF FlattenSeq, Joined
  <1> HIDE DEF F
  <1>3. F[1] = seqs[1]
    BY <1>1 DEF Joined
  <1>4. ASSUME NEW i \in 1 .. n - 1
        PROVE  F[i + 1] = F[i] \o seqs[i + 1]
    <2>1. i + 1 \in 1 .. n /\ i + 1 # 1 /\ (i + 1) - 1 = i
      OBVIOUS
    <2> QED
      BY <1>1, <2>1 DEF Joined
  <1> QED
    BY <1>2, <1>3, <1>4

\* Interpolation keeps the entries in order, begins and ends with the times of
\* the list, and gives no credit before its time.
LEMMA InterpolatedFacts ==
    ASSUME InterceptorAssumption, NEW list \in Seq(Entries), list # <<>>, Increasing(list)
    PROVE  /\ Interpolated(list) \in Seq(Entries) /\ Interpolated(list) # <<>>
           /\ Increasing(Interpolated(list))
           /\ Interpolated(list)[1][1] = list[1][1]
           /\ Interpolated(list)[Len(Interpolated(list))][1] = list[Len(list)][1]
           /\ \A t \in Int : CreditBy(Interpolated(list), t) <= CreditBy(list, t)
  <1> DEFINE n == Len(list)
             seqs == [i \in 1 .. n |-> Piece(list, i)]
  <1>1. n \in Nat /\ n > 0 /\ Len(seqs) = n
    BY LenProperties, EmptySeq
  <1>2. PICK F : /\ F[1] = seqs[1]
                 /\ \A i \in 1 .. n - 1 : F[i + 1] = F[i] \o seqs[i + 1]
                 /\ FlattenSeq(seqs) = F[n]
    <2> HIDE DEF seqs
    <2> QED
      BY <1>1, FlattenUnfolds
  <1>3. /\ F[1] = Piece(list, 1)
        /\ \A i \in 1 .. n - 1 : F[i + 1] = F[i] \o Piece(list, i + 1)
    <2>1. \A i \in 1 .. n : seqs[i] = Piece(list, i)
      OBVIOUS
    <2>2. 1 \in 1 .. n /\ \A i \in 1 .. n - 1 : i + 1 \in 1 .. n
      BY <1>1
    <2> HIDE DEF seqs
    <2> QED
      BY <1>2, <2>1, <2>2
  <1>4. Interpolated(list) = F[n]
    BY <1>2 DEF Interpolated
  <1> DEFINE Good(k) == /\ F[k] \in Seq(Entries) /\ F[k] # <<>> /\ Increasing(F[k])
                        /\ F[k][1][1] = list[1][1]
                        /\ F[k][Len(F[k])] = Piece(list, k)[Len(Piece(list, k))]
                        /\ k < n => \A j \in 1 .. Len(F[k]) : F[k][j][1] < list[k + 1][1]
                        /\ \A t \in Int : CreditBy(F[k], t) <= Total(Credits(list, t), k)
             P == {k \in 0 .. n : k > 0 => Good(k)}
  <1>5. \A k \in 1 .. n : /\ Piece(list, k) \in Seq(Entries) /\ Piece(list, k) # <<>>
                          /\ Increasing(Piece(list, k))
                          /\ Piece(list, k)[1][1] = list[k][1]
                          /\ \A j \in 1 .. Len(Piece(list, k)) :
                                 /\ list[k][1] <= Piece(list, k)[j][1]
                                 /\ k < n => Piece(list, k)[j][1] < list[k + 1][1]
                          /\ k = n => Piece(list, k) = <<list[k]>>
                          /\ \A t \in Int : CreditBy(Piece(list, k), t) <= Credits(list, t)[k]
    BY PieceFacts
  <1>6. \A k \in 1 .. n : \A t \in Int : Credits(list, t)[k] \in Nat /\ list[k][1] \in Nat
    BY CreditsNat
  <1>7. Good(1)
    <2>1. 1 \in 1 .. n
      BY <1>1
    <2>2. ASSUME NEW t \in Int
          PROVE  CreditBy(F[1], t) <= Total(Credits(list, t), 1)
      <3>1. Total(Credits(list, t), 0) = 0
            /\ Total(Credits(list, t), 0 + 1) = Total(Credits(list, t), 0) + Credits(list, t)[0 + 1]
        BY TotalUnfolds
      <3>2. Total(Credits(list, t), 1) = Credits(list, t)[1]
        BY <1>6, <2>1, <3>1
      <3> QED
        BY <1>3, <1>5, <2>1, <3>2
    <2> QED
      BY <1>3, <1>5, <2>1, <2>2
  <1>8. ASSUME NEW k \in 1 .. n - 1, Good(k)
        PROVE  Good(k + 1)
    <2> DEFINE s == F[k]
               r == Piece(list, k + 1)
               b == list[k + 1][1]
    <2>1. k \in 1 .. n /\ k + 1 \in 1 .. n /\ k < n /\ k \in Nat
      BY <1>1
    <2>2. F[k + 1] = s \o r
      BY <1>3
    <2>3. /\ s \in Seq(Entries) /\ s # <<>> /\ Increasing(s) /\ s[1][1] = list[1][1]
          /\ \A j \in 1 .. Len(s) : s[j][1] < b
          /\ \A t \in Int : CreditBy(s, t) <= Total(Credits(list, t), k)
      BY <1>8, <2>1
    <2>4. /\ r \in Seq(Entries) /\ r # <<>> /\ Increasing(r) /\ b \in Nat
          /\ \A j \in 1 .. Len(r) : b <= r[j][1]
          /\ k + 1 < n => \A j \in 1 .. Len(r) : r[j][1] < list[(k + 1) + 1][1]
          /\ \A t \in Int : CreditBy(r, t) <= Credits(list, t)[k + 1]
      <3>1. 0 \in Int
        OBVIOUS
      <3> QED
        BY <1>5, <1>6, <2>1, <3>1
    <2> HIDE DEF s, r
    <2>5. /\ s \o r \in Seq(Entries) /\ s \o r # <<>> /\ Increasing(s \o r)
          /\ (s \o r)[1] = s[1]
          /\ (s \o r)[Len(s \o r)] = r[Len(r)]
          /\ \A i \in 1 .. Len(s \o r) : \/ \E j \in 1 .. Len(s) : (s \o r)[i] = s[j]
                                         \/ \E j \in 1 .. Len(r) : (s \o r)[i] = r[j]
      <3> HIDE DEF b
      <3> QED
        BY <2>3, <2>4, ConcatFacts, Zenon
    <2>6. ASSUME k + 1 < n, NEW i \in 1 .. Len(s \o r)
          PROVE  (s \o r)[i][1] < list[(k + 1) + 1][1]
      <3>1. b < list[(k + 1) + 1][1]
        <4>1. (k + 1) + 1 \in 1 .. n /\ k + 1 < (k + 1) + 1
          BY <1>1, <2>1, <2>6
        <4> QED
          BY <2>1, <4>1 DEF Increasing
      <3>2. b \in Nat /\ list[(k + 1) + 1][1] \in Nat
        <4>1. (k + 1) + 1 \in 1 .. n /\ 0 \in Int
          BY <1>1, <2>1, <2>6
        <4> QED
          BY <1>6, <2>4, <4>1
      <3>3. CASE \E j \in 1 .. Len(s) : (s \o r)[i] = s[j]
        <4>1. PICK j \in 1 .. Len(s) : (s \o r)[i] = s[j]
          BY <3>3
        <4>2. s[j][1] < b /\ s[j][1] \in Nat
          <5>1. 0 \in Int
            OBVIOUS
          <5> QED
            BY <2>3, <5>1, CreditsNat
        <4> HIDE DEF b
        <4> QED
          BY <3>1, <3>2, <4>1, <4>2
      <3>4. CASE \E j \in 1 .. Len(r) : (s \o r)[i] = r[j]
        BY <2>4, <2>6, <3>4
      <3> QED
        BY <2>5, <3>3, <3>4
    <2>7. ASSUME NEW t \in Int
          PROVE  CreditBy(s \o r, t) <= Total(Credits(list, t), k + 1)
      <3>1. CreditBy(s \o r, t) = CreditBy(s, t) + CreditBy(r, t)
        BY <2>3, <2>4, CreditConcat
      <3>2. Total(Credits(list, t), k + 1) = Total(Credits(list, t), k) + Credits(list, t)[k + 1]
        BY <2>1, TotalUnfolds
      <3>3. CreditBy(s, t) \in Nat /\ CreditBy(r, t) \in Nat /\ Credits(list, t)[k + 1] \in Nat
        BY <1>6, <2>1, <2>3, <2>4, CreditsNat
      <3>4. Total(Credits(list, t), k) \in Nat
        <4>1. \A i \in 1 .. k : Credits(list, t)[i] \in Nat
          BY <1>1, <1>6
        <4> QED
          BY <2>1, <4>1, TotalNat
      <3>5. CreditBy(s, t) <= Total(Credits(list, t), k) /\ CreditBy(r, t) <= Credits(list, t)[k + 1]
        BY <2>3, <2>4
      <3> QED
        BY <3>1, <3>2, <3>3, <3>4, <3>5
    <2> QED
      BY <2>2, <2>3, <2>5, <2>6, <2>7 DEF r
  <1> HIDE DEF Good
  <1>9. 0 .. n \subseteq P
    <2>1. 0 \in P
      BY <1>1
    <2>2. ASSUME NEW k \in 0 .. n - 1, k \in P
          PROVE  k + 1 \in P
      <3>1. k + 1 \in 0 .. n
        BY <1>1
      <3>2. CASE k = 0
        BY <1>7, <3>1, <3>2
      <3>3. CASE k # 0
        <4>1. k \in 1 .. n - 1 /\ Good(k)
          BY <1>1, <2>2, <3>3
        <4> QED
          BY <1>8, <3>1, <4>1
      <3> QED
        BY <3>2, <3>3
    <2> HIDE DEF P
    <2> QED
      BY <1>1, <2>1, <2>2, UpTo
  <1>10. Good(n) /\ n \in 1 .. n
    BY <1>1, <1>9
  <1>11. F[n][Len(F[n])][1] = list[n][1]
    <2>1. Piece(list, n) = <<list[n]>>
      BY <1>5, <1>10
    <2>2. Piece(list, n)[Len(Piece(list, n))] = list[n]
      BY <2>1
    <2> QED
      BY <1>10, <2>2 DEF Good
  <1> QED
    BY <1>4, <1>10, <1>11 DEF Good, CreditBy

\* Credits beyond the time asked for add nothing.
LEMMA TotalZeros ==
    ASSUME NEW f, NEW m \in Nat, NEW n \in Nat, m <= n, Total(f, m) \in Nat,
           \A k \in m + 1 .. n : f[k] = 0
    PROVE  Total(f, n) = Total(f, m)
  <1> DEFINE P == {d \in Nat : m + d <= n => Total(f, m + d) = Total(f, m)}
  <1>1. 0 \in P
    OBVIOUS
  <1>2. ASSUME NEW d \in 0 .. (n - m) - 1, d \in P
        PROVE  d + 1 \in P
    <2>1. m + d \in Nat /\ m + d <= n /\ m + (d + 1) \in m + 1 .. n /\ m + (d + 1) = (m + d) + 1
      OBVIOUS
    <2>2. Total(f, (m + d) + 1) = Total(f, m + d) + f[(m + d) + 1]
      BY <2>1, TotalUnfolds
    <2> QED
      BY <1>2, <2>1, <2>2
  <1> HIDE DEF P
  <1>3. n - m \in Nat
    OBVIOUS
  <1>4. 0 .. n - m \subseteq P
    BY <1>1, <1>2, <1>3, UpTo
  <1>5. n - m \in P /\ m + (n - m) = n
    BY <1>3, <1>4
  <1> QED
    BY <1>5 DEF P

\* The credit of the entries that are due.
LEMMA CreditOfDue ==
    ASSUME NEW list \in Seq(Entries), Sorted(list), NEW t \in Int
    PROVE  /\ Credit(list, DueBy(list, t)) = CreditBy(list, t)
           /\ \A n \in 0 .. Len(list) : Credit(list, n) \in Nat
           /\ \A n \in 0 .. Len(list) : \A m \in 0 .. n : Credit(list, m) <= Credit(list, n)
  <1> DEFINE N == Len(list)
             d == DueBy(list, t)
             f == [i \in 1 .. N |-> list[i][2]]
             g == Credits(list, t)
  <1>1. /\ N \in Nat /\ d \in 0 .. N /\ d \in Nat
        /\ \A i \in 1 .. N : list[i][1] <= t <=> i <= d
    <2>1. N \in Nat
      BY LenProperties
    <2>2. d \in 0 .. N /\ \A i \in 1 .. N : list[i][1] <= t <=> i <= d
      BY DueFacts
    <2> QED
      BY <2>1, <2>2
  <1>2. \A i \in 1 .. N : f[i] \in Nat /\ g[i] \in Nat
    BY CreditsNat
  <1>3. \A i \in 1 .. d : f[i] = g[i]
    BY <1>1 DEF Credits
  <1>4. \A i \in d + 1 .. N : g[i] = 0
    <2>1. ASSUME NEW i \in d + 1 .. N
          PROVE  g[i] = 0
      <3>1. i \in 1 .. N /\ ~(i <= d)
        BY <1>1
      <3>2. ~(list[i][1] <= t)
        BY <1>1, <3>1
      <3> QED
        BY <3>1, <3>2 DEF Credits
    <2> QED
      BY <2>1
  <1> HIDE DEF f, g, d, N
  <1>5. Total(f, d) = Total(g, d)
    BY <1>1, <1>3, TotalEqual
  <1>6. \A k \in 1 .. d : g[k] \in Nat
    BY <1>1, <1>2
  <1>7. Total(g, d) \in Nat
    BY <1>1, <1>6, TotalNat
  <1>8. Total(g, N) = Total(g, d)
    BY <1>1, <1>4, <1>7, TotalZeros
  <1>9. \A n \in 0 .. N : /\ Total(f, n) \in Nat
                          /\ \A m \in 0 .. n : Total(f, m) \in Nat /\ Total(f, m) <= Total(f, n)
    BY <1>1, <1>2, TotalGrows
  <1> QED
    BY <1>5, <1>8, <1>9 DEF f, g, d, N, Credit, CreditBy

\* Later times are more credit.
LEMMA CreditGrows ==
    ASSUME NEW list \in Seq(Entries), NEW t \in Int, NEW u \in Int, t <= u
    PROVE  CreditBy(list, t) <= CreditBy(list, u)
  <1>1. Len(list) \in Nat /\ \A i \in 1 .. Len(list) : list[i][1] \in Nat /\ list[i][2] \in Nat
    BY CreditsNat
  <1> DEFINE f == Credits(list, t)
             g == Credits(list, u)
  <1>2. \A i \in 1 .. Len(list) : f[i] \in Nat /\ g[i] \in Nat /\ f[i] <= g[i]
    BY <1>1 DEF Credits
  <1> HIDE DEF f, g
  <1>3. Total(f, Len(list)) <= Total(g, Len(list))
    BY <1>1, <1>2, TotalAtMost
  <1> QED
    BY <1>3 DEF CreditBy, f, g

LEMMA TailFacts ==
    ASSUME NEW list \in Seq(Entries), list # <<>>
    PROVE  /\ Tail(list) \in Seq(Entries) /\ Len(Tail(list)) = Len(list) - 1
           /\ \A i \in 1 .. Len(list) - 1 : Tail(list)[i] = list[i + 1]
           /\ list = <<list[1]>> \o Tail(list)
           /\ list[1] \in Entries
  <1>1. Len(list) \in Nat /\ Len(list) > 0 /\ list[1] \in Entries
    BY EmptySeq, LenProperties, ElementOfSeq
  <1>2. /\ Tail(list) \in Seq(Entries) /\ Len(Tail(list)) = Len(list) - 1
        /\ \A i \in 1 .. Len(list) - 1 : Tail(list)[i] = list[i + 1]
    BY HeadTailProperties
  <1>3. list = <<Head(list)>> \o Tail(list) /\ Head(list) = list[1]
    BY HeadTailProperties, ConcatSimplifications
  <1> QED
    BY <1>1, <1>2, <1>3

LEMMA IncreasingSorted ==
    ASSUME NEW list \in Seq(Entries), Increasing(list)
    PROVE  Sorted(list)
  <1>1. \A i \in 1 .. Len(list) : list[i][1] \in Nat
    <2>1. 0 \in Int
      OBVIOUS
    <2> QED
      BY <2>1, CreditsNat
  <1> QED
    BY <1>1 DEF Increasing, Sorted

\* A trace gives a list of increasing times that does not give any credit before
\* the file does.
LEMMA TraceFacts ==
    ASSUME InterceptorAssumption, NEW file \in Traces
    PROVE  LET p == TracePlan(file)
           IN  /\ p.list \in Seq(Entries) /\ p.list # <<>> /\ Increasing(p.list)
               /\ p.credit \in Nat
               /\ \A i \in 1 .. Len(p.list) : p.list[i][1] > 0
               /\ \A t \in Int : p.credit + CreditBy(p.list, t) <=
                      CreditBy(file, IF t < file[1][1] THEN file[1][1] ELSE t)
  <1> DEFINE A == Aggregated(file)
             I == Interpolated(A)
             p == TracePlan(file)
  <1>1. WellFormed(file) /\ file[1][1] < file[Len(file)][1]
    BY DEF InterceptorAssumption
  <1>2. /\ A \in Seq(Entries) /\ A # <<>> /\ Increasing(A)
        /\ A[1][1] = file[1][1] /\ A[Len(A)][1] = file[Len(file)][1]
        /\ \A t \in Int : CreditBy(A, t) = CreditBy(file, t)
    BY <1>1, AggregatedFacts
  <1> HIDE DEF A
  <1>3. /\ I \in Seq(Entries) /\ I # <<>> /\ Increasing(I)
        /\ I[1][1] = A[1][1] /\ I[Len(I)][1] = A[Len(A)][1]
        /\ \A t \in Int : CreditBy(I, t) <= CreditBy(A, t)
    BY <1>2, InterpolatedFacts
  <1>4. p.list = Tail(I) /\ p.credit = I[1][2]
    BY DEF TracePlan, A
  <1> HIDE DEF I, p
  <1>5. /\ Tail(I) \in Seq(Entries) /\ Len(Tail(I)) = Len(I) - 1
        /\ \A i \in 1 .. Len(I) - 1 : Tail(I)[i] = I[i + 1]
        /\ I = <<I[1]>> \o Tail(I)
        /\ I[1] \in Entries
    BY <1>3, TailFacts
  <1>6. Len(I) \in Nat /\ Len(I) > 0 /\ \A i \in 1 .. Len(I) : I[i][1] \in Nat /\ I[i][2] \in Nat
    <2>1. 0 \in Int
      OBVIOUS
    <2>2. Len(I) \in Nat /\ \A i \in 1 .. Len(I) : I[i][1] \in Nat /\ I[i][2] \in Nat
      BY <1>3, <2>1, CreditsNat
    <2>3. Len(I) # 0
      BY <1>3, EmptySeq
    <2> QED
      BY <2>2, <2>3
  <1>7. Tail(I) # <<>>
    <2>1. I[1][1] < I[Len(I)][1]
      BY <1>1, <1>2, <1>3
    <2>2. Len(I) # 1
      BY <1>6, <2>1
    <2>3. Len(Tail(I)) # 0
      BY <1>5, <1>6, <2>2
    <2>4. Len(<<>>) = 0
      OBVIOUS
    <2> QED
      BY <2>3, <2>4, Zenon
  <1>8. Increasing(Tail(I))
    BY <1>3, <1>5, <1>6 DEF Increasing
  <1>9. \A i \in 1 .. Len(Tail(I)) : Tail(I)[i][1] > 0
    <2>1. ASSUME NEW i \in 1 .. Len(I) - 1
          PROVE  I[i + 1][1] > 0
      <3>1. 1 \in 1 .. Len(I) /\ i + 1 \in 1 .. Len(I) /\ 1 < i + 1
        BY <1>6
      <3>2. I[1][1] < I[i + 1][1] /\ I[1][1] \in Nat /\ I[i + 1][1] \in Nat
        BY <1>3, <1>6, <3>1 DEF Increasing
      <3> QED
        BY <3>2
    <2> QED
      BY <1>5, <2>1
  <1>10. ASSUME NEW t \in Int
         PROVE  I[1][2] + CreditBy(Tail(I), t) <= CreditBy(file, IF t < file[1][1] THEN file[1][1] ELSE t)
    <2> DEFINE u == IF t < file[1][1] THEN file[1][1] ELSE t
    <2>1. u \in Int /\ t <= u /\ I[1][1] <= u /\ I[1][2] \in Nat
      <3>1. file[1][1] = I[1][1] /\ 1 \in 1 .. Len(I)
        BY <1>2, <1>3, <1>6
      <3>2. file[1][1] \in Nat /\ I[1][2] \in Nat
        BY <1>6, <3>1
      <3> QED
        BY <3>1, <3>2
    <2> HIDE DEF u
    <2>2. CreditBy(Tail(I), t) <= CreditBy(Tail(I), u)
      BY <1>5, <2>1, CreditGrows
    <2>3. CreditBy(I, u) = I[1][2] + CreditBy(Tail(I), u)
      <3>1. <<I[1]>> \in Seq(Entries)
        BY <1>5
      <3>2. CreditBy(I, u) = CreditBy(<<I[1]>>, u) + CreditBy(Tail(I), u)
        BY <1>5, <2>1, <3>1, CreditConcat
      <3>3. CreditBy(<<I[1]>>, u) = I[1][2]
        BY <1>5, <2>1, CreditOne
      <3> QED
        BY <3>2, <3>3
    <2>4. CreditBy(I, u) <= CreditBy(file, u)
      BY <1>2, <1>3, <2>1
    <2>5. /\ CreditBy(Tail(I), t) \in Nat /\ CreditBy(Tail(I), u) \in Nat
          /\ CreditBy(I, u) \in Nat /\ CreditBy(file, u) \in Nat
      <3>1. file \in Seq(Entries)
        BY <1>1 DEF WellFormed, Entries
      <3> QED
        BY <1>3, <1>5, <2>1, <3>1, CreditsNat
    <2>6. I[1][2] + CreditBy(Tail(I), t) <= CreditBy(file, u)
      BY <2>1, <2>2, <2>3, <2>4, <2>5
    <2> QED
      BY <2>6 DEF u
  <1> QED
    BY <1>4, <1>5, <1>6, <1>7, <1>8, <1>9, <1>10 DEF p

\* What a link may be started with.
RateLike(p) ==
    /\ p.kind \in {"unrestrained", "rate"}
    /\ p.kind = "rate" => p.rate \in Nat
    /\ p.credit = 0 /\ p.list = <<>>

ScheduleLike(p) ==
    /\ p.kind = "schedule" /\ p.file \in Schedules
    /\ p.credit = 0 /\ p.rate = p.file[1][2] /\ p.list = Tail(p.file)

TraceLike(p) ==
    /\ p.kind = "trace"
    /\ p.file \in Traces /\ p.list = TracePlan(p.file).list /\ p.credit = TracePlan(p.file).credit

LEMMA PlanKinds ==
    ASSUME InterceptorAssumption, plan \in Plans
    PROVE  \/ \A l \in Links : RateLike(plan[l])
           \/ \A l \in Links : ScheduleLike(plan[l])
           \/ \A l \in Links : TraceLike(plan[l])
  <1>1. CASE plan \in [Links -> {RatePlan(r) : r \in Rates}]
    <2>1. \A r \in Rates : RateLike(RatePlan(r))
      BY DEF InterceptorAssumption, RatePlan, RateLike
    <2> QED
      BY <1>1, <2>1
  <1>2. CASE plan \in [Links -> {SchedulePlan(file) : file \in Schedules}]
    <2>1. \A file \in Schedules : ScheduleLike(SchedulePlan(file))
      BY DEF SchedulePlan, ScheduleLike
    <2> QED
      BY <1>2, <2>1
  <1>3. CASE plan \in [Links -> {TracePlan(file) : file \in Traces}]
    <2>1. ASSUME NEW file \in Traces
          PROVE  TraceLike(TracePlan(file))
      <3>1. TracePlan(file).kind = "trace" /\ TracePlan(file).file = file
        BY DEF TracePlan
      <3> QED
        BY <3>1 DEF TraceLike
    <2> QED
      BY <1>3, <2>1
  <1> QED
    BY <1>1, <1>2, <1>3 DEF Plans

\* The credit of the lines of a file, as CreditBy gives it.
LEMMA FileCreditIs ==
    ASSUME NEW file, NEW t \in Int, WellFormed(file)
    PROVE  FileCredit(file, t) = CreditBy(file, IF t < file[1][1] THEN file[1][1] ELSE t)
  <1> DEFINE u == IF t < file[1][1] THEN file[1][1] ELSE t
             f == [i \in 1 .. Len(file) |->
                      IF file[i][1] <= t \/ file[i][1] = file[1][1] THEN file[i][2] ELSE 0]
             g == Credits(file, u)
  <1>1. /\ Len(file) \in Nat /\ Len(file) >= 2 /\ Sorted(file)
        /\ \A i \in 1 .. Len(file) : file[i][1] \in Nat /\ file[i][2] \in Nat
    <2>1. file \in Seq(Entries) /\ Len(file) >= 2 /\ 0 \in Int
      BY DEF WellFormed, Entries
    <2> QED
      BY <2>1, CreditsNat, FileSorted
  <1>2. \A i \in 1 .. Len(file) : file[1][1] <= file[i][1]
    <2>1. 1 \in 1 .. Len(file) /\ \A i \in 1 .. Len(file) : i = 1 \/ 1 < i
      BY <1>1
    <2>2. file[1][1] <= file[1][1]
      BY <1>1, <2>1
    <2> QED
      BY <1>1, <2>1, <2>2 DEF Sorted
  <1>3. \A i \in 1 .. Len(file) : f[i] = g[i]
    <2>1. ASSUME NEW i \in 1 .. Len(file)
          PROVE  f[i] = g[i]
      <3>1. file[i][1] \in Nat /\ file[1][1] \in Nat /\ file[1][1] <= file[i][1]
        BY <1>1, <1>2
      <3>2. (file[i][1] <= t \/ file[i][1] = file[1][1]) <=> file[i][1] <= u
        BY <3>1
      <3> QED
        BY <3>2 DEF Credits
    <2> QED
      BY <2>1
  <1>4. FileCredit(file, t) = Total(f, Len(file))
    BY DEF FileCredit
  <1>5. CreditBy(file, u) = Total(g, Len(file))
    BY DEF CreditBy
  <1> HIDE DEF f, g
  <1> QED
    BY <1>1, <1>3, <1>4, <1>5, TotalEqual

\* The list of a link, and what a trace gives at most.
LEMMA PlanFacts ==
    ASSUME InterceptorAssumption, plan \in Plans, NEW l \in Links
    PROVE  /\ plan[l].kind \in {"unrestrained", "rate", "schedule", "trace"}
           /\ plan[l].list \in Seq(Entries) /\ Sorted(plan[l].list)
           /\ plan[l].credit \in Nat
           /\ plan[l].kind # "trace" => plan[l].credit = 0
           /\ plan[l].kind = "rate" => plan[l].rate \in Nat
           /\ plan[l].kind = "schedule" => ScheduleLike(plan[l])
           /\ plan[l].kind = "trace" =>
                  /\ plan[l].list # <<>> /\ Increasing(plan[l].list)
                  /\ \A i \in 1 .. Len(plan[l].list) : plan[l].list[i][1] > 0
                  /\ \A t \in Int : plan[l].credit + Planned(plan[l], t) <= FileCredit(plan[l].file, t)
  <1>1. RateLike(plan[l]) \/ ScheduleLike(plan[l]) \/ TraceLike(plan[l])
    BY PlanKinds
  <1>2. CASE RateLike(plan[l])
    <2>1. <<>> \in Seq(Entries) /\ Sorted(<<>>)
      BY DEF Sorted
    <2> QED
      BY <1>2, <2>1 DEF RateLike
  <1>3. CASE ScheduleLike(plan[l])
    <2>1. WellFormed(plan[l].file) /\ plan[l].file # <<>>
      BY <1>3 DEF ScheduleLike, InterceptorAssumption, WellFormed
    <2> DEFINE file == plan[l].file
    <2>2. file \in Seq(Entries) /\ Sorted(file) /\ Len(file) \in Nat
      BY <2>1, FileSorted, LenProperties DEF WellFormed, Entries
    <2> HIDE DEF file
    <2>3. /\ Tail(file) \in Seq(Entries) /\ Len(Tail(file)) = Len(file) - 1
          /\ \A i \in 1 .. Len(file) - 1 : Tail(file)[i] = file[i + 1]
      BY <2>1, <2>2, TailFacts DEF file
    <2>4. Sorted(Tail(file))
      BY <2>2, <2>3 DEF Sorted
    <2> QED
      BY <1>3, <2>3, <2>4 DEF ScheduleLike, file
  <1>4. CASE TraceLike(plan[l])
    <2> DEFINE file == plan[l].file
    <2>1. /\ plan[l].kind = "trace" /\ file \in Traces
          /\ plan[l].list = TracePlan(file).list /\ plan[l].credit = TracePlan(file).credit
      BY <1>4 DEF TraceLike
    <2>2. WellFormed(file)
      BY <2>1 DEF InterceptorAssumption
    <2> HIDE DEF file
    <2>3. LET p == TracePlan(file)
          IN  /\ p.list \in Seq(Entries) /\ p.list # <<>> /\ Increasing(p.list)
              /\ p.credit \in Nat
              /\ \A i \in 1 .. Len(p.list) : p.list[i][1] > 0
              /\ \A t \in Int : p.credit + CreditBy(p.list, t) <=
                      CreditBy(file, IF t < file[1][1] THEN file[1][1] ELSE t)
      BY <2>1, TraceFacts
    <2>4. /\ plan[l].list \in Seq(Entries) /\ plan[l].list # <<>> /\ Increasing(plan[l].list)
          /\ plan[l].credit \in Nat
          /\ \A i \in 1 .. Len(plan[l].list) : plan[l].list[i][1] > 0
          /\ \A t \in Int : plan[l].credit + CreditBy(plan[l].list, t) <=
                      CreditBy(file, IF t < file[1][1] THEN file[1][1] ELSE t)
      BY <2>1, <2>3
    <2>5. Sorted(plan[l].list)
      BY <2>4, IncreasingSorted
    <2>6. ASSUME NEW t \in Int
          PROVE  plan[l].credit + Planned(plan[l], t) <= FileCredit(plan[l].file, t)
      <3>1. Planned(plan[l], t) = CreditBy(plan[l].list, t)
        BY <2>1, <2>4, <2>5, CreditOfDue DEF Planned
      <3>2. FileCredit(file, t) = CreditBy(file, IF t < file[1][1] THEN file[1][1] ELSE t)
        BY <2>2, FileCreditIs
      <3> QED
        BY <2>4, <3>1, <3>2 DEF file
    <2> QED
      BY <2>1, <2>4, <2>5, <2>6
  <1> QED
    BY <1>1, <1>2, <1>3, <1>4

-----------------------------------------------------------------------------
(* The inductive invariant.                                                *)

FramesOf(s) == [i \in 1 .. Len(s) |-> s[i].frame]

SentFrame == [frame : Nat, content : Nat]

\* The queue of a link, its occupancies and its tokens.
QueueInv(l) ==
    /\ pkt_queue_occupancy[l] = Len(pkt_queue[l])
    /\ byte_queue_occupancy[l] = Bytes(pkt_queue[l]) /\ byte_queue_occupancy[l] <= BufferSize
    /\ Len(accepted[l]) <= frames
    /\ accepted[l] = FramesOf(forwarded[l]) \o FramesOf(pkt_queue[l])
    /\ ~Shaped(l) => pkt_queue[l] = <<>> /\ token_count[l] = 0

\* How far a link has got with its schedule or trace.
PlanInv(l) ==
    /\ last_token_update[l] <= now
    /\ used[l] <= DueBy(plan[l].list, last_token_update[l])
    /\ plan[l].kind = "trace" => used[l] = DueBy(plan[l].list, last_token_update[l])
    /\ plan[l].kind = "rate" => link_rate[l] = plan[l].rate
    /\ plan[l].kind = "schedule" => link_rate[l] = plan[l].file[used[l] + 1][2]

Fields ==
    /\ plan \in Plans /\ running \in BOOLEAN /\ now \in 0 .. MaxTime
    /\ frames \in 0 .. MaxFrames /\ ether_frame = frames
    /\ pkt_queue \in [Links -> Seq(Packet)]
    /\ accepted \in [Links -> Seq(Nat)] /\ forwarded \in [Links -> Seq(SentFrame)]
    /\ used \in [Links -> Nat] /\ token_count \in [Links -> Nat]
    /\ last_token_update \in [Links -> Nat] /\ total_bytes \in [Links -> Nat]
    /\ byte_queue_occupancy \in [Links -> Nat] /\ pkt_queue_occupancy \in [Links -> Nat]

\* Both links are brought up to date by the same ticks, and a signal is missed
\* only in a unit of time that has passed.
ClocksInv ==
    /\ running => last_token_update["downlink"] = last_token_update["uplink"]
    /\ missed \in Nat /\ missed <= now
    /\ running => missed <= last_token_update["uplink"]

IInv ==
    /\ Fields
    /\ ClocksInv
    /\ \A l \in Links : QueueInv(l) /\ PlanInv(l)

LEMMA InitIInv ==
    ASSUME InterceptorAssumption, Init
    PROVE  IInv
  <1>1. plan \in Plans /\ MaxTime \in Nat /\ MaxFrames \in Nat /\ BufferSize \in Nat
    BY DEF Init, InterceptorAssumption
  <1>2. ASSUME NEW l \in Links
        PROVE  /\ plan[l].credit \in Nat
               /\ QueueInv(l) /\ PlanInv(l)
    <2>1. /\ plan[l].list \in Seq(Entries) /\ Sorted(plan[l].list) /\ plan[l].credit \in Nat
          /\ plan[l].kind # "trace" => plan[l].credit = 0
          /\ plan[l].kind = "schedule" => ScheduleLike(plan[l])
          /\ plan[l].kind = "trace" => \A i \in 1 .. Len(plan[l].list) : plan[l].list[i][1] > 0
      BY <1>1, PlanFacts
    <2>2. /\ pkt_queue[l] = <<>> /\ byte_queue_occupancy[l] = 0 /\ pkt_queue_occupancy[l] = 0
          /\ accepted[l] = <<>> /\ forwarded[l] = <<>> /\ token_count[l] = plan[l].credit
          /\ frames = 0
      BY DEF Init
    <2>3. Bytes(<<>>) = 0
      BY TotalUnfolds DEF Bytes
    <2>4. FramesOf(<<>>) = <<>>
      BY DEF FramesOf
    <2>5. QueueInv(l)
      BY <1>1, <2>1, <2>2, <2>3, <2>4 DEF QueueInv, Shaped
    <2>6. /\ last_token_update[l] = 0 /\ now = 0 /\ used[l] = 0 /\ link_rate[l] = plan[l].rate
      BY DEF Init
    <2>7. /\ DueBy(plan[l].list, 0) \in 0 .. Len(plan[l].list)
          /\ \A i \in 1 .. Len(plan[l].list) :
                 plan[l].list[i][1] <= 0 <=> i <= DueBy(plan[l].list, 0)
      <3>1. 0 \in Int
        OBVIOUS
      <3> QED
        BY <2>1, <3>1, DueFacts
    <2>8. plan[l].kind = "trace" => DueBy(plan[l].list, 0) = 0
      <3>1. SUFFICES ASSUME plan[l].kind = "trace", DueBy(plan[l].list, 0) # 0
                     PROVE  FALSE
        OBVIOUS
      <3>2. 1 \in 1 .. Len(plan[l].list) /\ 1 <= DueBy(plan[l].list, 0)
        <4>1. Len(plan[l].list) \in Nat
          BY <2>1, LenProperties
        <4> QED
          BY <2>7, <3>1, <4>1
      <3>3. plan[l].list[1][1] <= 0 /\ plan[l].list[1][1] > 0
        BY <2>1, <2>7, <3>1, <3>2
      <3>4. plan[l].list[1][1] \in Nat
        <4>1. 0 \in Int
          OBVIOUS
        <4> QED
          BY <2>1, <3>2, <4>1, CreditsNat
      <3> QED
        BY <3>3, <3>4
    <2>9. PlanInv(l)
      BY <2>1, <2>6, <2>7, <2>8 DEF PlanInv, ScheduleLike
    <2> QED
      BY <2>1, <2>5, <2>9
  <1>3. Fields
    <2>1. <<>> \in Seq(Packet) /\ <<>> \in Seq(Nat) /\ <<>> \in Seq(SentFrame)
      OBVIOUS
    <2> QED
      BY <1>1, <1>2, <2>1 DEF Init, Fields
  <1>4. ClocksInv
    BY <1>1 DEF Init, ClocksInv, Links
  <1> QED
    BY <1>2, <1>3, <1>4 DEF IInv

-----------------------------------------------------------------------------
(* What the tick of a link does.                                           *)

\* A shaped link never loses tokens by being brought up to date.
LEMMA TokensFacts ==
    ASSUME InterceptorAssumption, IInv, NEW l \in Links, Shaped(l)
    PROVE  /\ Tokens(l) \in Nat
           /\ plan[l].kind = "schedule" =>
                  /\ used[l] < DueBy(plan[l].list, now) => plan[l].list[used[l] + 1] = plan[l].file[used[l] + 2]
                  /\ RateNow(l) = plan[l].file[UsedAfter(l) + 1][2] /\ RateNow(l) \in Nat
                  /\ UsedAfter(l) + 1 \in 1 .. Len(plan[l].file)
           /\ UsedAfter(l) \in Nat /\ UsedAfter(l) <= DueBy(plan[l].list, now)
           /\ plan[l].kind = "rate" => RateNow(l) = plan[l].rate /\ plan[l].rate \in Nat
  <1> DEFINE list == plan[l].list
             due == DueBy(list, now)
             old == last_token_update[l]
  <1>1. /\ plan \in Plans /\ now \in Nat /\ used[l] \in Nat /\ token_count[l] \in Nat
        /\ old \in Nat /\ old <= now
    BY DEF IInv, Fields, PlanInv, InterceptorAssumption
  <1>2. /\ plan[l].kind \in {"rate", "schedule", "trace"}
        /\ list \in Seq(Entries) /\ Sorted(list)
        /\ plan[l].kind = "rate" => plan[l].rate \in Nat
        /\ plan[l].kind = "schedule" => ScheduleLike(plan[l])
    BY <1>1, PlanFacts DEF Shaped
  <1>3. /\ Len(list) \in Nat
        /\ due \in 0 .. Len(list)
        /\ \A i \in 1 .. Len(list) : list[i][1] <= now <=> i <= due
        /\ DueBy(list, old) \in 0 .. Len(list)
        /\ \A i \in 1 .. Len(list) : list[i][1] <= old <=> i <= DueBy(list, old)
    <2>1. Len(list) \in Nat
      BY <1>2, LenProperties
    <2>2. now \in Int /\ old \in Int
      BY <1>1
    <2>3. due \in 0 .. Len(list) /\ \A i \in 1 .. Len(list) : list[i][1] <= now <=> i <= due
      BY <1>2, <2>2, DueFacts
    <2>4. /\ DueBy(list, old) \in 0 .. Len(list)
          /\ \A i \in 1 .. Len(list) : list[i][1] <= old <=> i <= DueBy(list, old)
      BY <1>2, <2>2, DueFacts
    <2> QED
      BY <2>1, <2>3, <2>4
  <1>4. DueBy(list, old) <= due
    <2> DEFINE j == DueBy(list, old)
    <2>1. CASE j = 0
      BY <1>3, <2>1
    <2>2. CASE j # 0
      <3>1. j \in 1 .. Len(list)
        BY <1>3, <2>2
      <3>2. list[j][1] \in Nat
        <4>1. 0 \in Int
          OBVIOUS
        <4> QED
          BY <1>2, <3>1, <4>1, CreditsNat
      <3>3. list[j][1] <= old
        BY <1>3, <3>1
      <3>4. list[j][1] <= now
        BY <1>1, <3>2, <3>3
      <3> QED
        BY <1>3, <3>1, <3>4
    <2> QED
      BY <2>1, <2>2
  <1>5. used[l] <= DueBy(list, old)
    BY DEF IInv, PlanInv
  <1>6. used[l] <= due
    BY <1>1, <1>3, <1>4, <1>5
  <1>7. UsedAfter(l) \in Nat /\ UsedAfter(l) <= due
    BY <1>1, <1>2, <1>3, <1>6 DEF UsedAfter, Switches
  <1>8. ASSUME plan[l].kind = "schedule"
        PROVE  /\ used[l] < due => list[used[l] + 1] = plan[l].file[used[l] + 2]
               /\ RateNow(l) = plan[l].file[UsedAfter(l) + 1][2] /\ RateNow(l) \in Nat
               /\ UsedAfter(l) + 1 \in 1 .. Len(plan[l].file)
    <2> DEFINE file == plan[l].file
    <2>1. list = Tail(file) /\ WellFormed(file)
      BY <1>2, <1>8 DEF ScheduleLike, InterceptorAssumption
    <2>2. file \in Seq(Entries) /\ file # <<>> /\ Len(file) \in Nat
      <3>1. file \in Seq(Entries) /\ Len(file) >= 2
        BY <2>1 DEF WellFormed, Entries
      <3>2. Len(file) \in Nat
        BY <3>1, LenProperties
      <3> QED
        BY <3>1, <3>2
    <2>3. /\ Len(list) = Len(file) - 1
          /\ \A i \in 1 .. Len(file) - 1 : list[i] = file[i + 1]
      BY <2>1, <2>2, TailFacts
    <2>4. used[l] < due => list[used[l] + 1] = file[used[l] + 2]
      <3>1. used[l] < due => used[l] + 1 \in 1 .. Len(file) - 1
        BY <1>1, <1>3, <2>2, <2>3
      <3>2. (used[l] + 1) + 1 = used[l] + 2
        BY <1>1
      <3> QED
        BY <2>3, <3>1, <3>2
    <2>5. UsedAfter(l) + 1 \in 1 .. Len(file)
      BY <1>3, <1>7, <2>2, <2>3
    <2>6. link_rate[l] = file[used[l] + 1][2]
      BY <1>8 DEF IInv, PlanInv
    <2>7. RateNow(l) = file[UsedAfter(l) + 1][2]
      <3>1. CASE used[l] < due
        <4>1. RateNow(l) = list[used[l] + 1][2] /\ UsedAfter(l) = used[l] + 1
          BY <1>8, <3>1 DEF RateNow, UsedAfter, Switches
        <4>2. used[l] + 1 + 1 = used[l] + 2
          BY <1>1
        <4> QED
          BY <2>4, <3>1, <4>1, <4>2
      <3>2. CASE ~(used[l] < due)
        <4>1. RateNow(l) = link_rate[l] /\ UsedAfter(l) = used[l]
          BY <1>8, <3>2 DEF RateNow, UsedAfter, Switches
        <4> QED
          BY <2>6, <4>1
      <3> QED
        BY <3>1, <3>2
    <2>8. file[UsedAfter(l) + 1][2] \in Nat
      <3>1. 0 \in Int
        OBVIOUS
      <3> QED
        BY <2>2, <2>5, <3>1, CreditsNat
    <2> QED
      BY <2>4, <2>5, <2>7, <2>8
  <1>9. plan[l].kind = "rate" => RateNow(l) = plan[l].rate /\ plan[l].rate \in Nat
    BY <1>2 DEF RateNow, Switches, IInv, PlanInv
  <1>10. Tokens(l) \in Nat
    <2>1. CASE plan[l].kind = "trace"
      <3>1. used[l] \in 0 .. due /\ due \in 0 .. Len(list) /\ used[l] \in 0 .. Len(list)
        BY <1>1, <1>3, <1>6
      <3>2. now \in Int
        BY <1>1
      <3>3. /\ Credit(list, due) \in Nat /\ Credit(list, used[l]) \in Nat
            /\ Credit(list, used[l]) <= Credit(list, due)
        BY <1>2, <3>1, <3>2, CreditOfDue
      <3>4. Tokens(l) = token_count[l] + Credit(list, due) - Credit(list, used[l])
        BY <2>1 DEF Tokens, TraceTokens
      <3> QED
        BY <1>1, <3>3, <3>4
    <2>2. CASE plan[l].kind # "trace"
      <3>1. RateNow(l) \in Nat
        BY <1>2, <1>8, <1>9, <2>2
      <3>2. Tokens(l) = token_count[l] + (now - old) * RateNow(l)
        BY <2>2 DEF Tokens, RateTokens
      <3>3. now - old \in Nat
        BY <1>1
      <3>4. (now - old) * RateNow(l) \in Nat
        BY <3>1, <3>3
      <3> QED
        BY <1>1, <3>2, <3>4
    <2> QED
      BY <2>1, <2>2
  <1> QED
    BY <1>7, <1>8, <1>9, <1>10

\* What a link sends and keeps: as many packets from the head of the queue as
\* the tokens pay for, and no fewer.
LEMMA DrainFacts ==
    ASSUME InterceptorAssumption, IInv, NEW l \in Links
    PROVE  LET q == pkt_queue[l]
               d == Drained(l)
           IN  /\ q \in Seq(Packet) /\ d \in 0 .. Len(q)
               /\ Sent(l) \in Seq(Packet) /\ Len(Sent(l)) = d
               /\ Kept(l) \in Seq(Packet) /\ Len(Kept(l)) = Len(q) - d
               /\ \A i \in 1 .. d : Sent(l)[i] = q[i]
               /\ \A i \in 1 .. Len(q) - d : Kept(l)[i] = q[d + i]
               /\ Bytes(q) \in Nat /\ Bytes(Sent(l)) \in Nat /\ Bytes(Sent(l)) = Total(Sizes(q), d)
               /\ Bytes(Kept(l)) = Bytes(q) - Bytes(Sent(l)) /\ Bytes(Kept(l)) \in Nat
               /\ Shaped(l) => Bytes(Sent(l)) <= Tokens(l)
               /\ Shaped(l) /\ d < Len(q) => Bytes(Sent(l)) + q[d + 1].size > Tokens(l)
               /\ ~Shaped(l) => d = 0 /\ q = <<>>
  <1> DEFINE q == pkt_queue[l]
             d == Drained(l)
             n == Len(q)
             S == Drainable(q, Tokens(l))
  <1>1. q \in Seq(Packet) /\ n \in Nat /\ \A i \in 1 .. n : q[i] \in Packet
    <2>1. q \in Seq(Packet)
      BY DEF IInv, Fields
    <2> QED
      BY <2>1, ElementOfSeq, LenProperties
  <1>2. \A k \in 0 .. n : /\ Bytes(q) \in Nat /\ Total(Sizes(q), k) \in Nat
                         /\ Bytes(SubSeq(q, 1, k)) = Total(Sizes(q), k)
                         /\ Bytes(SubSeq(q, k + 1, n)) = Bytes(q) - Total(Sizes(q), k)
    BY <1>1, BytesFacts
  <1>3. /\ d \in 0 .. n
        /\ Shaped(l) => d \in S /\ \A k \in S : k <= d
        /\ ~Shaped(l) => d = 0 /\ q = <<>>
    <2>1. CASE Shaped(l)
      <3>1. Tokens(l) \in Nat
        BY <2>1, TokensFacts
      <3>2. S \subseteq 0 .. n
        BY DEF Drainable
      <3>3. 0 \in S
        <4>1. Total(Sizes(q), 0) = 0 /\ 0 \in 0 .. n
          BY <1>1, TotalUnfolds
        <4>2. Bytes(SubSeq(q, 1, 0)) = 0
          BY <1>2, <4>1
        <4> QED
          BY <3>1, <4>1, <4>2 DEF Drainable
      <3> HIDE DEF S
      <3>4. Max(S) \in S /\ \A k \in S : k <= Max(S)
        BY <1>1, <3>2, <3>3, MaxExists
      <3>5. d = Max(S)
        BY <2>1 DEF Drained, S
      <3> QED
        BY <2>1, <3>2, <3>4, <3>5
    <2>2. CASE ~Shaped(l)
      BY <1>1, <2>2 DEF Drained, IInv, QueueInv
    <2> QED
      BY <2>1, <2>2
  <1>4. /\ Sent(l) = SubSeq(q, 1, d) /\ Kept(l) = SubSeq(q, d + 1, n)
    BY DEF Sent, Kept
  <1>5. ASSUME Shaped(l)
        PROVE  /\ Bytes(Sent(l)) <= Tokens(l)
               /\ d < n => Bytes(Sent(l)) + q[d + 1].size > Tokens(l)
    <2>1. Bytes(Sent(l)) <= Tokens(l)
      BY <1>3, <1>4, <1>5 DEF Drainable
    <2>2. ASSUME d < n
          PROVE  Bytes(Sent(l)) + q[d + 1].size > Tokens(l)
      <3>1. d \in Nat /\ d + 1 \in 0 .. n /\ ~(d + 1 <= d)
        BY <1>1, <1>3, <2>2
      <3>2. d + 1 \notin S
        BY <1>3, <1>5, <3>1
      <3>3. ~(Bytes(SubSeq(q, 1, d + 1)) <= Tokens(l))
        BY <3>1, <3>2 DEF Drainable
      <3>4. Bytes(SubSeq(q, 1, d + 1)) = Total(Sizes(q), d + 1)
        BY <1>2, <3>1
      <3>5. Total(Sizes(q), d + 1) = Total(Sizes(q), d) + Sizes(q)[d + 1]
        BY <3>1, TotalUnfolds
      <3>6. Sizes(q)[d + 1] = q[d + 1].size /\ q[d + 1].size \in Nat
        <4>1. d + 1 \in 1 .. n /\ q[d + 1] \in Packet
          BY <1>1, <3>1
        <4> HIDE DEF d
        <4> QED
          BY <4>1 DEF Sizes, Packet
      <3>7. Bytes(Sent(l)) = Total(Sizes(q), d) /\ Total(Sizes(q), d) \in Nat
        BY <1>2, <1>3, <1>4
      <3>8. Tokens(l) \in Nat
        BY <1>5, TokensFacts
      <3> HIDE DEF q, d
      <3> QED
        BY <3>3, <3>4, <3>5, <3>6, <3>7, <3>8
    <2> QED
      BY <2>1, <2>2
  <1>6. /\ Sent(l) \in Seq(Packet) /\ Len(Sent(l)) = d
        /\ Kept(l) \in Seq(Packet) /\ Len(Kept(l)) = n - d
        /\ \A i \in 1 .. d : Sent(l)[i] = q[i]
        /\ \A i \in 1 .. n - d : Kept(l)[i] = q[d + i]
    <2>1. d \in Nat /\ d <= n
      BY <1>1, <1>3
    <2> HIDE DEF q, d
    <2> QED
      BY <1>1, <1>4, <2>1
  <1>7. /\ Bytes(q) \in Nat /\ Bytes(Sent(l)) = Total(Sizes(q), d) /\ Total(Sizes(q), d) \in Nat
        /\ Bytes(Kept(l)) = Bytes(q) - Total(Sizes(q), d)
    BY <1>2, <1>3, <1>4
  <1>8. Total(Sizes(q), d) <= Bytes(q)
    <2>1. n \in 0 .. n /\ Bytes(q) = Total(Sizes(q), n)
      BY <1>1 DEF Bytes, Sizes
    <2>2. Total(Sizes(q), d) <= Total(Sizes(q), n)
      BY <1>1, <1>3, <2>1, BytesFacts
    <2> QED
      BY <2>1, <2>2
  <1>9. Bytes(Kept(l)) \in Nat
    BY <1>7, <1>8
  <1> QED
    BY <1>1, <1>3, <1>5, <1>6, <1>7, <1>9

\* A tick of the link l, and a tick that does not reach it.
Ticks(l) ==
    /\ pkt_queue'[l] = Kept(l)
    /\ byte_queue_occupancy'[l] = byte_queue_occupancy[l] - Bytes(Sent(l))
    /\ pkt_queue_occupancy'[l] = pkt_queue_occupancy[l] - Drained(l)
    /\ total_bytes'[l] = total_bytes[l] + Bytes(Sent(l))
    /\ forwarded'[l] = forwarded[l] \o Transmit(Sent(l))
    /\ token_count'[l] = IF Shaped(l) THEN TokensLeft(l) ELSE 0
    /\ link_rate'[l] = RateNow(l)
    /\ used'[l] = UsedAfter(l)
    /\ last_token_update'[l] = now

Rests(l) ==
    /\ pkt_queue'[l] = pkt_queue[l] /\ byte_queue_occupancy'[l] = byte_queue_occupancy[l]
    /\ pkt_queue_occupancy'[l] = pkt_queue_occupancy[l] /\ total_bytes'[l] = total_bytes[l]
    /\ forwarded'[l] = forwarded[l] /\ token_count'[l] = token_count[l]
    /\ link_rate'[l] = link_rate[l] /\ used'[l] = used[l]
    /\ last_token_update'[l] = last_token_update[l]

\* A trace that is used up keeps its link from ticking.
LEMMA TickOfLink ==
    ASSUME TimerTick, NEW l \in Links
    PROVE  \/ Ticks(l) /\ l \in Ticking /\ ~Exhausted(l)
           \/ Rests(l) /\ l \notin Ticking
  <1>1. CASE l \in Ticking
    <2>1. ~Exhausted(l)
      <3>1. l = "uplink" \/ l = "downlink"
        BY DEF Links
      <3>2. CASE l = "uplink"
        BY <1>1, <3>2 DEF Ticking
      <3>3. CASE l = "downlink"
        BY <1>1, <3>3 DEF Ticking
      <3> QED
        BY <3>1, <3>2, <3>3
    <2>2. /\ pkt_queue'[l] = Kept(l) /\ link_rate'[l] = RateNow(l) /\ used'[l] = UsedAfter(l)
      BY <1>1 DEF TimerTick, AfterTick
    <2>3. /\ byte_queue_occupancy'[l] = byte_queue_occupancy[l] - Bytes(Sent(l))
          /\ pkt_queue_occupancy'[l] = pkt_queue_occupancy[l] - Drained(l)
          /\ total_bytes'[l] = total_bytes[l] + Bytes(Sent(l))
      BY <1>1 DEF TimerTick, AfterTick
    <2>4. /\ forwarded'[l] = forwarded[l] \o Transmit(Sent(l))
          /\ token_count'[l] = IF Shaped(l) THEN TokensLeft(l) ELSE 0
          /\ last_token_update'[l] = now
      BY <1>1 DEF TimerTick, AfterTick
    <2> QED
      BY <1>1, <2>1, <2>2, <2>3, <2>4 DEF Ticks
  <1>2. CASE l \notin Ticking
    <2>1. Rests(l)
      BY <1>2 DEF TimerTick, AfterTick, Rests
    <2> QED
      BY <1>2, <2>1
  <1> QED
    BY <1>1, <1>2

\* The tokens that are left are never fewer than none; while packets are left
\* they do not pay for the first one.
LEMMA LeftFacts ==
    ASSUME InterceptorAssumption, IInv, NEW l \in Links, Shaped(l)
    PROVE  /\ TokensLeft(l) \in Nat /\ TokensLeft(l) + Bytes(Sent(l)) <= Tokens(l)
           /\ Kept(l) # <<>> => /\ TokensLeft(l) = Tokens(l) - Bytes(Sent(l))
                                /\ TokensLeft(l) < Kept(l)[1].size
  <1>1. Tokens(l) \in Nat
    BY TokensFacts
  <1>2. /\ pkt_queue[l] \in Seq(Packet) /\ Drained(l) \in 0 .. Len(pkt_queue[l])
        /\ Kept(l) \in Seq(Packet) /\ Len(Kept(l)) = Len(pkt_queue[l]) - Drained(l)
        /\ \A i \in 1 .. Len(pkt_queue[l]) - Drained(l) : Kept(l)[i] = pkt_queue[l][Drained(l) + i]
        /\ Bytes(Sent(l)) \in Nat /\ Bytes(Sent(l)) <= Tokens(l)
        /\ Drained(l) < Len(pkt_queue[l]) =>
               Bytes(Sent(l)) + pkt_queue[l][Drained(l) + 1].size > Tokens(l)
    BY DrainFacts
  <1>3. Len(pkt_queue[l]) \in Nat
    BY <1>2, LenProperties
  <1>4. TokensLeft(l) \in Nat /\ TokensLeft(l) + Bytes(Sent(l)) <= Tokens(l)
    BY <1>1, <1>2 DEF TokensLeft
  <1>5. ASSUME Kept(l) # <<>>
        PROVE  /\ TokensLeft(l) = Tokens(l) - Bytes(Sent(l))
               /\ TokensLeft(l) < Kept(l)[1].size
    <2>1. Len(Kept(l)) # 0
      BY <1>2, <1>5, EmptySeq
    <2>2. Drained(l) < Len(pkt_queue[l]) /\ 1 \in 1 .. Len(pkt_queue[l]) - Drained(l)
      BY <1>2, <1>3, <2>1
    <2>3. Kept(l)[1] = pkt_queue[l][Drained(l) + 1] /\ Kept(l)[1] \in Packet
      BY <1>2, <2>2, ElementOfSeq
    <2>4. Kept(l)[1].size \in Nat
      BY <2>3 DEF Packet
    <2>5. TokensLeft(l) = Tokens(l) - Bytes(Sent(l))
      BY <1>5 DEF TokensLeft
    <2>6. Bytes(Sent(l)) + Kept(l)[1].size > Tokens(l)
      BY <1>2, <2>2, <2>3
    <2> QED
      BY <1>1, <1>2, <2>4, <2>5, <2>6
  <1> QED
    BY <1>4, <1>5

-----------------------------------------------------------------------------
(* Every step keeps the inductive invariant.                               *)

LEMMA FramesFacts ==
    ASSUME NEW U, \A u \in U : u.frame \in Nat, NEW s \in Seq(U)
    PROVE  /\ FramesOf(s) \in Seq(Nat) /\ Len(FramesOf(s)) = Len(s)
           /\ \A t \in Seq(U) : FramesOf(s \o t) = FramesOf(s) \o FramesOf(t)
  <1>1. \A t \in Seq(U) : /\ Len(t) \in Nat /\ \A i \in 1 .. Len(t) : t[i] \in U
                          /\ FramesOf(t) \in Seq(Nat) /\ Len(FramesOf(t)) = Len(t)
                          /\ \A i \in 1 .. Len(t) : FramesOf(t)[i] = t[i].frame
    <2>1. ASSUME NEW t \in Seq(U)
          PROVE  /\ Len(t) \in Nat /\ \A i \in 1 .. Len(t) : t[i] \in U
                 /\ FramesOf(t) \in Seq(Nat) /\ Len(FramesOf(t)) = Len(t)
                 /\ \A i \in 1 .. Len(t) : FramesOf(t)[i] = t[i].frame
      <3>1. Len(t) \in Nat /\ \A i \in 1 .. Len(t) : t[i] \in U
        BY ElementOfSeq, LenProperties
      <3>2. FramesOf(t) \in [1 .. Len(t) -> Nat]
        BY <3>1 DEF FramesOf
      <3>3. FramesOf(t) \in Seq(Nat)
        BY <3>1, <3>2, SeqDef
      <3> QED
        BY <3>1, <3>2, <3>3, LenProperties DEF FramesOf
    <2> QED
      BY <2>1
  <1>2. ASSUME NEW t \in Seq(U)
        PROVE  FramesOf(s \o t) = FramesOf(s) \o FramesOf(t)
    <2> DEFINE a == FramesOf(s \o t)
               b == FramesOf(s) \o FramesOf(t)
    <2>1. /\ s \o t \in Seq(U) /\ Len(s \o t) = Len(s) + Len(t)
          /\ \A i \in 1 .. Len(s) + Len(t) : (s \o t)[i] = IF i <= Len(s) THEN s[i] ELSE t[i - Len(s)]
      BY ConcatProperties
    <2>2. /\ b \in Seq(Nat) /\ Len(b) = Len(s) + Len(t)
          /\ \A i \in 1 .. Len(s) + Len(t) :
                 b[i] = IF i <= Len(s) THEN FramesOf(s)[i] ELSE FramesOf(t)[i - Len(s)]
      <3> DEFINE f == FramesOf(s)  g == FramesOf(t)
      <3>1. f \in Seq(Nat) /\ g \in Seq(Nat) /\ Len(f) = Len(s) /\ Len(g) = Len(t)
        BY <1>1
      <3> HIDE DEF f, g
      <3>2. /\ f \o g \in Seq(Nat) /\ Len(f \o g) = Len(f) + Len(g)
            /\ \A i \in 1 .. Len(f) + Len(g) :
                   (f \o g)[i] = IF i <= Len(f) THEN f[i] ELSE g[i - Len(f)]
        BY <3>1, ConcatProperties
      <3> QED
        BY <3>1, <3>2 DEF f, g
    <2>3. /\ a \in Seq(Nat) /\ Len(a) = Len(s) + Len(t)
          /\ \A i \in 1 .. Len(s) + Len(t) : a[i] = (s \o t)[i].frame
      BY <1>1, <2>1
    <2> HIDE DEF a, b
    <2>4. ASSUME NEW i \in 1 .. Len(s) + Len(t)
          PROVE  a[i] = b[i]
      <3>1. CASE i <= Len(s)
        <4>1. i \in 1 .. Len(s)
          BY <1>1, <3>1
        <4> QED
          BY <1>1, <2>1, <2>2, <2>3, <3>1, <4>1
      <3>2. CASE ~(i <= Len(s))
        <4>1. i - Len(s) \in 1 .. Len(t)
          BY <1>1, <3>2
        <4> QED
          BY <1>1, <2>1, <2>2, <2>3, <3>2, <4>1
      <3> QED
        BY <3>1, <3>2
    <2>5. a = b
      BY <2>2, <2>3, <2>4, SeqEqual
    <2> QED
      BY <2>5 DEF a, b
  <1> QED
    BY <1>1, <1>2

LEMMA Regroup ==
    ASSUME NEW a \in Seq(Nat), NEW b \in Seq(Nat), NEW c \in Seq(Nat)
    PROVE  (a \o b) \o c = a \o (b \o c)
  OBVIOUS

LEMMA QueuedFrames ==
    ASSUME IInv, NEW l \in Links
    PROVE  /\ pkt_queue[l] \in Seq(Packet) /\ accepted[l] \in Seq(Nat)
           /\ forwarded[l] \in Seq(SentFrame)
           /\ FramesOf(forwarded[l]) \in Seq(Nat) /\ FramesOf(pkt_queue[l]) \in Seq(Nat)
           /\ Len(FramesOf(forwarded[l])) = Len(forwarded[l])
           /\ Len(FramesOf(pkt_queue[l])) = Len(pkt_queue[l])
           /\ Len(forwarded[l]) \in Nat /\ Len(pkt_queue[l]) \in Nat
           /\ Len(accepted[l]) = Len(forwarded[l]) + Len(pkt_queue[l])
  <1>1. /\ pkt_queue[l] \in Seq(Packet) /\ accepted[l] \in Seq(Nat)
        /\ forwarded[l] \in Seq(SentFrame)
    BY DEF IInv, Fields
  <1>2. (\A u \in Packet : u.frame \in Nat) /\ (\A u \in SentFrame : u.frame \in Nat)
    BY DEF Packet, SentFrame
  <1>3. FramesOf(pkt_queue[l]) \in Seq(Nat) /\ Len(FramesOf(pkt_queue[l])) = Len(pkt_queue[l])
    BY <1>1, <1>2, FramesFacts
  <1>4. FramesOf(forwarded[l]) \in Seq(Nat) /\ Len(FramesOf(forwarded[l])) = Len(forwarded[l])
    BY <1>1, <1>2, FramesFacts
  <1>5. accepted[l] = FramesOf(forwarded[l]) \o FramesOf(pkt_queue[l])
    BY DEF IInv, QueueInv
  <1>6. Len(accepted[l]) = Len(FramesOf(forwarded[l])) + Len(FramesOf(pkt_queue[l]))
    BY <1>3, <1>4, <1>5, ConcatProperties
  <1> QED
    BY <1>1, <1>3, <1>4, <1>6, LenProperties

LEMMA DueGrows ==
    ASSUME NEW list \in Seq(Entries), Sorted(list), NEW t \in Int, NEW u \in Int, t <= u
    PROVE  DueBy(list, t) <= DueBy(list, u)
  <1> DEFINE n == Len(list)
             d == DueBy(list, t)
             e == DueBy(list, u)
  <1>1. n \in Nat /\ d \in 0 .. n /\ \A i \in 1 .. n : list[i][1] <= t <=> i <= d
    BY DueFacts, LenProperties
  <1>2. e \in 0 .. n /\ \A i \in 1 .. n : list[i][1] <= u <=> i <= e
    BY DueFacts
  <1>3. \A i \in 1 .. n : list[i][1] \in Nat
    <2>1. 0 \in Int
      OBVIOUS
    <2> QED
      BY <2>1, CreditsNat
  <1> HIDE DEF d, e, n
  <1>4. d <= e
    <2>1. CASE d = 0
      BY <1>1, <1>2, <2>1
    <2>2. CASE d # 0
      <3>1. d \in 1 .. n
        BY <1>1, <2>2
      <3>2. list[d][1] <= t /\ list[d][1] \in Nat
        BY <1>1, <1>3, <3>1
      <3>3. list[d][1] <= u
        BY <3>2
      <3> QED
        BY <1>2, <3>1, <3>3
    <2> QED
      BY <2>1, <2>2
  <1> QED
    BY <1>4 DEF d, e

LEMMA TickQueue ==
    ASSUME InterceptorAssumption, IInv, TimerTick, NEW l \in Links
    PROVE  /\ pkt_queue'[l] \in Seq(Packet) /\ forwarded'[l] \in Seq(SentFrame)
           /\ token_count'[l] \in Nat /\ total_bytes'[l] \in Nat
           /\ byte_queue_occupancy'[l] \in Nat /\ pkt_queue_occupancy'[l] \in Nat
           /\ QueueInv(l)'
  <1> USE DEF QueueInv
  <1>1. /\ plan' = plan /\ frames' = frames /\ accepted' = accepted
    BY DEF TimerTick
  <1>2. QueueInv(l)
    BY DEF IInv
  <1>3. /\ pkt_queue[l] \in Seq(Packet) /\ forwarded[l] \in Seq(SentFrame)
        /\ token_count[l] \in Nat /\ total_bytes[l] \in Nat /\ ether_frame \in Nat
        /\ byte_queue_occupancy[l] \in Nat /\ pkt_queue_occupancy[l] \in Nat /\ BufferSize \in Nat
    BY DEF IInv, Fields, InterceptorAssumption
  <1>4. CASE Rests(l)
    BY <1>1, <1>2, <1>3, <1>4 DEF Rests, Shaped
  <1>5. CASE Ticks(l)
    <2> DEFINE d == Drained(l)
               n == Len(pkt_queue[l])
    <2>1. /\ d \in 0 .. n /\ Kept(l) \in Seq(Packet) /\ Len(Kept(l)) = n - d
          /\ Sent(l) \in Seq(Packet) /\ Len(Sent(l)) = d
          /\ Bytes(pkt_queue[l]) \in Nat /\ Bytes(Sent(l)) \in Nat
          /\ Bytes(Kept(l)) = Bytes(pkt_queue[l]) - Bytes(Sent(l)) /\ Bytes(Kept(l)) \in Nat
          /\ ~Shaped(l) => d = 0 /\ pkt_queue[l] = <<>>
      BY DrainFacts
    <2>2. pkt_queue[l] = Sent(l) \o Kept(l)
      <3>1. \A i \in 1 .. d : Sent(l)[i] = pkt_queue[l][i]
        BY DrainFacts
      <3>2. \A i \in 1 .. n - d : Kept(l)[i] = pkt_queue[l][d + i]
        BY DrainFacts
      <3>3. n \in Nat /\ d \in Nat /\ d <= n
        BY <1>3, <2>1, LenProperties
      <3> DEFINE a == Sent(l)  b == Kept(l)  c == a \o b  m == n - d
      <3>0. a \in Seq(Packet) /\ b \in Seq(Packet) /\ Len(a) = d /\ Len(b) = m
        BY <2>1
      <3> HIDE DEF a, b, d, m
      <3>4. /\ c \in Seq(Packet) /\ Len(c) = d + m
            /\ \A i \in 1 .. d + m : c[i] = IF i <= d THEN a[i] ELSE b[i - d]
        <4>1. /\ c \in Seq(Packet) /\ Len(c) = Len(a) + Len(b)
              /\ \A i \in 1 .. Len(a) + Len(b) : c[i] = IF i <= Len(a) THEN a[i] ELSE b[i - Len(a)]
          BY <3>0, ConcatProperties
        <4> QED
          BY <3>0, <4>1
      <3> HIDE DEF c
      <3>5. ASSUME NEW i \in 1 .. n
            PROVE  pkt_queue[l][i] = c[i]
        <4>1. d + m = n
          BY <3>3 DEF m
        <4>2. CASE i <= d
          BY <3>1, <3>3, <3>4, <4>1, <4>2 DEF a
        <4>3. CASE ~(i <= d)
          <5>1. i - d \in 1 .. n - d /\ d + (i - d) = i
            BY <3>3, <4>3
          <5>2. b[i - d] = pkt_queue[l][i]
            BY <3>2, <5>1 DEF b
          <5> QED
            BY <3>4, <4>1, <4>3, <5>2
        <4> QED
          BY <4>2, <4>3
      <3>6. Len(c) = n
        BY <3>3, <3>4 DEF m
      <3>7. pkt_queue[l] = c
        BY <1>3, <3>4, <3>5, <3>6, SeqEqual
      <3> QED
        BY <3>7 DEF a, b, c
    <2>3. /\ \A u \in Packet : u.frame \in Nat
          /\ \A u \in SentFrame : u.frame \in Nat
      BY DEF Packet, SentFrame
    <2>4. /\ FramesOf(pkt_queue[l]) = FramesOf(Sent(l)) \o FramesOf(Kept(l))
          /\ FramesOf(Sent(l)) \in Seq(Nat)
      BY <2>1, <2>2, <2>3, FramesFacts
    <2>5. FramesOf(Kept(l)) \in Seq(Nat)
      BY <2>1, <2>3, FramesFacts
    <2>6. Transmit(Sent(l)) \in Seq(SentFrame) /\ FramesOf(Transmit(Sent(l))) = FramesOf(Sent(l))
      <3>1. d \in Nat /\ \A i \in 1 .. d : Sent(l)[i] \in Packet
        BY <2>1, LenProperties, ElementOfSeq
      <3> HIDE DEF d
      <3>2. Transmit(Sent(l)) \in [1 .. d -> SentFrame]
        BY <1>3, <2>1, <3>1 DEF Transmit, SentFrame, Packet
      <3>3. Transmit(Sent(l)) \in Seq(SentFrame)
        BY <3>1, <3>2, SeqDef
      <3>4. Len(Transmit(Sent(l))) = d
        BY <2>1, <3>1 DEF Transmit
      <3>5. \A i \in 1 .. d : Transmit(Sent(l))[i].frame = Sent(l)[i].frame
        BY <2>1 DEF Transmit
      <3> QED
        BY <2>1, <3>3, <3>4, <3>5 DEF FramesOf
    <2>7. FramesOf(forwarded[l]) \in Seq(Nat)
      BY QueuedFrames
    <2>8. FramesOf(forwarded'[l]) = FramesOf(forwarded[l]) \o FramesOf(Sent(l))
      <3>1. forwarded'[l] = forwarded[l] \o Transmit(Sent(l))
        BY <1>5 DEF Ticks
      <3>2. \A t \in Seq(SentFrame) : FramesOf(forwarded[l] \o t) = FramesOf(forwarded[l]) \o FramesOf(t)
        BY <1>3, <2>3, FramesFacts
      <3> QED
        BY <2>6, <3>1, <3>2
    <2>9. accepted'[l] = FramesOf(forwarded'[l]) \o FramesOf(pkt_queue'[l])
      <3>1. accepted[l] = FramesOf(forwarded[l]) \o (FramesOf(Sent(l)) \o FramesOf(Kept(l)))
        BY <1>2, <2>4
      <3>2. accepted[l] = (FramesOf(forwarded[l]) \o FramesOf(Sent(l))) \o FramesOf(Kept(l))
        <4> DEFINE a == FramesOf(forwarded[l])  b == FramesOf(Sent(l))  c == FramesOf(Kept(l))
        <4>1. a \in Seq(Nat) /\ b \in Seq(Nat) /\ c \in Seq(Nat) /\ accepted[l] = a \o (b \o c)
          BY <2>4, <2>5, <2>7, <3>1
        <4> HIDE DEF a, b, c
        <4>2. (a \o b) \o c = a \o (b \o c)
          BY <4>1, Regroup, Zenon
        <4> QED
          BY <4>1, <4>2 DEF a, b, c
      <3> QED
        BY <1>1, <1>5, <2>8, <3>2 DEF Ticks
    <2>10. forwarded'[l] \in Seq(SentFrame)
      BY <1>3, <1>5, <2>6, ConcatProperties DEF Ticks
    <2>11. /\ pkt_queue'[l] = Kept(l) /\ total_bytes'[l] = total_bytes[l] + Bytes(Sent(l))
           /\ byte_queue_occupancy'[l] = byte_queue_occupancy[l] - Bytes(Sent(l))
           /\ pkt_queue_occupancy'[l] = pkt_queue_occupancy[l] - d
           /\ token_count'[l] = IF Shaped(l) THEN TokensLeft(l) ELSE 0
      BY <1>5 DEF Ticks
    <2>12. /\ token_count'[l] \in Nat /\ total_bytes'[l] \in Nat
      <3>1. Shaped(l) => TokensLeft(l) \in Nat
        BY LeftFacts
      <3> QED
        BY <1>3, <2>1, <2>11, <3>1
    <2>13. /\ byte_queue_occupancy'[l] = Bytes(pkt_queue'[l]) /\ byte_queue_occupancy'[l] \in Nat
           /\ byte_queue_occupancy'[l] <= BufferSize
      BY <1>2, <1>3, <2>1, <2>11
    <2>14. /\ pkt_queue_occupancy'[l] = Len(pkt_queue'[l]) /\ pkt_queue_occupancy'[l] \in Nat
      BY <1>2, <1>3, <2>1, <2>11, LenProperties
    <2>15. ASSUME ~Shaped(l)
           PROVE  pkt_queue'[l] = <<>> /\ token_count'[l] = 0
      <3>1. Len(pkt_queue'[l]) = 0 /\ pkt_queue'[l] \in Seq(Packet)
        BY <2>1, <2>11, <2>15, EmptySeq
      <3> QED
        BY <2>11, <2>15, <3>1, EmptySeq
    <2>16. Shaped(l)' = Shaped(l)
      BY <1>1 DEF Shaped
    <2> HIDE DEF d, n
    <2> QED
      BY <1>1, <1>2, <2>1, <2>9, <2>10, <2>11, <2>12, <2>13, <2>14, <2>15, <2>16
  <1> QED
    BY <1>4, <1>5, TickOfLink

LEMMA TickPlan ==
    ASSUME InterceptorAssumption, IInv, TimerTick, NEW l \in Links
    PROVE  /\ used'[l] \in Nat /\ last_token_update'[l] \in Nat
           /\ PlanInv(l)'
  <1>1. plan' = plan /\ now' = now
    BY DEF TimerTick
  <1>2. /\ PlanInv(l) /\ plan \in Plans /\ used[l] \in Nat /\ last_token_update[l] \in Nat /\ now \in Nat
    BY DEF IInv, Fields, InterceptorAssumption
  <1>3. CASE Rests(l)
    BY <1>1, <1>2, <1>3 DEF Rests, PlanInv
  <1>4. CASE Ticks(l)
    <2>1. used'[l] = UsedAfter(l) /\ last_token_update'[l] = now /\ link_rate'[l] = RateNow(l)
      BY <1>4 DEF Ticks
    <2>2. CASE Shaped(l)
      <3>1. UsedAfter(l) \in Nat /\ UsedAfter(l) <= DueBy(plan[l].list, now)
        BY <2>2, TokensFacts
      <3>2. plan[l].kind = "trace" => UsedAfter(l) = DueBy(plan[l].list, now)
        BY DEF UsedAfter, Switches
      <3>3. plan[l].kind = "rate" => RateNow(l) = plan[l].rate
        BY <2>2, TokensFacts
      <3>4. plan[l].kind = "schedule" => RateNow(l) = plan[l].file[UsedAfter(l) + 1][2]
        BY <2>2, TokensFacts
      <3> QED
        BY <1>1, <1>2, <2>1, <3>1, <3>2, <3>3, <3>4 DEF PlanInv
    <2>3. CASE ~Shaped(l)
      <3>1. plan[l].kind = "unrestrained"
        BY <2>3 DEF Shaped
      <3>2. UsedAfter(l) = used[l]
        BY <3>1 DEF UsedAfter, Switches
      <3>3. used[l] <= DueBy(plan[l].list, now)
        <4> DEFINE d == DueBy(plan[l].list, now)  e == DueBy(plan[l].list, last_token_update[l])
        <4>1. plan[l].list \in Seq(Entries) /\ Sorted(plan[l].list)
          BY <1>2, PlanFacts
        <4>2. now \in Int /\ last_token_update[l] \in Int /\ last_token_update[l] <= now
          BY <1>2 DEF PlanInv
        <4>3. e <= d
          BY <4>1, <4>2, DueGrows
        <4>4. Len(plan[l].list) \in Nat /\ d \in 0 .. Len(plan[l].list) /\ e \in 0 .. Len(plan[l].list)
          BY <4>1, <4>2, DueFacts, LenProperties
        <4>5. used[l] <= e
          BY <1>2 DEF PlanInv
        <4> HIDE DEF d, e
        <4>6. used[l] <= d
          BY <1>2, <4>3, <4>4, <4>5
        <4> QED
          BY <4>6 DEF d
      <3> QED
        BY <1>1, <1>2, <2>1, <3>1, <3>2, <3>3 DEF PlanInv
    <2> QED
      BY <2>2, <2>3
  <1> QED
    BY <1>3, <1>4, TickOfLink

LEMMA TickIInv ==
    ASSUME InterceptorAssumption, IInv, TimerTick
    PROVE  IInv'
  <1>1. ClocksInv /\ Fields /\ \A l \in Links : PlanInv(l)
    BY DEF IInv
  <1>2. \A l \in Links : QueueInv(l)' /\ PlanInv(l)'
    BY TickQueue, TickPlan
  <1>3. Fields'
    <2>1. /\ plan' \in Plans /\ now' \in 0 .. MaxTime /\ frames' \in 0 .. MaxFrames
          /\ ether_frame' = frames' /\ accepted' \in [Links -> Seq(Nat)] /\ running' \in BOOLEAN
      BY <1>1 DEF Fields, TimerTick
    <2>2. /\ pkt_queue' = [l \in Links |-> pkt_queue'[l]]
          /\ byte_queue_occupancy' = [l \in Links |-> byte_queue_occupancy'[l]]
          /\ pkt_queue_occupancy' = [l \in Links |-> pkt_queue_occupancy'[l]]
          /\ total_bytes' = [l \in Links |-> total_bytes'[l]]
          /\ forwarded' = [l \in Links |-> forwarded'[l]]
          /\ token_count' = [l \in Links |-> token_count'[l]]
          /\ used' = [l \in Links |-> used'[l]]
          /\ last_token_update' = [l \in Links |-> last_token_update'[l]]
      BY DEF TimerTick, AfterTick
    <2>3. /\ pkt_queue' \in [Links -> Seq(Packet)] /\ forwarded' \in [Links -> Seq(SentFrame)]
          /\ token_count' \in [Links -> Nat] /\ total_bytes' \in [Links -> Nat]
          /\ byte_queue_occupancy' \in [Links -> Nat] /\ pkt_queue_occupancy' \in [Links -> Nat]
      BY <2>2, TickQueue
    <2>4. used' \in [Links -> Nat] /\ last_token_update' \in [Links -> Nat]
      BY <2>2, TickPlan
    <2> QED
      BY <2>1, <2>3, <2>4 DEF Fields
  <1>4. ClocksInv'
    <2>1. "uplink" \in Links /\ "downlink" \in Links /\ Links = {"uplink", "downlink"}
      BY DEF Links
    <2>2. /\ now \in Nat /\ last_token_update["uplink"] \in Nat /\ last_token_update["downlink"] \in Nat
          /\ missed \in Nat /\ missed <= last_token_update["uplink"]
      <3>1. now \in Nat /\ last_token_update \in [Links -> Nat] /\ running
        <4>1. MaxTime \in Nat
          BY DEF InterceptorAssumption
        <4>2. now \in Nat /\ last_token_update \in [Links -> Nat]
          BY <1>1, <4>1 DEF Fields
        <4> QED
          BY <4>2 DEF TimerTick
      <3>2. missed \in Nat /\ missed <= last_token_update["uplink"]
        BY <1>1, <3>1 DEF ClocksInv
      <3> QED
        BY <2>1, <3>1, <3>2
    <2>3. /\ missed' = missed + now - last_token_update["uplink"] - 1
          /\ last_token_update["uplink"] < now /\ now' = now
          /\ running' = (Ticking = Links)
      BY DEF TimerTick
    <2>4. ASSUME running'
          PROVE  last_token_update'["uplink"] = now /\ last_token_update'["downlink"] = now
      <3>1. "uplink" \in Ticking /\ "downlink" \in Ticking
        BY <2>1, <2>3, <2>4
      <3>2. Ticks("uplink") /\ Ticks("downlink")
        BY <2>1, <3>1, TickOfLink
      <3> QED
        BY <3>2 DEF Ticks
    <2>5. missed' \in Nat /\ missed' <= now
      BY <2>2, <2>3
    <2> QED
      BY <2>3, <2>4, <2>5 DEF ClocksInv
  <1> QED
    BY <1>2, <1>3, <1>4 DEF IInv

\* A frame for a link is queued, sent or dropped; the other link is left alone.
LEMMA FrameIInv ==
    ASSUME InterceptorAssumption, IInv, NEW k \in Links, NEW size \in FrameSizes, FrameFor(k, size)
    PROVE  IInv'
  <1>1. /\ Fields /\ ClocksInv /\ \A l \in Links : QueueInv(l) /\ PlanInv(l)
    BY DEF IInv
  <1>2. /\ frames \in Nat /\ frames' = frames + 1 /\ ether_frame' = frames'
        /\ frames' \in 0 .. MaxFrames /\ frames' \in Nat /\ plan' = plan /\ now' = now
    <2>1. MaxFrames \in Nat
      BY DEF InterceptorAssumption
    <2> QED
      BY <1>1, <2>1 DEF FrameFor, ReadFrame, Fields
  <1>3. /\ running' = running /\ link_rate' = link_rate /\ used' = used /\ token_count' = token_count
        /\ last_token_update' = last_token_update /\ missed' = missed
    BY DEF FrameFor, tickVars
  <1>4. ClocksInv'
    BY <1>1, <1>2, <1>3 DEF ClocksInv
  <1>5. \A l \in Links : PlanInv(l)'
    BY <1>1, <1>2, <1>3 DEF PlanInv
  <1>6. /\ size \in Nat /\ BufferSize \in Nat /\ byte_queue_occupancy[k] \in Nat
        /\ total_bytes[k] \in Nat /\ pkt_queue_occupancy[k] \in Nat /\ last_token_update[k] \in Nat
    <2>1. size \in Nat /\ BufferSize \in Nat
      BY DEF InterceptorAssumption
    <2> QED
      BY <1>1, <2>1 DEF Fields
  <1>7. /\ pkt_queue[k] \in Seq(Packet) /\ accepted[k] \in Seq(Nat) /\ forwarded[k] \in Seq(SentFrame)
        /\ FramesOf(forwarded[k]) \in Seq(Nat) /\ FramesOf(pkt_queue[k]) \in Seq(Nat)
        /\ Len(accepted[k]) \in Nat /\ Len(accepted[k]) <= frames /\ QueueInv(k)
    BY <1>1, QueuedFrames, LenProperties DEF QueueInv
  <1>8. /\ \A u \in Packet : u.frame \in Nat
        /\ \A u \in SentFrame : u.frame \in Nat
    BY DEF Packet, SentFrame
  <1>9. ASSUME NEW l \in Links, l # k
        PROVE  /\ pkt_queue'[l] = pkt_queue[l] /\ accepted'[l] = accepted[l]
               /\ byte_queue_occupancy'[l] = byte_queue_occupancy[l]
               /\ pkt_queue_occupancy'[l] = pkt_queue_occupancy[l]
               /\ forwarded'[l] = forwarded[l] /\ total_bytes'[l] = total_bytes[l]
    BY <1>1, <1>9 DEF FrameFor, Recv, Enqueue, Fields
  <1>10. ASSUME NEW l \in Links, l # k
         PROVE  QueueInv(l)'
    <2>1. QueueInv(l) /\ accepted[l] \in Seq(Nat)
      BY <1>1, QueuedFrames
    <2>2. Len(accepted[l]) \in Nat
      BY <2>1, LenProperties
    <2>3. Len(accepted'[l]) <= frames'
      BY <1>2, <1>9, <1>10, <2>1, <2>2 DEF QueueInv
    <2>4. accepted'[l] = FramesOf(forwarded'[l]) \o FramesOf(pkt_queue'[l])
      BY <1>9, <1>10, <2>1 DEF QueueInv
    <2> QED
      BY <1>2, <1>3, <1>9, <1>10, <2>1, <2>3, <2>4 DEF QueueInv, Shaped
  <1>11. Append(accepted[k], frames') \in Seq(Nat) /\ Len(Append(accepted[k], frames')) = Len(accepted[k]) + 1
    BY <1>2, <1>7, AppendProperties
  <1>12. CASE Shaped(k) /\ ~Full(k, size)
    <2> DEFINE p == [frame |-> frames', size |-> size, since |-> last_token_update[k],
                     ahead |-> byte_queue_occupancy[k]]
    <2>1. /\ pkt_queue' = [pkt_queue EXCEPT ![k] = Append(@, p)]
          /\ pkt_queue_occupancy' = [pkt_queue_occupancy EXCEPT ![k] = @ + 1]
          /\ byte_queue_occupancy' = [byte_queue_occupancy EXCEPT ![k] = @ + size]
          /\ accepted' = [accepted EXCEPT ![k] = Append(@, frames')]
          /\ total_bytes' = total_bytes /\ forwarded' = forwarded
      BY <1>12 DEF FrameFor, Recv, Enqueue
    <2>2. p \in Packet /\ p.frame = frames' /\ p.size = size
      BY <1>2, <1>6 DEF Packet
    <2> HIDE DEF p
    <2>3. /\ pkt_queue'[k] = Append(pkt_queue[k], p) /\ accepted'[k] = Append(accepted[k], frames')
          /\ pkt_queue_occupancy'[k] = pkt_queue_occupancy[k] + 1
          /\ byte_queue_occupancy'[k] = byte_queue_occupancy[k] + size
          /\ forwarded'[k] = forwarded[k]
      BY <1>1, <2>1 DEF Fields
    <2>4. /\ Append(pkt_queue[k], p) \in Seq(Packet)
          /\ Len(Append(pkt_queue[k], p)) = Len(pkt_queue[k]) + 1
          /\ Append(pkt_queue[k], p) = pkt_queue[k] \o <<p>> /\ <<p>> \in Seq(Packet)
      <3>1. pkt_queue[k] \in Seq(Packet) /\ p \in Packet
        BY <1>7, <2>2
      <3> QED
        BY <3>1
    <2>5. FramesOf(<<p>>) = <<frames'>>
      BY <2>2 DEF FramesOf
    <2>6. FramesOf(pkt_queue'[k]) = FramesOf(pkt_queue[k]) \o <<frames'>>
      <3>1. FramesOf(pkt_queue[k] \o <<p>>) = FramesOf(pkt_queue[k]) \o FramesOf(<<p>>)
        BY <1>7, <1>8, <2>4, FramesFacts
      <3> QED
        BY <2>3, <2>4, <2>5, <3>1
    <2>7. accepted'[k] = FramesOf(forwarded'[k]) \o FramesOf(pkt_queue'[k])
      <3> DEFINE a == FramesOf(forwarded[k])  b == FramesOf(pkt_queue[k])  c == <<frames'>>
      <3>1. a \in Seq(Nat) /\ b \in Seq(Nat) /\ c \in Seq(Nat)
        BY <1>2, <1>7
      <3>2. accepted[k] = a \o b /\ accepted'[k] = accepted[k] \o c
        <4>1. accepted[k] = a \o b
          BY <1>7 DEF QueueInv
        <4>2. Append(accepted[k], frames') = accepted[k] \o c
          BY <1>2, <1>7, AppendIsConcat
        <4> QED
          BY <2>3, <4>1, <4>2
      <3>3. forwarded'[k] = forwarded[k] /\ FramesOf(pkt_queue'[k]) = b \o c
        BY <2>3, <2>6
      <3> HIDE DEF a, b, c
      <3>4. (a \o b) \o c = a \o (b \o c)
        BY <3>1, Regroup, Zenon
      <3> QED
        BY <3>2, <3>3, <3>4 DEF a
    <2>8. Bytes(pkt_queue'[k]) = Bytes(pkt_queue[k]) + size
      BY <1>7, <2>2, <2>3, BytesAppend
    <2>9. byte_queue_occupancy[k] + size <= BufferSize
      BY <1>6, <1>12 DEF Full
    <2>10. QueueInv(k)'
      <3>1. /\ pkt_queue_occupancy'[k] = Len(pkt_queue'[k])
            /\ byte_queue_occupancy'[k] = Bytes(pkt_queue'[k]) /\ byte_queue_occupancy'[k] <= BufferSize
        BY <1>7, <2>3, <2>4, <2>8, <2>9 DEF QueueInv
      <3>2. Len(accepted'[k]) <= frames'
        BY <1>2, <1>7, <1>11, <2>3
      <3>3. Shaped(k)'
        BY <1>2, <1>12 DEF Shaped
      <3> QED
        BY <2>7, <3>1, <3>2, <3>3 DEF QueueInv
    <2>11. Fields'
      <3>1. Append(pkt_queue[k], p) \in Seq(Packet)
        BY <2>4
      <3>2. pkt_queue' \in [Links -> Seq(Packet)]
        BY <1>1, <2>1, <3>1 DEF Fields
      <3>3. accepted' \in [Links -> Seq(Nat)]
        BY <1>1, <1>11, <2>1 DEF Fields
      <3>4. /\ byte_queue_occupancy' \in [Links -> Nat] /\ pkt_queue_occupancy' \in [Links -> Nat]
        <4>1. byte_queue_occupancy[k] + size \in Nat /\ pkt_queue_occupancy[k] + 1 \in Nat
          BY <1>6
        <4> QED
          BY <1>1, <2>1, <4>1 DEF Fields
      <3>5. total_bytes' \in [Links -> Nat] /\ forwarded' \in [Links -> Seq(SentFrame)]
        BY <1>1, <2>1 DEF Fields
      <3> QED
        BY <1>1, <1>2, <1>3, <3>2, <3>3, <3>4, <3>5 DEF Fields
    <2> QED
      BY <1>4, <1>5, <1>10, <2>10, <2>11 DEF IInv
  <1>13. CASE Shaped(k) /\ Full(k, size)
    <2>1. /\ pkt_queue' = pkt_queue /\ pkt_queue_occupancy' = pkt_queue_occupancy
          /\ byte_queue_occupancy' = byte_queue_occupancy /\ accepted' = accepted
          /\ total_bytes' = total_bytes /\ forwarded' = forwarded
      BY <1>13 DEF FrameFor, Recv, Enqueue
    <2>2. QueueInv(k)'
      BY <1>2, <1>3, <1>7, <2>1 DEF QueueInv, Shaped
    <2>3. Fields'
      BY <1>1, <1>2, <1>3, <2>1 DEF Fields
    <2> QED
      BY <1>4, <1>5, <1>10, <2>2, <2>3 DEF IInv
  <1>14. CASE ~Shaped(k)
    <2> DEFINE p == [frame |-> frames', content |-> ether_frame']
    <2>1. /\ pkt_queue' = pkt_queue /\ pkt_queue_occupancy' = pkt_queue_occupancy
          /\ byte_queue_occupancy' = byte_queue_occupancy
          /\ total_bytes' = [total_bytes EXCEPT ![k] = @ + size]
          /\ forwarded' = [forwarded EXCEPT ![k] = Append(@, p)]
          /\ accepted' = [accepted EXCEPT ![k] = Append(@, frames')]
      BY <1>14 DEF FrameFor, Recv
    <2>2. p \in SentFrame /\ p.frame = frames'
      BY <1>2, <1>6 DEF SentFrame
    <2> HIDE DEF p
    <2>3. forwarded'[k] = Append(forwarded[k], p) /\ accepted'[k] = Append(accepted[k], frames')
      BY <1>1, <2>1 DEF Fields
    <2>4. /\ Append(forwarded[k], p) \in Seq(SentFrame)
          /\ Append(forwarded[k], p) = forwarded[k] \o <<p>> /\ <<p>> \in Seq(SentFrame)
      BY <1>7, <2>2, AppendProperties, AppendIsConcat
    <2>5. FramesOf(<<p>>) = <<frames'>>
      BY <2>2 DEF FramesOf
    <2>6. FramesOf(forwarded'[k]) = FramesOf(forwarded[k]) \o <<frames'>>
      <3>1. FramesOf(forwarded[k] \o <<p>>) = FramesOf(forwarded[k]) \o FramesOf(<<p>>)
        BY <1>7, <1>8, <2>4, FramesFacts
      <3> QED
        BY <2>3, <2>4, <2>5, <3>1
    <2>7. FramesOf(<<>>) = <<>>
      BY DEF FramesOf
    <2>8. accepted'[k] = FramesOf(forwarded'[k]) \o FramesOf(pkt_queue'[k])
      <3> DEFINE a == FramesOf(forwarded[k])  c == <<frames'>>
      <3>1. a \in Seq(Nat) /\ c \in Seq(Nat)
        BY <1>2, <1>7
      <3>2. pkt_queue[k] = <<>>
        BY <1>7, <1>14 DEF QueueInv
      <3>3. accepted[k] = a \o <<>> /\ accepted'[k] = accepted[k] \o c
        <4>1. accepted[k] = a \o <<>>
          BY <1>7, <2>7, <3>2 DEF QueueInv
        <4>2. Append(accepted[k], frames') = accepted[k] \o c
          BY <1>2, <1>7, AppendIsConcat
        <4> QED
          BY <2>3, <4>1, <4>2
      <3>4. FramesOf(forwarded'[k]) = a \o c /\ FramesOf(pkt_queue'[k]) = <<>>
        BY <2>1, <2>6, <2>7, <3>2
      <3> HIDE DEF a, c
      <3>5. a \o <<>> = a /\ (a \o c) \o <<>> = a \o c
        BY <3>1
      <3> QED
        BY <3>3, <3>4, <3>5
    <2>9. QueueInv(k)'
      <3>1. /\ pkt_queue_occupancy'[k] = Len(pkt_queue'[k])
            /\ byte_queue_occupancy'[k] = Bytes(pkt_queue'[k]) /\ byte_queue_occupancy'[k] <= BufferSize
        BY <1>7, <2>1 DEF QueueInv
      <3>2. Len(accepted'[k]) <= frames'
        BY <1>2, <1>7, <1>11, <2>3
      <3>3. pkt_queue'[k] = <<>> /\ token_count'[k] = 0
        BY <1>3, <1>7, <1>14, <2>1 DEF QueueInv
      <3> QED
        BY <2>8, <3>1, <3>2, <3>3 DEF QueueInv
    <2>10. Fields'
      <3>1. Append(forwarded[k], p) \in Seq(SentFrame)
        BY <2>4
      <3>2. forwarded' \in [Links -> Seq(SentFrame)]
        BY <1>1, <2>1, <3>1 DEF Fields
      <3>3. accepted' \in [Links -> Seq(Nat)]
        BY <1>1, <1>11, <2>1 DEF Fields
      <3>4. total_bytes' \in [Links -> Nat]
        <4>1. total_bytes[k] + size \in Nat
          BY <1>6
        <4> QED
          BY <1>1, <2>1, <4>1 DEF Fields
      <3>5. /\ byte_queue_occupancy' \in [Links -> Nat] /\ pkt_queue_occupancy' \in [Links -> Nat]
            /\ pkt_queue' \in [Links -> Seq(Packet)]
        BY <1>1, <2>1 DEF Fields
      <3> QED
        BY <1>1, <1>2, <1>3, <3>2, <3>3, <3>4, <3>5 DEF Fields
    <2> QED
      BY <1>4, <1>5, <1>10, <2>9, <2>10 DEF IInv
  <1> QED
    BY <1>12, <1>13, <1>14

LEMMA StepIInv ==
    ASSUME InterceptorAssumption, IInv, [Next]_vars
    PROVE  IInv'
  <1>1. /\ Fields /\ ClocksInv /\ \A l \in Links : QueueInv(l) /\ PlanInv(l)
    BY DEF IInv
  <1>2. CASE Pass
    <2>1. /\ plan' = plan /\ frames' = frames /\ ether_frame' = ether_frame
          /\ pkt_queue' = pkt_queue /\ byte_queue_occupancy' = byte_queue_occupancy
          /\ pkt_queue_occupancy' = pkt_queue_occupancy /\ total_bytes' = total_bytes
          /\ accepted' = accepted /\ forwarded' = forwarded
      BY <1>2 DEF Pass, queueVars
    <2>2. /\ running' = running /\ link_rate' = link_rate /\ used' = used
          /\ token_count' = token_count /\ last_token_update' = last_token_update
          /\ missed' = missed /\ now < MaxTime /\ now' = now + 1
      BY <1>2 DEF Pass, tickVars
    <2>3. MaxTime \in Nat
      BY DEF InterceptorAssumption
    <2>4. now \in Nat /\ now' \in 0 .. MaxTime /\ now' = now + 1
      BY <1>1, <2>2, <2>3 DEF Fields
    <2>5. Fields'
      BY <1>1, <2>1, <2>2, <2>4 DEF Fields
    <2>6. ClocksInv'
      BY <1>1, <2>2, <2>4 DEF ClocksInv
    <2>7. ASSUME NEW l \in Links
          PROVE  QueueInv(l)' /\ PlanInv(l)'
      <3>1. QueueInv(l)'
        BY <1>1, <2>1, <2>2 DEF QueueInv, Shaped
      <3>2. last_token_update[l] \in Nat
        BY <1>1 DEF Fields
      <3> QED
        BY <1>1, <2>1, <2>2, <2>4, <3>1, <3>2 DEF PlanInv
    <2> QED
      BY <2>5, <2>6, <2>7 DEF IInv
  <1>3. CASE TimerTick
    BY <1>3, TickIInv
  <1>4. ASSUME NEW l \in Links, NEW size \in FrameSizes, FrameFor(l, size)
        PROVE  IInv'
    BY <1>4, FrameIInv
  <1>5. CASE FrameIgnored
    <2>1. /\ plan' = plan /\ now' = now /\ frames' = frames + 1 /\ ether_frame' = frames'
          /\ pkt_queue' = pkt_queue /\ byte_queue_occupancy' = byte_queue_occupancy
          /\ pkt_queue_occupancy' = pkt_queue_occupancy /\ total_bytes' = total_bytes
          /\ accepted' = accepted /\ forwarded' = forwarded /\ frames < MaxFrames
      BY <1>5 DEF FrameIgnored, ReadFrame, queueVars
    <2>2. /\ running' = running /\ link_rate' = link_rate /\ used' = used
          /\ token_count' = token_count /\ last_token_update' = last_token_update
          /\ missed' = missed
      BY <1>5 DEF FrameIgnored, tickVars
    <2>3. MaxFrames \in Nat
      BY DEF InterceptorAssumption
    <2>4. frames \in Nat /\ frames' \in 0 .. MaxFrames
      BY <1>1, <2>1, <2>3 DEF Fields
    <2>5. Fields'
      BY <1>1, <2>1, <2>2, <2>4 DEF Fields
    <2>6. ClocksInv'
      BY <1>1, <2>1, <2>2 DEF ClocksInv
    <2>7. ASSUME NEW l \in Links
          PROVE  QueueInv(l)' /\ PlanInv(l)'
      <3>1. QueueInv(l) /\ Len(accepted[l]) \in Nat
        BY <1>1, QueuedFrames, LenProperties
      <3>2. Len(accepted[l]) <= frames'
        BY <2>1, <2>4, <3>1 DEF QueueInv
      <3>3. QueueInv(l)'
        BY <2>1, <2>2, <3>1, <3>2 DEF QueueInv, Shaped
      <3> QED
        BY <1>1, <2>1, <2>2, <3>3 DEF PlanInv
    <2> QED
      BY <2>5, <2>6, <2>7 DEF IInv
  <1>6. CASE UNCHANGED vars
    <2>1. /\ plan' = plan /\ now' = now /\ frames' = frames /\ ether_frame' = ether_frame
          /\ pkt_queue' = pkt_queue /\ byte_queue_occupancy' = byte_queue_occupancy
          /\ pkt_queue_occupancy' = pkt_queue_occupancy /\ total_bytes' = total_bytes
          /\ accepted' = accepted /\ forwarded' = forwarded
      BY <1>6 DEF vars, queueVars
    <2>2. /\ running' = running /\ link_rate' = link_rate /\ used' = used
          /\ token_count' = token_count /\ last_token_update' = last_token_update
          /\ missed' = missed
      BY <1>6 DEF vars, tickVars
    <2>3. Fields' /\ ClocksInv'
      BY <1>1, <2>1, <2>2 DEF Fields, ClocksInv
    <2>4. ASSUME NEW l \in Links
          PROVE  QueueInv(l)' /\ PlanInv(l)'
      BY <1>1, <2>1, <2>2 DEF QueueInv, PlanInv, Shaped
    <2> QED
      BY <2>3, <2>4 DEF IInv
  <1> QED
    BY <1>2, <1>3, <1>4, <1>5, <1>6 DEF Next

\* The inductive invariant holds in every reachable state.
THEOREM Invariance == Spec => []IInv
  <1>1. Init => IInv
    BY InterceptorAssumption, InitIInv
  <1>2. IInv /\ [Next]_vars => IInv'
    BY InterceptorAssumption, StepIInv
  <1> QED
    BY <1>1, <1>2, PTL DEF Spec

\* The types of the links' counters, and that the occupancies enqueue() and
\* dequeue() keep are the packets and the bytes of the queue and within the
\* buffer: for every rate, schedule, trace, frame size and buffer.
THEOREM CountersCorrect == Spec => []CountersConsistent
  <1>1. IInv => CountersConsistent
    <2> SUFFICES ASSUME IInv
                 PROVE  CountersConsistent
      OBVIOUS
    <2>1. /\ Fields /\ ClocksInv /\ \A l \in Links : QueueInv(l) /\ PlanInv(l)
      BY DEF IInv
    <2>2. MaxTime \in Nat /\ MaxFrames \in Nat /\ BufferSize \in Nat
      BY InterceptorAssumption DEF InterceptorAssumption
    <2>3. now \in Nat /\ frames \in Nat /\ frames <= MaxFrames /\ now <= MaxTime
      BY <2>1, <2>2 DEF Fields
    <2>4. ASSUME NEW l \in Links
          PROVE  /\ used[l] <= Len(plan[l].list) /\ byte_queue_occupancy[l] \in 0 .. BufferSize
                 /\ pkt_queue_occupancy[l] \in 0 .. MaxFrames /\ last_token_update[l] \in 0 .. now
      <3>1. /\ used[l] \in Nat /\ byte_queue_occupancy[l] \in Nat /\ pkt_queue_occupancy[l] \in Nat
            /\ last_token_update[l] \in Nat
        BY <2>1 DEF Fields
      <3>2. plan[l].list \in Seq(Entries) /\ Sorted(plan[l].list)
        BY <2>1, InterceptorAssumption, PlanFacts DEF Fields
      <3>3. last_token_update[l] \in Int
        BY <3>1
      <3>4. DueBy(plan[l].list, last_token_update[l]) \in 0 .. Len(plan[l].list)
        BY <3>2, <3>3, DueFacts
      <3>5. used[l] <= Len(plan[l].list)
        <4>1. used[l] <= DueBy(plan[l].list, last_token_update[l]) /\ Len(plan[l].list) \in Nat
          BY <2>1, <3>2, LenProperties DEF PlanInv
        <4> QED
          BY <3>1, <3>4, <4>1
      <3>6. Len(pkt_queue[l]) \in Nat /\ Len(forwarded[l]) \in Nat
            /\ Len(accepted[l]) = Len(forwarded[l]) + Len(pkt_queue[l])
        BY QueuedFrames
      <3>7. pkt_queue_occupancy[l] <= MaxFrames
        <4>1. pkt_queue_occupancy[l] = Len(pkt_queue[l]) /\ Len(accepted[l]) <= frames
          BY <2>1 DEF QueueInv
        <4> DEFINE a == Len(accepted[l])  f == Len(forwarded[l])  q == Len(pkt_queue[l])
        <4>2. q \in Nat /\ f \in Nat /\ a = f + q /\ a <= frames /\ pkt_queue_occupancy[l] = q
          BY <3>6, <4>1
        <4> HIDE DEF a, f, q
        <4> QED
          BY <2>2, <2>3, <4>2
      <3>8. byte_queue_occupancy[l] <= BufferSize /\ last_token_update[l] <= now
        BY <2>1 DEF QueueInv, PlanInv
      <3> QED
        BY <2>2, <2>3, <3>1, <3>5, <3>7, <3>8
    <2>5. missed \in 0 .. MaxTime
      BY <2>1, <2>2, <2>3 DEF ClocksInv
    <2>6. TypeOK
      BY <2>1, <2>4, <2>5 DEF Fields, TypeOK
    <2>7. OccupancyExact
      BY <2>1 DEF QueueInv, OccupancyExact
    <2> QED
      BY <2>6, <2>7 DEF CountersConsistent
  <1> QED
    BY <1>1, Invariance, PTL

\* Each link forwards the frames it took once each and in order, queued or not.
THEOREM FifoCorrect == Spec => []FifoForwarding
  <1>1. IInv => FifoForwarding
    BY DEF IInv, QueueInv, FramesOf, FifoForwarding
  <1> QED
    BY <1>1, Invariance, PTL

-----------------------------------------------------------------------------
(* What a link has earned and what has become of it.                       *)

\* check_current_rate takes one line of a schedule at a tick: two lines for one
\* time are told apart by the tick that comes next.  What follows a schedule to
\* the unit follows one whose times differ.
SchedulesStrict ==
    \A file \in Schedules : \A i \in 2 .. Len(file) : file[i - 1][1] < file[i][1]

\* No tick was late that matters to the link.
OnTime(l) == plan[l].kind = "schedule" => missed = 0

\* The tokens are covered by the plan, and a schedule by its highest rate.
CoverInv(l) ==
    /\ Shaped(l) /\ OnTime(l) =>
           total_bytes[l] + token_count[l] <= Planned(plan[l], last_token_update[l]) + plan[l].credit
    /\ plan[l].kind = "schedule" =>
           total_bytes[l] + token_count[l] <= HighestRate(plan[l].file) * last_token_update[l]

\* How far a link is behind its schedule.
BehindInv(l) ==
    plan[l].kind = "schedule" => DueBy(plan[l].list, last_token_update[l]) - used[l] <= missed

\* No token earned since a packet came has been lost to it: the tokens at hand
\* and the bytes ahead of it that are gone amount to what has been earned.
NothingLost(l, i) ==
    token_count[l] + pkt_queue[l][i].ahead - Total(Sizes(pkt_queue[l]), i - 1)
        >= Planned(plan[l], last_token_update[l]) - Planned(plan[l], pkt_queue[l][i].since)

\* The packets of a queue came in order, and after a tick the tokens do not pay
\* for the first one.
WaitInv(l) ==
    LET q == pkt_queue[l]
    IN  /\ \A i \in 1 .. Len(q) : q[i].since <= last_token_update[l]
        /\ \A i, j \in 1 .. Len(q) : i <= j => q[i].since <= q[j].since
        /\ q # <<>> /\ last_token_update[l] > q[1].since => token_count[l] < q[1].size
        /\ OnTime(l) => \A i \in 1 .. Len(q) : NothingLost(l, i)

\* A trace is not used up while the link runs, and its end stops the program.
EndInv ==
    /\ \A l \in Links : plan[l].kind = "trace" => last_token_update[l] < Last(plan[l].list)[1]
    /\ ~running => \E k \in Links : plan[k].kind = "trace" /\ Last(plan[k].list)[1] <= now

\* A schedule, and the switches of it that are due.
LEMMA ScheduleFacts ==
    ASSUME InterceptorAssumption, NEW file \in Schedules
    PROVE  /\ file \in Seq(Entries) /\ Len(file) \in Nat /\ Len(file) >= 2 /\ Sorted(file)
           /\ \A i \in 1 .. Len(file) : file[i][1] \in Nat /\ file[i][2] \in Nat
           /\ Tail(file) \in Seq(Entries) /\ Len(Tail(file)) = Len(file) - 1 /\ Sorted(Tail(file))
           /\ \A i \in 1 .. Len(file) - 1 : Tail(file)[i] = file[i + 1]
  <1>1. WellFormed(file)
    BY DEF InterceptorAssumption
  <1>2. file \in Seq(Entries) /\ Len(file) >= 2 /\ Sorted(file)
    BY <1>1, FileSorted DEF WellFormed, Entries
  <1>3. Len(file) \in Nat /\ file # <<>>
    BY <1>2, LenProperties
  <1>4. 0 \in Int
    OBVIOUS
  <1>5. \A i \in 1 .. Len(file) : file[i][1] \in Nat /\ file[i][2] \in Nat
    BY <1>2, <1>4, CreditsNat
  <1>6. /\ Tail(file) \in Seq(Entries) /\ Len(Tail(file)) = Len(file) - 1
        /\ \A i \in 1 .. Len(file) - 1 : Tail(file)[i] = file[i + 1]
    BY <1>2, <1>3, TailFacts
  <1>7. Sorted(Tail(file))
    BY <1>2, <1>3, <1>6 DEF Sorted
  <1> QED
    BY <1>2, <1>3, <1>5, <1>6, <1>7

\* The rate of a schedule at t is that of the last line that is due.
LEMMA RateOfDue ==
    ASSUME InterceptorAssumption, NEW file \in Schedules, NEW t \in Int
    PROVE  /\ DueBy(Tail(file), t) \in Nat /\ DueBy(Tail(file), t) + 1 \in 1 .. Len(file)
           /\ PlannedRate(file, t) = file[DueBy(Tail(file), t) + 1][2]
           /\ PlannedRate(file, t) \in Nat
  <1> DEFINE n == Len(file)
             list == Tail(file)
             d == DueBy(list, t)
             Now(i) == (i = 1 \/ file[i][1] <= t) /\ \A j \in i + 1 .. n : file[j][1] > t
  <1>1. /\ n \in Nat /\ n >= 2 /\ \A i \in 1 .. n : file[i][1] \in Nat /\ file[i][2] \in Nat
        /\ list \in Seq(Entries) /\ Len(list) = n - 1 /\ Sorted(list)
        /\ \A i \in 1 .. n - 1 : list[i] = file[i + 1]
    BY ScheduleFacts
  <1>2. d \in 0 .. n - 1 /\ \A i \in 1 .. n - 1 : list[i][1] <= t <=> i <= d
    <2>1. d \in 0 .. Len(list) /\ \A i \in 1 .. Len(list) : list[i][1] <= t <=> i <= d
      BY <1>1, DueFacts
    <2> QED
      BY <1>1, <2>1
  <1> HIDE DEF n, list, d
  <1>3. \A j \in 2 .. n : file[j][1] <= t <=> j <= d + 1
    <2>1. ASSUME NEW j \in 2 .. n
          PROVE  file[j][1] <= t <=> j <= d + 1
      <3>1. j - 1 \in 1 .. n - 1 /\ (j - 1) + 1 = j
        BY <1>1
      <3>2. list[j - 1] = file[j]
        BY <1>1, <3>1
      <3>3. file[j][1] <= t <=> j - 1 <= d
        BY <1>2, <3>1, <3>2
      <3> QED
        BY <1>2, <3>1, <3>3
    <2> QED
      BY <2>1
  <1>4. d + 1 \in 1 .. n /\ Now(d + 1)
    <2>1. d + 1 \in 1 .. n
      BY <1>1, <1>2
    <2>2. d + 1 = 1 \/ file[d + 1][1] <= t
      <3>1. d + 1 = 1 \/ d + 1 \in 2 .. n
        BY <1>2, <2>1
      <3>2. d + 1 <= d + 1
        BY <1>2
      <3> QED
        BY <1>3, <3>1, <3>2
    <2>3. ASSUME NEW j \in (d + 1) + 1 .. n
          PROVE  file[j][1] > t
      <3>1. j \in 2 .. n /\ ~(j <= d + 1)
        BY <1>1, <1>2
      <3>2. ~(file[j][1] <= t) /\ file[j][1] \in Nat
        BY <1>1, <1>3, <3>1
      <3> QED
        BY <3>2
    <2> QED
      BY <2>1, <2>2, <2>3
  <1>5. ASSUME NEW i \in 1 .. n, Now(i)
        PROVE  i = d + 1
    <2>1. ~(i < d + 1)
      <3>1. SUFFICES ASSUME i < d + 1
                     PROVE  FALSE
        OBVIOUS
      <3>2. d + 1 \in i + 1 .. n /\ d + 1 \in 2 .. n
        BY <1>2, <1>4, <3>1
      <3>3. file[d + 1][1] > t /\ file[d + 1][1] <= t /\ file[d + 1][1] \in Nat
        BY <1>1, <1>3, <1>4, <1>5, <3>2
      <3> QED
        BY <3>3
    <2>2. ~(d + 1 < i)
      <3>1. SUFFICES ASSUME d + 1 < i
                     PROVE  FALSE
        OBVIOUS
      <3>2. i \in 2 .. n /\ ~(i <= d + 1) /\ i # 1
        BY <1>2, <3>1
      <3> QED
        BY <1>3, <1>5, <3>2
    <2> QED
      BY <1>2, <2>1, <2>2
  <1> DEFINE c == CHOOSE i \in 1 .. n : Now(i)
  <1>6. c \in 1 .. n /\ Now(c)
    BY <1>4
  <1>7. PlannedRate(file, t) = file[c][2]
    BY DEF PlannedRate, n
  <1> HIDE DEF c, Now
  <1>8. c = d + 1
    BY <1>5, <1>6
  <1> QED
    BY <1>1, <1>2, <1>4, <1>7, <1>8 DEF d, list, n

LEMMA HighestFacts ==
    ASSUME InterceptorAssumption, NEW file \in Schedules
    PROVE  /\ HighestRate(file) \in Nat
           /\ \A i \in 1 .. Len(file) : file[i][2] <= HighestRate(file)
  <1> DEFINE n == Len(file)
             R == {file[i][2] : i \in 1 .. n}
             P == {k \in Nat : \E b \in Nat : \A i \in 1 .. k : file[i][2] <= b}
  <1>1. n \in Nat /\ n >= 2 /\ \A i \in 1 .. n : file[i][2] \in Nat
    BY ScheduleFacts
  <1> HIDE DEF n
  <1>2. 0 \in P
    OBVIOUS
  <1>3. ASSUME NEW k \in 0 .. n - 1, k \in P
        PROVE  k + 1 \in P
    <2>1. PICK b \in Nat : \A i \in 1 .. k : file[i][2] <= b
      BY <1>3
    <2>2. file[k + 1][2] \in Nat
      BY <1>1
    <2> DEFINE c == IF b < file[k + 1][2] THEN file[k + 1][2] ELSE b
    <2>3. c \in Nat /\ b <= c /\ file[k + 1][2] <= c
      BY <2>2
    <2> HIDE DEF c
    <2>4. \A i \in 1 .. k + 1 : file[i][2] <= c
      <3>1. ASSUME NEW i \in 1 .. k + 1
            PROVE  file[i][2] <= c
        <4>1. CASE i = k + 1
          BY <2>3, <4>1
        <4>2. CASE i # k + 1
          <5>1. i \in 1 .. k /\ i \in 1 .. n
            BY <1>1, <4>2
          <5>2. file[i][2] <= b /\ file[i][2] \in Nat
            BY <1>1, <2>1, <5>1
          <5> QED
            BY <2>3, <5>2
        <4> QED
          BY <4>1, <4>2
      <3> QED
        BY <3>1
    <2>5. k + 1 \in Nat
      OBVIOUS
    <2> QED
      BY <2>3, <2>4, <2>5
  <1> HIDE DEF P
  <1>4. n \in P
    <2>1. 0 .. n \subseteq P
      BY <1>1, <1>2, <1>3, UpTo
    <2> QED
      BY <1>1, <2>1
  <1>5. PICK b \in Nat : \A i \in 1 .. n : file[i][2] <= b
    BY <1>4 DEF P
  <1>6. R \subseteq 0 .. b
    BY <1>1, <1>5
  <1>7. R # {} /\ \A i \in 1 .. n : file[i][2] \in R
    <2>1. 1 \in 1 .. n
      BY <1>1
    <2> QED
      BY <2>1
  <1> HIDE DEF R
  <1>8. Max(R) \in R /\ \A y \in R : y <= Max(R)
    BY <1>6, <1>7, MaxExists
  <1>9. HighestRate(file) = Max(R)
    BY DEF HighestRate, R, n
  <1>10. Max(R) \in Nat /\ \A i \in 1 .. n : file[i][2] <= Max(R)
    <2> DEFINE m == Max(R)
    <2>1. m \in R /\ \A y \in R : y <= m
      BY <1>8
    <2> HIDE DEF m
    <2>2. m \in Nat
      BY <1>6, <2>1
    <2>3. \A i \in 1 .. n : file[i][2] <= m
      BY <1>7, <2>1
    <2> QED
      BY <2>2, <2>3 DEF m
  <1> QED
    BY <1>9, <1>10 DEF n

\* In a schedule whose times differ one switch at most falls due in a unit.
LEMMA StrictDue ==
    ASSUME InterceptorAssumption, SchedulesStrict, NEW file \in Schedules,
           NEW t \in Int, NEW n \in Nat
    PROVE  DueBy(Tail(file), t + n) <= DueBy(Tail(file), t) + n
  <1> DEFINE list == Tail(file)
             m == Len(file) - 1
             D(u) == DueBy(list, u)
             P == {k \in Nat : D(t + k) <= D(t) + k}
  <1>1. /\ Len(file) \in Nat /\ Len(file) >= 2 /\ \A i \in 1 .. Len(file) : file[i][1] \in Nat
        /\ list \in Seq(Entries) /\ Len(list) = m /\ Sorted(list)
        /\ \A i \in 1 .. Len(file) - 1 : list[i] = file[i + 1]
    BY ScheduleFacts
  <1>2. m \in Nat /\ m = Len(file) - 1
    BY <1>1
  <1>3. \A i \in 1 .. m - 1 : list[i][1] < list[i + 1][1] /\ list[i][1] \in Nat /\ list[i + 1][1] \in Nat
    <2>1. ASSUME NEW i \in 1 .. m - 1
          PROVE  list[i][1] < list[i + 1][1] /\ list[i][1] \in Nat /\ list[i + 1][1] \in Nat
      <3>1. i \in 1 .. Len(file) - 1 /\ i + 1 \in 1 .. Len(file) - 1 /\ i + 2 \in 2 .. Len(file)
            /\ (i + 1) + 1 = i + 2 /\ (i + 2) - 1 = i + 1 /\ i + 1 \in 1 .. Len(file) /\ i + 2 \in 1 .. Len(file)
        BY <1>1, <1>2
      <3>2. list[i] = file[i + 1] /\ list[i + 1] = file[i + 2]
        BY <1>1, <3>1
      <3>3. file[i + 1][1] < file[i + 2][1]
        BY <3>1 DEF SchedulesStrict
      <3> QED
        BY <1>1, <3>1, <3>2, <3>3
    <2> QED
      BY <2>1
  <1>4. \A u \in Int : D(u) \in 0 .. m /\ \A i \in 1 .. m : list[i][1] <= u <=> i <= D(u)
    BY <1>1, DueFacts
  <1> HIDE DEF list, m, D
  <1>5. \A u \in Int : D(u) \in Int
    BY <1>2, <1>4
  <1>6. \A u \in Int : D(u + 1) <= D(u) + 1
    <2>1. ASSUME NEW u \in Int, ~(D(u + 1) <= D(u) + 1)
          PROVE  FALSE
      <3> DEFINE d == D(u)  e == D(u + 1)
      <3>1. d \in 0 .. m /\ e \in 0 .. m /\ u + 1 \in Int /\ d + 2 <= e
        <4>1. d \in 0 .. m
          BY <1>4
        <4>2. u + 1 \in Int
          OBVIOUS
        <4>3. e \in 0 .. m
          BY <1>4, <4>2
        <4> HIDE DEF d, e
        <4>4. ~(e <= d + 1)
          BY <2>1 DEF d, e
        <4> QED
          BY <1>2, <4>1, <4>2, <4>3, <4>4
      <3>2. \A i \in 1 .. m : list[i][1] <= u <=> i <= d
        BY <1>4
      <3>3. \A i \in 1 .. m : list[i][1] <= u + 1 <=> i <= e
        BY <1>4, <3>1
      <3> HIDE DEF d, e
      <3>4. d + 1 \in 1 .. m - 1 /\ d + 1 \in 1 .. m /\ d + 2 \in 1 .. m /\ (d + 1) + 1 = d + 2
        BY <1>2, <3>1
      <3>5. list[d + 1][1] < list[d + 2][1] /\ list[d + 1][1] \in Nat /\ list[d + 2][1] \in Nat
        BY <1>3, <3>4
      <3>6. ~(list[d + 1][1] <= u)
        BY <3>1, <3>2, <3>4
      <3>7. list[d + 2][1] <= u + 1
        BY <3>1, <3>3, <3>4
      <3> QED
        BY <3>5, <3>6, <3>7
    <2> QED
      BY <2>1
  <1>7. 0 \in P
    <2>1. t + 0 = t /\ D(t) \in Int /\ D(t) + 0 = D(t)
      BY <1>5
    <2> QED
      BY <2>1
  <1>8. ASSUME NEW k \in 0 .. n - 1, k \in P
        PROVE  k + 1 \in P
    <2>1. t + k \in Int /\ (t + k) + 1 = t + (k + 1) /\ t + (k + 1) \in Int
      OBVIOUS
    <2>2. D(t + (k + 1)) <= D(t + k) + 1
      BY <1>6, <2>1
    <2> DEFINE a == D(t)  b == D(t + k)  c == D(t + (k + 1))
    <2>3. a \in Int /\ b \in Int /\ c \in Int
      BY <1>5, <2>1
    <2>4. b <= a + k /\ c <= b + 1
      BY <1>8, <2>2
    <2> HIDE DEF a, b, c
    <2>5. c <= a + (k + 1)
      BY <2>3, <2>4
    <2>6. k + 1 \in Nat
      OBVIOUS
    <2> QED
      BY <2>5, <2>6 DEF a, c
  <1> HIDE DEF P
  <1>9. 0 .. n \subseteq P
    BY <1>7, <1>8, UpTo
  <1>10. n \in P
    BY <1>9
  <1> QED
    BY <1>10 DEF P, D, list

\* What a plan earns is a natural number.
LEMMA PlannedNat ==
    ASSUME InterceptorAssumption, plan \in Plans, NEW l \in Links, Shaped(l), NEW t \in 0 .. MaxTime
    PROVE  Planned(plan[l], t) \in Nat
  <1>1. t \in Nat /\ t \in Int /\ t <= MaxTime /\ MaxTime \in Nat
    BY DEF InterceptorAssumption
  <1>2. CASE plan[l].kind = "rate"
    <2>1. plan[l].rate \in Nat
      BY <1>2, PlanFacts
    <2>2. plan[l].rate * t \in Nat
      BY <1>1, <2>1
    <2> QED
      BY <1>2, <2>2 DEF Planned
  <1>3. CASE plan[l].kind = "schedule"
    <2> DEFINE f == [u \in 1 .. MaxTime |-> PlannedRate(plan[l].file, u)]
    <2>1. plan[l].file \in Schedules
      BY <1>3, PlanFacts DEF ScheduleLike
    <2>2. \A k \in 1 .. t : k \in Int /\ k \in 1 .. MaxTime
      BY <1>1
    <2>3. \A k \in 1 .. t : f[k] \in Nat
      BY <2>1, <2>2, RateOfDue
    <2> HIDE DEF f
    <2>4. Total(f, t) \in Nat
      BY <1>1, <2>3, TotalNat
    <2> QED
      BY <1>3, <2>4 DEF Planned, f
  <1>4. CASE plan[l].kind = "trace"
    <2>1. plan[l].list \in Seq(Entries) /\ Sorted(plan[l].list)
      BY PlanFacts
    <2>2. DueBy(plan[l].list, t) \in 0 .. Len(plan[l].list)
      BY <1>1, <2>1, DueFacts
    <2>3. Credit(plan[l].list, DueBy(plan[l].list, t)) \in Nat
      BY <1>1, <2>1, <2>2, CreditOfDue
    <2> QED
      BY <1>4, <2>3 DEF Planned
  <1>5. plan[l].kind \in {"rate", "schedule", "trace"}
    BY PlanFacts DEF Shaped
  <1> QED
    BY <1>2, <1>3, <1>4, <1>5

\* The clocks of a tick, and the signals it makes up for.
LEMMA TickClocks ==
    ASSUME InterceptorAssumption, IInv, TimerTick, NEW l \in Links
    PROVE  /\ plan' = plan /\ plan \in Plans
           /\ now \in Nat /\ now \in 0 .. MaxTime /\ last_token_update[l] \in Nat
           /\ last_token_update[l] \in 0 .. MaxTime /\ last_token_update[l] < now
           /\ token_count[l] \in Nat /\ total_bytes[l] \in Nat /\ used[l] \in Nat
           /\ missed \in Nat /\ missed' \in Nat
           /\ missed' = missed + (now - last_token_update[l]) - 1
  <1>1. /\ running /\ last_token_update["uplink"] < now /\ plan' = plan
        /\ missed' = missed + now - last_token_update["uplink"] - 1
    BY DEF TimerTick
  <1>2. /\ plan \in Plans /\ now \in 0 .. MaxTime /\ last_token_update[l] \in Nat
        /\ token_count[l] \in Nat /\ total_bytes[l] \in Nat /\ used[l] \in Nat
    BY DEF IInv, Fields
  <1>3. missed \in Nat /\ last_token_update["downlink"] = last_token_update["uplink"]
    BY <1>1 DEF IInv, ClocksInv
  <1>4. last_token_update[l] = last_token_update["uplink"]
    BY <1>3 DEF Links
  <1>5. MaxTime \in Nat
    BY DEF InterceptorAssumption
  <1>6. now \in Nat /\ now <= MaxTime
    BY <1>2, <1>5
  <1> DEFINE t == last_token_update[l]
  <1>7. t \in Nat /\ t < now /\ missed' = missed + now - t - 1
    BY <1>1, <1>2, <1>4
  <1> HIDE DEF t
  <1>8. t \in 0 .. MaxTime /\ missed' = missed + (now - t) - 1 /\ missed' \in Nat
    BY <1>3, <1>5, <1>6, <1>7
  <1> QED
    BY <1>1, <1>2, <1>3, <1>6, <1>7, <1>8 DEF t

LEMMA BehindStep ==
    ASSUME InterceptorAssumption, SchedulesStrict, IInv, TimerTick, NEW l \in Links, BehindInv(l)
    PROVE  BehindInv(l)'
  <1> SUFFICES ASSUME plan[l].kind = "schedule"
               PROVE  DueBy(plan[l].list, last_token_update'[l]) - used'[l] <= missed'
    BY TickClocks DEF BehindInv
  <1> DEFINE old == last_token_update[l]
             file == plan[l].file
             D(t) == DueBy(plan[l].list, t)
  <1>1. /\ now \in Nat /\ old \in Nat /\ old < now /\ used[l] \in Nat /\ plan \in Plans
        /\ missed \in Nat /\ missed' \in Nat /\ missed' = missed + (now - old) - 1
    BY TickClocks
  <1>2. D(old) - used[l] <= missed
    BY DEF BehindInv
  <1>3. file \in Schedules /\ plan[l].list = Tail(file)
    BY <1>1, PlanFacts DEF ScheduleLike
  <1>4. old \in Int /\ now \in Int
    BY <1>1
  <1>5. D(old) \in Nat /\ D(now) \in Nat
    BY <1>3, <1>4, RateOfDue
  <1> DEFINE n == now - old
  <1>6. n \in Nat /\ old + n = now /\ n >= 1 /\ missed' = missed + n - 1
    BY <1>1
  <1> HIDE DEF n
  <1>7. D(now) <= D(old) + n
    <2>1. DueBy(Tail(file), old + n) <= DueBy(Tail(file), old) + n
      BY <1>3, <1>4, <1>6, StrictDue
    <2> QED
      BY <1>3, <1>6, <2>1
  <1>8. CASE Rests(l)
    <2>1. last_token_update'[l] = old /\ used'[l] = used[l] /\ missed <= missed'
      BY <1>1, <1>6, <1>8 DEF Rests
    <2> DEFINE d == D(old)
    <2>2. d \in Nat /\ d - used[l] <= missed
      BY <1>2, <1>5
    <2> HIDE DEF d
    <2>3. d - used'[l] <= missed'
      BY <1>1, <2>1, <2>2
    <2> QED
      BY <2>1, <2>3 DEF d
  <1>9. CASE Ticks(l)
    <2> DEFINE d == D(old)  e == D(now)
    <2>1. last_token_update'[l] = now /\ used'[l] = IF used[l] < e THEN used[l] + 1 ELSE used[l]
      BY <1>9 DEF Ticks, UsedAfter, Switches
    <2>2. d \in Nat /\ e \in Nat /\ e <= d + n /\ d - used[l] <= missed
      BY <1>2, <1>5, <1>7
    <2> HIDE DEF d, e
    <2>3. e - used'[l] <= missed'
      <3>1. CASE used[l] < e
        BY <1>1, <1>6, <2>1, <2>2, <3>1
      <3>2. CASE ~(used[l] < e)
        BY <1>1, <1>6, <2>1, <2>2, <3>2
      <3> QED
        BY <3>1, <3>2
    <2> QED
      BY <2>1, <2>3 DEF e
  <1> QED
    BY <1>8, <1>9, TickOfLink

\* A tick gives a link what its plan earns in the time since the last one, but
\* for a schedule that is behind.
LEMMA EarnedStep ==
    ASSUME InterceptorAssumption, IInv, TimerTick, NEW l \in Links, Shaped(l), Ticks(l),
           BehindInv(l)', OnTime(l)'
    PROVE  Tokens(l) = token_count[l] + (Planned(plan[l], now) - Planned(plan[l], last_token_update[l]))
  <1> DEFINE old == last_token_update[l]
             list == plan[l].list
  <1>1. /\ now \in Nat /\ old \in Nat /\ old < now /\ used[l] \in Nat /\ plan \in Plans
        /\ old \in 0 .. MaxTime /\ now \in 0 .. MaxTime /\ token_count[l] \in Nat
        /\ missed \in Nat /\ missed' \in Nat /\ missed' = missed + (now - old) - 1 /\ plan' = plan
    BY TickClocks
  <1>2. CASE plan[l].kind = "rate"
    <2>1. RateNow(l) = plan[l].rate /\ plan[l].rate \in Nat
      BY <1>2, TokensFacts
    <2>2. Tokens(l) = token_count[l] + (now - old) * RateNow(l)
      BY <1>2 DEF Tokens, RateTokens
    <2> DEFINE r == plan[l].rate
    <2>3. r \in Nat /\ Tokens(l) = token_count[l] + (now - old) * r
      BY <2>1, <2>2
    <2>4. Planned(plan[l], now) = r * now /\ Planned(plan[l], old) = r * old
      BY <1>2 DEF Planned
    <2> HIDE DEF r, old
    <2>5. (now - old) * r = r * now - r * old
      BY <1>1, <2>3
    <2> QED
      BY <2>3, <2>4, <2>5 DEF old
  <1>3. CASE plan[l].kind = "trace"
    <2> DEFINE a == Credit(list, DueBy(list, old))
               b == Credit(list, DueBy(list, now))
    <2>1. used[l] = DueBy(list, old)
      BY <1>3 DEF IInv, PlanInv
    <2>2. Tokens(l) = token_count[l] + b - a
      BY <1>3, <2>1 DEF Tokens, TraceTokens
    <2>3. Planned(plan[l], now) = b /\ Planned(plan[l], old) = a
      BY <1>3 DEF Planned
    <2>4. a \in Nat /\ b \in Nat
      BY <1>1, <1>3, <2>3, PlannedNat
    <2> HIDE DEF a, b
    <2>5. token_count[l] + b - a = token_count[l] + (b - a)
      BY <1>1, <2>4
    <2> QED
      BY <2>2, <2>3, <2>5
  <1>4. CASE plan[l].kind = "schedule"
    <2> DEFINE file == plan[l].file
               f == [u \in 1 .. MaxTime |-> PlannedRate(file, u)]
               D(t) == DueBy(plan[l].list, t)
    <2>1. file \in Schedules /\ plan[l].list = Tail(file)
      BY <1>1, <1>4, PlanFacts DEF ScheduleLike
    <2>2. missed' = 0 /\ now = old + 1
      <3>1. missed' = 0
        BY <1>1, <1>4 DEF OnTime
      <3> HIDE DEF old
      <3> QED
        BY <1>1, <3>1
    <2>3. D(now) - used'[l] <= 0 /\ used'[l] = UsedAfter(l)
      BY <1>1, <1>4, <2>2 DEF BehindInv, Ticks
    <2>4. /\ UsedAfter(l) \in Nat /\ UsedAfter(l) <= D(now)
          /\ RateNow(l) = file[UsedAfter(l) + 1][2] /\ RateNow(l) \in Nat
      BY <1>4, TokensFacts
    <2>5. now \in Int
      BY <1>1
    <2>6. D(now) \in Nat /\ PlannedRate(file, now) = file[D(now) + 1][2]
      BY <2>1, <2>5, RateOfDue
    <2>7. UsedAfter(l) = D(now)
      BY <2>3, <2>4, <2>6
    <2>8. RateNow(l) = PlannedRate(file, now)
      BY <2>4, <2>6, <2>7
    <2>9. Tokens(l) = token_count[l] + (now - old) * RateNow(l)
      BY <1>4 DEF Tokens, RateTokens
    <2>10. f[old + 1] = RateNow(l)
      BY <1>1, <2>2, <2>8
    <2>11. Planned(plan[l], now) = Total(f, old + 1) /\ Planned(plan[l], old) = Total(f, old)
      BY <1>4, <2>2 DEF Planned
    <2> HIDE DEF f
    <2>12. Total(f, old + 1) = Total(f, old) + f[old + 1]
      BY <1>1, TotalUnfolds
    <2>13. Planned(plan[l], old) \in Nat
      BY <1>1, PlannedNat
    <2> DEFINE a == Planned(plan[l], now)  b == Planned(plan[l], old)  r == RateNow(l)
    <2>14. a = b + r /\ b \in Nat /\ r \in Nat
      BY <2>4, <2>10, <2>11, <2>12, <2>13
    <2>15. Tokens(l) = token_count[l] + 1 * r
      <3>1. now - old = 1
        BY <1>1, <2>2
      <3> QED
        BY <2>9, <3>1
    <2> HIDE DEF a, b, r
    <2>16. token_count[l] + 1 * r = token_count[l] + (a - b)
      BY <1>1, <2>14
    <2> QED
      BY <2>15, <2>16 DEF a, b
  <1>5. plan[l].kind \in {"rate", "schedule", "trace"}
    BY <1>1, PlanFacts DEF Shaped
  <1> QED
    BY <1>2, <1>3, <1>4, <1>5

\* However late a tick is, a schedule gives no more than its highest rate.
LEMMA HighestStep ==
    ASSUME InterceptorAssumption, IInv, TimerTick, NEW l \in Links, plan[l].kind = "schedule"
    PROVE  LET h == HighestRate(plan[l].file)
           IN  /\ h \in Nat
               /\ Tokens(l) <= token_count[l] + h * (now - last_token_update[l])
  <1> DEFINE h == HighestRate(plan[l].file)
             n == now - last_token_update[l]
             r == RateNow(l)
  <1>1. /\ n \in Nat /\ token_count[l] \in Nat /\ plan \in Plans
    BY TickClocks
  <1>2. plan[l].file \in Schedules
    BY <1>1, PlanFacts DEF ScheduleLike
  <1>3. r \in Nat /\ r = plan[l].file[UsedAfter(l) + 1][2] /\ UsedAfter(l) + 1 \in 1 .. Len(plan[l].file)
    BY TokensFacts DEF Shaped
  <1>4. h \in Nat /\ r <= h
    BY <1>2, <1>3, HighestFacts
  <1>5. Tokens(l) = token_count[l] + n * r
    BY DEF Tokens, RateTokens
  <1> HIDE DEF h, n, r
  <1>6. n * r <= h * n /\ n * r \in Nat /\ h * n \in Nat
    <2> DEFINE k == h - r
    <2>1. k \in Nat /\ h = r + k
      BY <1>3, <1>4
    <2> HIDE DEF k
    <2>2. h * n = n * r + k * n /\ k * n \in Nat /\ n * r \in Nat
      <3>1. n \in Nat /\ r \in Nat
        BY <1>1, <1>3
      <3>2. k * n \in Nat /\ n * r \in Nat
        BY <2>1, <3>1
      <3>3. (r + k) * n = n * r + k * n
        BY <2>1, <3>1
      <3> QED
        BY <2>1, <3>2, <3>3
    <2> QED
      BY <2>2
  <1> QED
    BY <1>1, <1>4, <1>5, <1>6 DEF h, n

LEMMA CoverStep ==
    ASSUME InterceptorAssumption, IInv, TimerTick, NEW l \in Links, CoverInv(l), BehindInv(l)'
    PROVE  CoverInv(l)'
  <1> DEFINE old == last_token_update[l]
             h == HighestRate(plan[l].file)
             P(t) == Planned(plan[l], t)
             sum == total_bytes[l] + token_count[l]
  <1>1. /\ now \in Nat /\ old \in Nat /\ old < now /\ plan \in Plans /\ plan' = plan
        /\ old \in 0 .. MaxTime /\ now \in 0 .. MaxTime
        /\ total_bytes[l] \in Nat /\ token_count[l] \in Nat
        /\ missed \in Nat /\ missed' \in Nat /\ missed' = missed + (now - old) - 1
    BY TickClocks
  <1>2. OnTime(l)' => OnTime(l)
    <2>1. missed' = 0 => missed = 0
      <3> HIDE DEF old
      <3> QED
        BY <1>1
    <2> QED
      BY <1>1, <2>1 DEF OnTime
  <1>3. /\ Shaped(l) /\ OnTime(l) => sum <= P(old) + plan[l].credit
        /\ plan[l].kind = "schedule" => sum <= h * old
    BY DEF CoverInv
  <1>4. CASE Rests(l)
    <2>1. /\ total_bytes'[l] + token_count'[l] = sum /\ last_token_update'[l] = old
      BY <1>4 DEF Rests
    <2>2. Shaped(l)' = Shaped(l)
      BY <1>1 DEF Shaped
    <2> QED
      BY <1>1, <1>2, <1>3, <2>1, <2>2 DEF CoverInv
  <1>5. CASE Ticks(l) /\ ~Shaped(l)
    BY <1>1, <1>5 DEF CoverInv, Shaped
  <1>6. CASE Ticks(l) /\ Shaped(l)
    <2> DEFINE new == total_bytes'[l] + token_count'[l]
    <2>1. /\ last_token_update'[l] = now /\ total_bytes'[l] = total_bytes[l] + Bytes(Sent(l))
          /\ token_count'[l] = TokensLeft(l)
      BY <1>6 DEF Ticks
    <2>2. /\ TokensLeft(l) \in Nat /\ TokensLeft(l) + Bytes(Sent(l)) <= Tokens(l)
          /\ Bytes(Sent(l)) \in Nat /\ Tokens(l) \in Nat
      BY <1>6, LeftFacts, DrainFacts, TokensFacts
    <2>3. new <= total_bytes[l] + Tokens(l) /\ new \in Nat
      <3> DEFINE a == total_bytes[l]  b == Bytes(Sent(l))  c == TokensLeft(l)  e == Tokens(l)
      <3>1. a \in Nat /\ b \in Nat /\ c \in Nat /\ e \in Nat /\ c + b <= e
        BY <1>1, <2>2
      <3>2. new = (a + b) + c
        BY <2>1
      <3> HIDE DEF new, a, b, c, e
      <3>3. new <= a + e /\ new \in Nat
        BY <3>1, <3>2
      <3> QED
        BY <3>3 DEF a, e
    <2> HIDE DEF new
    <2>4. ASSUME OnTime(l)'
          PROVE  new <= P(now) + plan[l].credit
      <3> DEFINE a == P(old)  b == P(now)  c == plan[l].credit
      <3>1. a \in Nat /\ b \in Nat /\ c \in Nat
        BY <1>1, <1>6, PlannedNat, PlanFacts
      <3>2. Tokens(l) = token_count[l] + (b - a)
        BY <1>6, <2>4, EarnedStep
      <3>3. total_bytes[l] + token_count[l] <= a + c
        BY <1>2, <1>3, <1>6, <2>4
      <3>4. new <= b + c
        <4> DEFINE x == total_bytes[l]  y == token_count[l]
        <4>1. /\ x \in Nat /\ y \in Nat /\ a \in Nat /\ b \in Nat /\ c \in Nat /\ new \in Nat
              /\ x + y <= a + c /\ new <= x + (y + (b - a))
          BY <1>1, <2>3, <3>1, <3>2, <3>3
        <4> HIDE DEF a, b, c, x, y
        <4> QED
          BY <4>1
      <3> HIDE DEF a, b, c
      <3> QED
        BY <3>4 DEF b, c
    <2>5. ASSUME plan[l].kind = "schedule"
          PROVE  new <= h * now
      <3>1. h \in Nat /\ Tokens(l) <= token_count[l] + h * (now - old)
        BY <2>5, HighestStep
      <3>2. total_bytes[l] + token_count[l] <= h * old
        BY <1>3, <2>5
      <3> HIDE DEF h, old
      <3>3. h * (now - old) = h * now - h * old /\ h * now \in Nat /\ h * old \in Nat
        BY <1>1, <3>1
      <3> QED
        BY <1>1, <2>2, <2>3, <3>1, <3>2, <3>3
    <2> QED
      BY <1>1, <2>1, <2>4, <2>5 DEF CoverInv, new
  <1> QED
    BY <1>4, <1>5, <1>6, TickOfLink

LEMMA KeptTotals ==
    ASSUME InterceptorAssumption, IInv, NEW l \in Links, NEW i \in 1 .. Len(Kept(l))
    PROVE  LET q == pkt_queue[l]
               d == Drained(l)
           IN  /\ Total(Sizes(q), d) \in Nat /\ Total(Sizes(Kept(l)), i - 1) \in Nat
               /\ Total(Sizes(q), d + (i - 1)) = Total(Sizes(q), d) + Total(Sizes(Kept(l)), i - 1)
  <1> DEFINE q == pkt_queue[l]
             d == Drained(l)
             k == Kept(l)
             f == Sizes(q)
             g == Sizes(k)
             n == i - 1
  <1>1. /\ q \in Seq(Packet) /\ d \in 0 .. Len(q) /\ k \in Seq(Packet) /\ Len(k) = Len(q) - d
        /\ \A j \in 1 .. Len(q) - d : k[j] = q[d + j]
    BY DrainFacts
  <1>2. /\ Len(q) \in Nat /\ d \in Nat /\ Len(k) \in Nat /\ n \in Nat /\ n <= Len(k)
        /\ \A j \in 1 .. Len(q) : q[j] \in Packet
    BY <1>1, LenProperties, ElementOfSeq
  <1> HIDE DEF q, d, k, n
  <1>3. \A j \in 1 .. Len(q) : f[j] = q[j].size /\ f[j] \in Nat
    BY <1>2 DEF Sizes, Packet
  <1>4. \A j \in 1 .. n : g[j] = f[d + j]
    <2>1. ASSUME NEW j \in 1 .. n
          PROVE  g[j] = f[d + j]
      <3>1. j \in 1 .. Len(k) /\ j \in 1 .. Len(q) - d /\ d + j \in 1 .. Len(q)
        BY <1>1, <1>2
      <3> QED
        BY <1>1, <1>3, <3>1 DEF Sizes
    <2> QED
      BY <2>1
  <1>5. /\ \A j \in 1 .. d : f[j] \in Nat
        /\ \A j \in 1 .. n : d + j \in 1 .. Len(q) /\ f[d + j] \in Nat
    <2>1. /\ \A j \in 1 .. d : j \in 1 .. Len(q)
          /\ \A j \in 1 .. n : d + j \in 1 .. Len(q)
      BY <1>1, <1>2
    <2> QED
      BY <1>3, <2>1
  <1> HIDE DEF f, g
  <1>6. Continues(f, d, g, n)
    BY <1>4, <1>5 DEF Continues
  <1>7. Total(f, d + n) = Total(f, d) + Total(g, n)
    BY <1>2, <1>6, TotalSplit
  <1>8. Total(f, d) \in Nat
    BY <1>2, <1>5, TotalNat
  <1>9. Total(g, n) \in Nat
    BY <1>2, <1>4, <1>5, TotalNat
  <1> QED
    BY <1>7, <1>8, <1>9 DEF f, g, q, k, d, n

\* The packets that are kept wait as before, behind fewer bytes.
LEMMA WaitStep ==
    ASSUME InterceptorAssumption, IInv, TimerTick, NEW l \in Links, WaitInv(l), BehindInv(l)'
    PROVE  WaitInv(l)'
  <1> DEFINE old == last_token_update[l]
             q == pkt_queue[l]
             P(t) == Planned(plan[l], t)
  <1>1. /\ now \in Nat /\ old \in Nat /\ old < now /\ plan \in Plans /\ plan' = plan
        /\ old \in 0 .. MaxTime /\ now \in 0 .. MaxTime /\ token_count[l] \in Nat
        /\ missed \in Nat /\ missed' \in Nat /\ missed' = missed + (now - old) - 1
    BY TickClocks
  <1>2. OnTime(l)' => OnTime(l)
    <2>1. missed' = 0 => missed = 0
      <3> HIDE DEF old
      <3> QED
        BY <1>1
    <2> QED
      BY <1>1, <2>1 DEF OnTime
  <1>3. /\ \A i \in 1 .. Len(q) : q[i].since <= old
        /\ \A i, j \in 1 .. Len(q) : i <= j => q[i].since <= q[j].since
        /\ OnTime(l) => \A i \in 1 .. Len(q) : NothingLost(l, i)
    BY DEF WaitInv
  <1>4. CASE Rests(l)
    <2>1. pkt_queue'[l] = q /\ last_token_update'[l] = old /\ token_count'[l] = token_count[l]
      BY <1>4 DEF Rests
    <2>2. \A i : NothingLost(l, i) => NothingLost(l, i)'
      BY <1>1, <2>1 DEF NothingLost
    <2> QED
      BY <1>2, <2>1, <2>2 DEF WaitInv
  <1>5. CASE Ticks(l) /\ ~Shaped(l)
    <2>1. pkt_queue'[l] = <<>>
      <3>1. Shaped(l)' = Shaped(l)
        BY <1>1 DEF Shaped
      <3>2. QueueInv(l)'
        BY TickQueue
      <3> QED
        BY <1>5, <3>1, <3>2 DEF QueueInv
    <2> QED
      BY <2>1 DEF WaitInv
  <1>6. CASE Ticks(l) /\ Shaped(l)
    <2> DEFINE d == Drained(l)
               k == Kept(l)
               T(i) == Total(Sizes(q), i)
    <2>1. /\ last_token_update'[l] = now /\ pkt_queue'[l] = k /\ token_count'[l] = TokensLeft(l)
      BY <1>6 DEF Ticks
    <2>2. /\ q \in Seq(Packet) /\ d \in 0 .. Len(q) /\ k \in Seq(Packet) /\ Len(k) = Len(q) - d
          /\ \A i \in 1 .. Len(q) - d : k[i] = q[d + i]
          /\ Bytes(Sent(l)) = T(d) /\ Bytes(Sent(l)) \in Nat
      BY DrainFacts
    <2>3. Len(q) \in Nat /\ d \in Nat /\ \A i \in 1 .. Len(q) : q[i] \in Packet
      BY <2>2, LenProperties, ElementOfSeq
    <2>4. \A i \in 1 .. Len(k) : d + i \in 1 .. Len(q) /\ k[i] = q[d + i] /\ k[i] \in Packet
      <3> HIDE DEF d, k, q
      <3> QED
        BY <2>2, <2>3
    <2>5. \A i \in 1 .. Len(k) : k[i].since <= now /\ k[i].since \in Nat
      <3>1. ASSUME NEW i \in 1 .. Len(k)
            PROVE  k[i].since <= now /\ k[i].since \in Nat
        <4>1. k[i].since <= old
          BY <1>3, <2>4
        <4>2. k[i].since \in Nat
          BY <2>4 DEF Packet
        <4> QED
          BY <1>1, <4>1, <4>2
      <3> QED
        BY <3>1
    <2>6. \A i, j \in 1 .. Len(k) : i <= j => k[i].since <= k[j].since
      <3>1. ASSUME NEW i \in 1 .. Len(k), NEW j \in 1 .. Len(k), i <= j
            PROVE  k[i].since <= k[j].since
        <4>1. d + i <= d + j
          BY <2>3, <3>1
        <4>2. d + i \in 1 .. Len(q) /\ d + j \in 1 .. Len(q) /\ k[i] = q[d + i] /\ k[j] = q[d + j]
          BY <2>4
        <4> HIDE DEF d, k, q
        <4> QED
          BY <1>3, <4>1, <4>2
      <3> QED
        BY <3>1
    <2>7. k # <<>> => token_count'[l] < k[1].size
      BY <1>6, <2>1, LeftFacts
    <2>8. ASSUME OnTime(l)', NEW i \in 1 .. Len(k)
          PROVE  NothingLost(l, i)'
      <3> DEFINE a == P(old)  b == P(now)  c == P(k[i].since)  e == k[i].ahead
                 t == Total(Sizes(k), i - 1)  u == T(d + (i - 1))
      <3>1. d + i \in 1 .. Len(q) /\ k[i] = q[d + i] /\ k[i] \in Packet
        BY <2>4
      <3>2. NothingLost(l, d + i)
        BY <1>2, <1>3, <2>8, <3>1
      <3>3. (d + i) - 1 = d + (i - 1)
        BY <2>3
      <3>4. token_count[l] + e - u >= a - c
        BY <3>1, <3>2, <3>3 DEF NothingLost
      <3>5. /\ T(d) \in Nat /\ t \in Nat /\ u = T(d) + t
        BY <2>8, KeptTotals
      <3>6. Tokens(l) = token_count[l] + (b - a) /\ Tokens(l) \in Nat
        BY <1>6, <2>8, EarnedStep, TokensFacts
      <3>7. a \in Nat /\ b \in Nat
        BY <1>1, <1>6, PlannedNat
      <3>8. c \in Nat /\ e \in Nat
        <4>1. k[i].since \in Nat /\ k[i].since <= now /\ MaxTime \in Nat
          BY <2>5 DEF InterceptorAssumption
        <4>2. k[i].since \in 0 .. MaxTime
          BY <1>1, <4>1
        <4>3. c \in Nat
          BY <1>1, <1>6, <4>2, PlannedNat
        <4> QED
          BY <3>1, <4>3 DEF Packet
      <3>9. token_count'[l] = Tokens(l) - T(d)
        <4>1. k # <<>>
          BY <2>2, <2>8, EmptySeq
        <4> QED
          BY <1>6, <2>1, <2>2, <4>1, LeftFacts
      <3>10. NothingLost(l, i)' <=> token_count'[l] + e - t >= b - c
        BY <1>1, <2>1 DEF NothingLost
      <3> DEFINE w == T(d)
      <3> HIDE DEF a, b, c, e, t, u, w
      <3>11. token_count'[l] + e - t >= b - c
        <4> DEFINE x == token_count[l]  y == token_count'[l]
        <4>1. w \in Nat /\ t \in Nat /\ u = w + t
          BY <3>5 DEF w
        <4>2. x \in Nat /\ y = (x + (b - a)) - w /\ x + e - u >= a - c
          BY <1>1, <3>4, <3>6, <3>9 DEF w
        <4> HIDE DEF x, y
        <4>3. y \in Int /\ u \in Int /\ y + w = x + b - a /\ u = w + t
          BY <3>7, <4>1, <4>2
        <4>4. x + e - u >= a - c
          BY <4>2
        <4>5. y + e - t >= b - c
          BY <3>7, <3>8, <4>1, <4>2, <4>3, <4>4
        <4> QED
          BY <4>5 DEF y
      <3> QED
        BY <3>10, <3>11
    <2> QED
      BY <2>1, <2>5, <2>6, <2>7, <2>8 DEF WaitInv
  <1> QED
    BY <1>4, <1>5, <1>6, TickOfLink

\* The packet that a frame becomes in the queue of a link.
Queued(l, size) ==
    [frame |-> frames', size |-> size, since |-> last_token_update[l],
     ahead |-> byte_queue_occupancy[l]]

\* What a frame does to the queue and the bytes of a link.
LEMMA FrameOfLink ==
    ASSUME IInv, NEW k \in Links, NEW size \in FrameSizes, FrameFor(k, size), NEW l \in Links
    PROVE  /\ plan' = plan /\ last_token_update' = last_token_update /\ token_count' = token_count
           /\ used' = used /\ missed' = missed /\ now' = now /\ running' = running
           /\ Shaped(l) => total_bytes'[l] = total_bytes[l]
           /\ \/ pkt_queue'[l] = pkt_queue[l]
              \/ Shaped(l) /\ l = k /\ pkt_queue'[l] = Append(pkt_queue[l], Queued(l, size))
  <1>1. /\ plan' = plan /\ last_token_update' = last_token_update /\ token_count' = token_count
        /\ used' = used /\ missed' = missed /\ now' = now /\ running' = running
    BY DEF FrameFor, tickVars
  <1>2. pkt_queue \in [Links -> Seq(Packet)] /\ total_bytes \in [Links -> Nat]
    BY DEF IInv, Fields
  <1>3. CASE Shaped(k) /\ ~Full(k, size)
    <2>1. total_bytes' = total_bytes /\ pkt_queue' = [pkt_queue EXCEPT ![k] = Append(@, Queued(k, size))]
      BY <1>3 DEF FrameFor, Recv, Enqueue, Queued
    <2> QED
      BY <1>1, <1>2, <1>3, <2>1
  <1>4. CASE Shaped(k) /\ Full(k, size)
    <2>1. total_bytes' = total_bytes /\ pkt_queue' = pkt_queue
      BY <1>4 DEF FrameFor, Recv, Enqueue
    <2> QED
      BY <1>1, <2>1
  <1>5. CASE ~Shaped(k)
    <2>1. total_bytes' = [total_bytes EXCEPT ![k] = @ + size] /\ pkt_queue' = pkt_queue
      BY <1>5 DEF FrameFor, Recv
    <2>2. Shaped(l) => l # k
      BY <1>5
    <2> QED
      BY <1>1, <1>2, <2>1, <2>2
  <1> QED
    BY <1>3, <1>4, <1>5

LEMMA WaitFrame ==
    ASSUME InterceptorAssumption, IInv, NEW k \in Links, NEW size \in FrameSizes, FrameFor(k, size),
           NEW l \in Links, WaitInv(l)
    PROVE  WaitInv(l)'
  <1> DEFINE q == pkt_queue[l]
             old == last_token_update[l]
             n == Len(q)
             p == Queued(l, size)
             r == Append(q, p)
  <1>1. /\ plan' = plan /\ last_token_update' = last_token_update /\ token_count' = token_count
        /\ missed' = missed
    BY FrameOfLink
  <1>2. OnTime(l)' = OnTime(l)
    BY <1>1 DEF OnTime
  <1>3. CASE pkt_queue'[l] = q
    <2>1. \A i : NothingLost(l, i) => NothingLost(l, i)'
      BY <1>1, <1>3 DEF NothingLost
    <2> QED
      BY <1>1, <1>2, <1>3, <2>1 DEF WaitInv
  <1>4. CASE Shaped(l) /\ pkt_queue'[l] = r
    <2>1. /\ q \in Seq(Packet) /\ n \in Nat /\ old \in Nat /\ token_count[l] \in Nat
          /\ byte_queue_occupancy[l] \in Nat /\ byte_queue_occupancy[l] = Bytes(q)
          /\ plan \in Plans /\ old <= now /\ now \in 0 .. MaxTime /\ frames' \in Nat
      <3>1. frames \in Nat /\ frames' = frames + 1
        <4>1. MaxFrames \in Nat
          BY DEF InterceptorAssumption
        <4> QED
          BY <4>1 DEF IInv, Fields, FrameFor, ReadFrame
      <3>2. q \in Seq(Packet)
        BY DEF IInv, Fields
      <3> QED
        BY <3>1, <3>2, LenProperties DEF IInv, Fields, QueueInv, PlanInv
    <2>2. p \in Packet /\ p.since = old /\ p.ahead = Bytes(q)
      <3>1. size \in Nat
        BY DEF InterceptorAssumption
      <3> QED
        BY <2>1, <3>1 DEF Queued, Packet
    <2> HIDE DEF p
    <2>3. Len(r) = n + 1 /\ r[n + 1] = p /\ \A i \in 1 .. n : r[i] = q[i]
      BY <2>1, <2>2, AppendProperties
    <2>4. \A j \in 0 .. n : Total(Sizes(r), j) = Total(Sizes(q), j)
      BY <2>1, <2>2, BytesAppend
    <2>5. /\ \A i \in 1 .. n : q[i].since <= old
          /\ \A i, j \in 1 .. n : i <= j => q[i].since <= q[j].since
          /\ q # <<>> /\ old > q[1].since => token_count[l] < q[1].size
          /\ OnTime(l) => \A i \in 1 .. n : NothingLost(l, i)
      BY DEF WaitInv
    <2> HIDE DEF r, n, old, q
    <2>6. \A i \in 1 .. n + 1 : r[i].since <= old
      <3>1. ASSUME NEW i \in 1 .. n + 1
            PROVE  r[i].since <= old
        <4>1. CASE i = n + 1
          BY <2>1, <2>2, <2>3, <4>1
        <4>2. CASE i # n + 1
          <5>1. i \in 1 .. n
            BY <2>1, <4>2
          <5> QED
            BY <2>3, <2>5, <5>1
        <4> QED
          BY <4>1, <4>2
      <3> QED
        BY <3>1
    <2>7. \A i, j \in 1 .. n + 1 : i <= j => r[i].since <= r[j].since
      <3>1. ASSUME NEW i \in 1 .. n + 1, NEW j \in 1 .. n + 1, i <= j
            PROVE  r[i].since <= r[j].since
        <4>1. CASE j = n + 1
          BY <2>2, <2>3, <2>6, <4>1
        <4>2. CASE j # n + 1
          <5>1. i \in 1 .. n /\ j \in 1 .. n
            BY <2>1, <3>1, <4>2
          <5> QED
            BY <2>3, <2>5, <3>1, <5>1
        <4> QED
          BY <4>1, <4>2
      <3> QED
        BY <3>1
    <2>8. old > r[1].since => token_count[l] < r[1].size
      <3>1. CASE n = 0
        <4>1. r[1] = p
          BY <2>3, <3>1
        <4> QED
          BY <2>1, <2>2, <4>1
      <3>2. CASE n # 0
        <4>1. 1 \in 1 .. n
          BY <2>1, <3>2
        <4>2. q # <<>>
          BY <2>1, <3>2, EmptySeq DEF n
        <4> QED
          BY <2>3, <2>5, <4>1, <4>2
      <3> QED
        BY <3>1, <3>2
    <2>9. ASSUME OnTime(l), NEW i \in 1 .. n + 1
          PROVE  NothingLost(l, i)'
      <3>1. NothingLost(l, i)' <=> token_count[l] + r[i].ahead - Total(Sizes(r), i - 1)
                                       >= Planned(plan[l], old) - Planned(plan[l], r[i].since)
        BY <1>1, <1>4 DEF NothingLost, old
      <3>2. CASE i = n + 1
        <4> DEFINE a == Planned(plan[l], old)  b == Bytes(q)
        <4>1. old \in 0 .. MaxTime
          <5>1. MaxTime \in Nat
            BY DEF InterceptorAssumption
          <5> QED
            BY <2>1, <5>1
        <4>2. a \in Nat
          BY <1>4, <2>1, <4>1, PlannedNat
        <4>3. r[i].ahead = b /\ r[i].since = old /\ b \in Nat
          BY <2>1, <2>2, <2>3, <3>2
        <4>4. Total(Sizes(r), i - 1) = b
          <5>1. i - 1 = n /\ n \in 0 .. n
            BY <2>1, <3>2
          <5>2. Total(Sizes(q), n) = b
            BY DEF Bytes, Sizes, n
          <5> QED
            BY <2>4, <5>1, <5>2
        <4> HIDE DEF a, b
        <4>5. token_count[l] + b - b >= a - a
          BY <2>1, <4>2, <4>3
        <4> QED
          BY <3>1, <4>3, <4>4, <4>5 DEF a
      <3>3. CASE i # n + 1
        <4>1. i \in 1 .. n /\ i - 1 \in 0 .. n
          BY <2>1, <3>3
        <4>2. NothingLost(l, i)
          BY <2>5, <2>9, <4>1
        <4>3. r[i] = q[i] /\ Total(Sizes(r), i - 1) = Total(Sizes(q), i - 1)
          BY <2>3, <2>4, <4>1
        <4> QED
          BY <3>1, <4>2, <4>3 DEF NothingLost, old, q
      <3> QED
        BY <3>2, <3>3
    <2>10. /\ pkt_queue'[l] = r /\ last_token_update'[l] = old /\ token_count'[l] = token_count[l]
      BY <1>1, <1>4 DEF old
    <2> QED
      BY <1>2, <2>3, <2>6, <2>7, <2>8, <2>9, <2>10 DEF WaitInv
  <1> QED
    BY <1>3, <1>4, FrameOfLink

\* Second inductive invariant, on top of the first.
EarnInv == \A l \in Links : CoverInv(l) /\ BehindInv(l) /\ WaitInv(l)

LEMMA InitEarn ==
    ASSUME InterceptorAssumption, SchedulesStrict, Init
    PROVE  EarnInv
  <1> SUFFICES ASSUME NEW l \in Links
               PROVE  CoverInv(l) /\ BehindInv(l) /\ WaitInv(l)
    BY DEF EarnInv
  <1>1. /\ plan \in Plans /\ total_bytes[l] = 0 /\ token_count[l] = plan[l].credit
        /\ last_token_update[l] = 0 /\ used[l] = 0 /\ missed = 0 /\ pkt_queue[l] = <<>>
    BY DEF Init
  <1>2. plan[l].credit \in Nat /\ (plan[l].kind # "trace" => plan[l].credit = 0)
    BY <1>1, PlanFacts
  <1>3. 0 \in 0 .. MaxTime /\ 0 \in Int
    BY DEF InterceptorAssumption
  <1>4. WaitInv(l)
    BY <1>1 DEF WaitInv
  <1>5. CoverInv(l)
    <2>1. ASSUME Shaped(l)
          PROVE  total_bytes[l] + token_count[l] <= Planned(plan[l], last_token_update[l]) + plan[l].credit
      <3> DEFINE a == Planned(plan[l], 0)
      <3>1. a \in Nat
        BY <1>1, <1>3, <2>1, PlannedNat
      <3> HIDE DEF a
      <3>2. 0 + plan[l].credit <= a + plan[l].credit
        BY <1>2, <3>1
      <3> QED
        BY <1>1, <3>2 DEF a
    <2>2. ASSUME plan[l].kind = "schedule"
          PROVE  total_bytes[l] + token_count[l] <= HighestRate(plan[l].file) * last_token_update[l]
      <3>1. plan[l].file \in Schedules
        BY <1>1, <2>2, PlanFacts DEF ScheduleLike
      <3> DEFINE h == HighestRate(plan[l].file)
      <3>2. h \in Nat
        BY <3>1, HighestFacts
      <3> HIDE DEF h
      <3>3. h * 0 = 0
        BY <3>2
      <3>4. total_bytes[l] + token_count[l] = 0
        BY <1>1, <1>2, <2>2
      <3> QED
        BY <1>1, <3>3, <3>4 DEF h
    <2> QED
      BY <2>1, <2>2 DEF CoverInv
  <1>6. BehindInv(l)
    <2> SUFFICES ASSUME plan[l].kind = "schedule"
                 PROVE  DueBy(plan[l].list, 0) - 0 <= 0
      BY <1>1 DEF BehindInv
    <2> DEFINE file == plan[l].file
               d == DueBy(Tail(file), 0)
    <2>1. file \in Schedules /\ plan[l].list = Tail(file)
      BY <1>1, PlanFacts DEF ScheduleLike
    <2>2. /\ Len(file) \in Nat /\ Len(file) >= 2
          /\ \A i \in 1 .. Len(file) : file[i][1] \in Nat
          /\ Tail(file) \in Seq(Entries) /\ Len(Tail(file)) = Len(file) - 1 /\ Sorted(Tail(file))
          /\ \A i \in 1 .. Len(file) - 1 : Tail(file)[i] = file[i + 1]
      BY <2>1, ScheduleFacts
    <2>3. /\ d \in 0 .. Len(Tail(file))
          /\ \A i \in 1 .. Len(Tail(file)) : Tail(file)[i][1] <= 0 <=> i <= d
      BY <1>3, <2>2, DueFacts
    <2>4. 1 \in 1 .. Len(file) - 1 /\ 2 \in 2 .. Len(file) /\ 1 \in 1 .. Len(file) /\ 2 \in 1 .. Len(file)
      BY <2>2
    <2>5. file[2 - 1][1] < file[2][1]
      BY <2>1, <2>4 DEF SchedulesStrict
    <2>6. Tail(file)[1] = file[2]
      <3>1. Tail(file)[1] = file[1 + 1]
        BY <2>2, <2>4
      <3>2. 1 + 1 = 2
        OBVIOUS
      <3> HIDE DEF file
      <3> QED
        BY <3>1, <3>2
    <2>7. file[1][1] \in Nat /\ file[2][1] \in Nat /\ file[1][1] < file[2][1]
      BY <2>2, <2>4, <2>5
    <2>8. ~(1 <= d)
      <3>1. ~(Tail(file)[1][1] <= 0)
        <4> DEFINE x == file[1][1]  y == Tail(file)[1][1]
        <4>1. x \in Nat /\ y \in Nat /\ x < y
          BY <2>6, <2>7
        <4> HIDE DEF x, y
        <4>2. ~(y <= 0)
          BY <4>1
        <4> QED
          BY <4>2 DEF y
      <3>2. 1 \in 1 .. Len(Tail(file))
        BY <2>2, <2>4
      <3> QED
        BY <2>3, <3>1, <3>2
    <2>9. d \in Nat
      BY <2>2, <2>3
    <2> HIDE DEF d
    <2>10. d - 0 <= 0
      BY <2>8, <2>9
    <2> QED
      BY <2>1, <2>10 DEF d
  <1> QED
    BY <1>4, <1>5, <1>6

LEMMA StepEarn ==
    ASSUME InterceptorAssumption, SchedulesStrict, IInv, EarnInv, [Next]_vars
    PROVE  EarnInv'
  <1> SUFFICES ASSUME NEW l \in Links
               PROVE  CoverInv(l)' /\ BehindInv(l)' /\ WaitInv(l)'
    BY DEF EarnInv
  <1>1. CoverInv(l) /\ BehindInv(l) /\ WaitInv(l)
    BY DEF EarnInv
  <1>2. CASE TimerTick
    <2>1. BehindInv(l)'
      BY <1>1, <1>2, BehindStep
    <2> QED
      BY <1>1, <1>2, <2>1, CoverStep, WaitStep
  <1>3. ASSUME NEW k \in Links, NEW size \in FrameSizes, FrameFor(k, size)
        PROVE  CoverInv(l)' /\ BehindInv(l)' /\ WaitInv(l)'
    <2>1. WaitInv(l)'
      BY <1>1, <1>3, WaitFrame
    <2>2. /\ plan' = plan /\ last_token_update' = last_token_update /\ token_count' = token_count
          /\ used' = used /\ missed' = missed
          /\ Shaped(l) => total_bytes'[l] = total_bytes[l]
      BY <1>3, FrameOfLink
    <2>3. BehindInv(l)'
      BY <1>1, <2>2 DEF BehindInv
    <2>4. CoverInv(l)'
      <3>1. CASE Shaped(l)
        BY <1>1, <2>2, <3>1 DEF CoverInv, Shaped, OnTime
      <3>2. CASE ~Shaped(l)
        BY <2>2, <3>2 DEF CoverInv, Shaped
      <3> QED
        BY <3>1, <3>2
    <2> QED
      BY <2>1, <2>3, <2>4
  <1>4. CASE Pass \/ FrameIgnored \/ UNCHANGED vars
    <2>1. /\ plan' = plan /\ last_token_update' = last_token_update /\ token_count' = token_count
          /\ used' = used /\ missed' = missed /\ total_bytes' = total_bytes /\ pkt_queue' = pkt_queue
      BY <1>4 DEF Pass, FrameIgnored, vars, queueVars, tickVars
    <2>2. \A i : NothingLost(l, i) => NothingLost(l, i)'
      BY <2>1 DEF NothingLost
    <2>3. WaitInv(l)'
      BY <1>1, <2>1, <2>2 DEF WaitInv, OnTime
    <2>4. BehindInv(l)'
      BY <1>1, <2>1 DEF BehindInv
    <2>5. CoverInv(l)'
      BY <1>1, <2>1 DEF CoverInv, Shaped, OnTime
    <2> QED
      BY <2>3, <2>4, <2>5
  <1> QED
    BY <1>2, <1>3, <1>4 DEF Next

\* What each link has earned covers what it sent and kept and leaves no token
\* unused that a queued packet waits for; schedules lag by what was missed only.
THEOREM EarnedInvariance == ASSUME SchedulesStrict PROVE Spec => [](IInv /\ EarnInv)
  <1>1. Init => IInv /\ EarnInv
    BY InterceptorAssumption, InitIInv, InitEarn
  <1>2. (IInv /\ EarnInv) /\ [Next]_vars => (IInv /\ EarnInv)'
    BY InterceptorAssumption, StepIInv, StepEarn
  <1> QED
    BY <1>1, <1>2, PTL DEF Spec

\* A shaped link never sends, and never has the tokens to send, more than its
\* rate, its schedule or the lines of its trace file give it up to the last tick;
\* behind a late tick a schedule stays within its highest rate.
THEOREM RateCorrect == ASSUME SchedulesStrict PROVE Spec => []RateNeverExceeded
  <1>1. IInv /\ EarnInv => RateNeverExceeded
    <2> SUFFICES ASSUME IInv, EarnInv, NEW l \in Links, Shaped(l)
                 PROVE  total_bytes[l] + token_count[l] <=
                            CASE plan[l].kind = "trace" -> FileCredit(plan[l].file, last_token_update[l])
                              [] plan[l].kind = "schedule" /\ missed > 0 ->
                                     HighestRate(plan[l].file) * last_token_update[l]
                              [] OTHER -> Planned(plan[l], last_token_update[l])
      BY DEF RateNeverExceeded
    <2> DEFINE old == last_token_update[l]
               sum == total_bytes[l] + token_count[l]
               a == Planned(plan[l], old)
               c == plan[l].credit
    <2>1. /\ plan \in Plans /\ old \in Nat /\ old <= now /\ now \in 0 .. MaxTime /\ missed \in Nat
          /\ total_bytes[l] \in Nat /\ token_count[l] \in Nat
      BY DEF IInv, Fields, PlanInv, ClocksInv
    <2>2. /\ old \in 0 .. MaxTime /\ old \in Int
      <3>1. MaxTime \in Nat
        BY InterceptorAssumption DEF InterceptorAssumption
      <3> HIDE DEF old
      <3> QED
        BY <2>1, <3>1
    <2>3. a \in Nat /\ c \in Nat /\ sum \in Nat
      BY <2>1, <2>2, InterceptorAssumption, PlannedNat, PlanFacts
    <2>4. /\ OnTime(l) => sum <= a + c
          /\ plan[l].kind = "schedule" => sum <= HighestRate(plan[l].file) * old
      BY DEF EarnInv, CoverInv
    <2>5. CASE plan[l].kind = "trace"
      <3>1. c + a <= FileCredit(plan[l].file, old)
        BY <2>1, <2>2, <2>5, InterceptorAssumption, PlanFacts
      <3>2. sum <= a + c
        BY <2>4, <2>5 DEF OnTime
      <3>3. FileCredit(plan[l].file, old) \in Nat
        <4>1. WellFormed(plan[l].file)
          BY <2>1, <2>5, InterceptorAssumption, PlanKinds
             DEF RateLike, ScheduleLike, TraceLike, InterceptorAssumption
        <4>2. plan[l].file \in Seq(Entries) /\ Len(plan[l].file) >= 2
          BY <4>1 DEF WellFormed, Entries
        <4>3. Len(plan[l].file) \in Nat
          BY <4>2, LenProperties
        <4>4. plan[l].file[1] \in Entries
          BY <4>2, <4>3, ElementOfSeq
        <4>5. plan[l].file[1][1] \in Int
          BY <4>4 DEF Entries
        <4> DEFINE t == IF old < plan[l].file[1][1] THEN plan[l].file[1][1] ELSE old
        <4>6. t \in Int
          BY <2>2, <4>5
        <4>7. FileCredit(plan[l].file, old) = CreditBy(plan[l].file, t)
          BY <2>2, <4>1, FileCreditIs
        <4> HIDE DEF t
        <4> QED
          BY <4>2, <4>6, <4>7, CreditsNat
      <3> DEFINE f == FileCredit(plan[l].file, old)
      <3> HIDE DEF f, a, c, sum
      <3>4. sum <= f
        BY <2>3, <3>1, <3>2, <3>3 DEF f
      <3> QED
        BY <2>5, <3>4 DEF f, sum
    <2>6. CASE plan[l].kind # "trace"
      <3>1. c = 0
        BY <2>1, <2>6, InterceptorAssumption, PlanFacts
      <3>2. OnTime(l) => sum <= a
        BY <2>3, <2>4, <3>1
      <3>3. OnTime(l) <=> ~(plan[l].kind = "schedule" /\ missed > 0)
        BY <2>1 DEF OnTime
      <3> QED
        BY <2>4, <2>6, <3>2, <3>3
    <2> QED
      BY <2>5, <2>6
  <1> QED
    BY <1>1, EarnedInvariance, PTL

\* A packet is gone once what the link has earned since it came pays for it and
\* for what was queued ahead of it.
THEOREM DelayCorrect == ASSUME SchedulesStrict PROVE Spec => []DelayBound
  <1>1. IInv /\ EarnInv => DelayBound
    <2> SUFFICES ASSUME IInv, EarnInv, NEW l \in Links, NEW i \in 1 .. Len(pkt_queue[l]),
                        last_token_update[l] > pkt_queue[l][i].since, OnTime(l)
                 PROVE  Planned(plan[l], last_token_update[l]) - Planned(plan[l], pkt_queue[l][i].since)
                            < pkt_queue[l][i].ahead + pkt_queue[l][i].size
      BY DEF DelayBound, OnTime
    <2> DEFINE old == last_token_update[l]
               q == pkt_queue[l]
               a == Planned(plan[l], old)
               b == Planned(plan[l], q[i].since)
               t == Total(Sizes(q), i - 1)
    <2>1. /\ plan \in Plans /\ old \in Nat /\ old <= now /\ now \in 0 .. MaxTime
          /\ token_count[l] \in Nat /\ q \in Seq(Packet) /\ Shaped(l)
      <3>1. q \in Seq(Packet) /\ QueueInv(l)
        BY DEF IInv, Fields
      <3>2. q # <<>>
        BY <3>1, EmptySeq
      <3> QED
        BY <3>1, <3>2 DEF IInv, Fields, PlanInv, QueueInv
    <2>2. /\ Len(q) \in Nat /\ 1 \in 1 .. Len(q) /\ q[1] \in Packet /\ q[i] \in Packet
      BY <2>1, LenProperties, ElementOfSeq
    <2>3. /\ q[1].size \in Nat /\ q[i].size \in Nat /\ q[i].ahead \in Nat
          /\ q[1].since \in Nat /\ q[i].since \in Nat
      BY <2>2 DEF Packet
    <2>4. /\ q[i].since < old /\ q[1].since <= q[i].since
          /\ q # <<>> /\ old > q[1].since => token_count[l] < q[1].size
          /\ NothingLost(l, i)
      <3>1. \A j, k \in 1 .. Len(q) : j <= k => q[j].since <= q[k].since
        BY DEF EarnInv, WaitInv
      <3>2. 1 <= i
        BY <2>2
      <3>3. q[1].since <= q[i].since
        BY <2>2, <3>1, <3>2
      <3> QED
        BY <2>1, <2>3, <3>3 DEF EarnInv, WaitInv
    <2>5. token_count[l] < q[1].size
      <3>1. q # <<>>
        BY <2>1, <2>2, EmptySeq
      <3>2. q[1].since < old
        <4> DEFINE u == q[1].since  v == q[i].since
        <4>1. u \in Nat /\ v \in Nat /\ u <= v /\ v < old
          BY <2>3, <2>4
        <4> HIDE DEF u, v, old
        <4>2. u < old
          BY <2>1, <4>1
        <4> QED
          BY <4>2 DEF u
      <3> QED
        BY <2>4, <3>1, <3>2
    <2>6. token_count[l] + q[i].ahead - t >= a - b
      BY <2>4 DEF NothingLost
    <2>7. a \in Nat /\ b \in Nat
      <3>1. MaxTime \in Nat
        BY InterceptorAssumption DEF InterceptorAssumption
      <3>2. q[i].since \in 0 .. MaxTime /\ old \in 0 .. MaxTime
        <4> DEFINE v == q[i].since
        <4>1. v \in Nat /\ v < old
          BY <2>3, <2>4
        <4> HIDE DEF v, old
        <4>2. v \in 0 .. MaxTime /\ old \in 0 .. MaxTime
          BY <2>1, <3>1, <4>1
        <4> QED
          BY <4>2 DEF v
      <3> QED
        BY <2>1, <3>2, InterceptorAssumption, PlannedNat
    <2>8. t \in Nat /\ (i # 1 => q[1].size <= t)
      <3>1. i - 1 \in 0 .. Len(q)
        BY <2>2
      <3>2. t \in Nat /\ \A j \in 0 .. i - 1 : Total(Sizes(q), j) \in Nat /\ Total(Sizes(q), j) <= t
        BY <2>1, <3>1, BytesFacts
      <3>3. Total(Sizes(q), 0 + 1) = Total(Sizes(q), 0) + Sizes(q)[0 + 1] /\ Total(Sizes(q), 0) = 0
        BY TotalUnfolds
      <3>4. Sizes(q)[1] = q[1].size
        BY <2>2 DEF Sizes
      <3>5. Total(Sizes(q), 1) = q[1].size
        BY <2>3, <3>3, <3>4
      <3>6. i # 1 => 1 \in 0 .. i - 1
        BY <2>2
      <3> QED
        BY <3>2, <3>5, <3>6
    <2> DEFINE x == token_count[l]  s == q[1].size  e == q[i].ahead  z == q[i].size
    <2>9. /\ x \in Nat /\ s \in Nat /\ e \in Nat /\ z \in Nat /\ x < s /\ x + e - t >= a - b
          /\ i = 1 => s = z
      BY <2>1, <2>3, <2>5, <2>6
    <2>10. i # 1 => s <= t
      BY <2>8
    <2>11. i = 1 => t = 0
      BY TotalUnfolds
    <2>12. t \in Nat
      BY <2>8
    <2> HIDE DEF x, s, e, z, t, a, b
    <2>13. a - b < e + z
      <3>1. CASE i = 1
        BY <2>7, <2>9, <2>11, <2>12, <3>1
      <3>2. CASE i # 1
        BY <2>7, <2>9, <2>10, <2>12, <3>2
      <3> QED
        BY <3>1, <3>2
    <2> QED
      BY <2>13 DEF a, b, e, z
  <1> QED
    BY <1>1, EarnedInvariance, PTL

\* The last entry of a trace, which no link has taken while it runs.
LEMMA EndFacts ==
    ASSUME InterceptorAssumption, plan \in Plans, NEW l \in Links, plan[l].kind = "trace", NEW t \in Int
    PROVE  /\ Last(plan[l].list)[1] \in Nat /\ Last(plan[l].list)[1] > 0
           /\ DueBy(plan[l].list, t) = Len(plan[l].list) <=> Last(plan[l].list)[1] <= t
  <1> DEFINE list == plan[l].list
             n == Len(list)
             d == DueBy(list, t)
  <1>1. /\ list \in Seq(Entries) /\ Sorted(list) /\ list # <<>>
        /\ \A i \in 1 .. n : list[i][1] > 0
    BY PlanFacts
  <1>2. n \in Nat /\ n \in 1 .. n
    BY <1>1, EmptySeq
  <1>3. Last(list) = list[n]
    BY DEF Last
  <1>4. d \in 0 .. n /\ \A i \in 1 .. n : list[i][1] <= t <=> i <= d
    BY <1>1, DueFacts
  <1>5. list[n][1] \in Nat /\ list[n][1] > 0
    <2>1. list[n] \in Entries
      BY <1>1, <1>2, ElementOfSeq
    <2> QED
      BY <1>1, <1>2, <2>1 DEF Entries
  <1>6. list[n][1] <= t <=> n <= d
    BY <1>2, <1>4
  <1> HIDE DEF n, d
  <1>7. d = n <=> n <= d
    BY <1>2, <1>4
  <1> QED
    BY <1>3, <1>5, <1>6, <1>7 DEF n, d

LEMMA InitEnd ==
    ASSUME InterceptorAssumption, Init
    PROVE  EndInv
  <1>1. plan \in Plans /\ running /\ \A l \in Links : last_token_update[l] = 0
    BY DEF Init
  <1>2. 0 \in Int
    OBVIOUS
  <1>3. \A l \in Links : plan[l].kind = "trace" => Last(plan[l].list)[1] > 0 /\ Last(plan[l].list)[1] \in Nat
    BY <1>1, <1>2, EndFacts
  <1> QED
    BY <1>1, <1>3 DEF EndInv

LEMMA StepEnd ==
    ASSUME InterceptorAssumption, IInv, EndInv, [Next]_vars
    PROVE  EndInv'
  <1>1. /\ plan \in Plans /\ now \in Nat
    <2>1. MaxTime \in Nat
      BY DEF InterceptorAssumption
    <2> QED
      BY <2>1 DEF IInv, Fields
  <1>2. now \in Int
    BY <1>1
  <1>3. \A l \in Links : plan[l].kind = "trace" => Last(plan[l].list)[1] \in Nat
    BY <1>1, <1>2, EndFacts
  <1>4. CASE TimerTick
    <2>1. plan' = plan /\ now' = now /\ running' = (Ticking = Links)
      BY <1>4 DEF TimerTick
    <2>2. ASSUME NEW l \in Links, plan[l].kind = "trace"
          PROVE  last_token_update'[l] < Last(plan[l].list)[1]
      <3>1. CASE Rests(l)
        BY <2>2, <3>1 DEF Rests, EndInv
      <3>2. CASE Ticks(l) /\ ~Exhausted(l)
        <4>1. DueBy(plan[l].list, now) # Len(plan[l].list)
          BY <2>2, <3>2 DEF Exhausted
        <4>2. ~(Last(plan[l].list)[1] <= now)
          BY <1>1, <1>2, <2>2, <4>1, EndFacts
        <4>3. last_token_update'[l] = now
          BY <3>2 DEF Ticks
        <4> DEFINE x == Last(plan[l].list)[1]
        <4>4. x \in Nat /\ ~(x <= now)
          BY <1>3, <2>2, <4>2
        <4> HIDE DEF x
        <4>5. now < x
          BY <1>1, <4>4
        <4> QED
          BY <4>3, <4>5 DEF x
      <3> QED
        BY <1>4, <3>1, <3>2, TickOfLink
    <2>3. ASSUME ~running'
          PROVE  \E k \in Links : plan[k].kind = "trace" /\ Last(plan[k].list)[1] <= now
      <3>1. Exhausted("uplink") \/ Exhausted("downlink")
        BY <2>1, <2>3 DEF Ticking
      <3>2. PICK k \in Links : Exhausted(k)
        BY <3>1 DEF Links
      <3>3. plan[k].kind = "trace" /\ DueBy(plan[k].list, now) = Len(plan[k].list)
        BY <3>2 DEF Exhausted
      <3>4. Last(plan[k].list)[1] <= now
        BY <1>1, <1>2, <3>3, EndFacts
      <3> QED
        BY <3>3, <3>4
    <2> QED
      BY <2>1, <2>2, <2>3 DEF EndInv
  <1>5. CASE ~TimerTick
    <2>1. /\ plan' = plan /\ last_token_update' = last_token_update /\ running' = running
          /\ now' = now \/ now' = now + 1
      <3>1. CASE Pass
        BY <3>1 DEF Pass, tickVars
      <3>2. ASSUME NEW k \in Links, NEW size \in FrameSizes, FrameFor(k, size)
            PROVE  /\ plan' = plan /\ last_token_update' = last_token_update /\ running' = running
                   /\ now' = now \/ now' = now + 1
        BY <3>2 DEF FrameFor, tickVars
      <3>3. CASE FrameIgnored
        BY <3>3 DEF FrameIgnored, tickVars
      <3>4. CASE UNCHANGED vars
        BY <3>4 DEF vars, tickVars
      <3> QED
        BY <1>5, <3>1, <3>2, <3>3, <3>4 DEF Next
    <2>2. ASSUME NEW k \in Links, plan[k].kind = "trace", Last(plan[k].list)[1] <= now
          PROVE  Last(plan[k].list)[1] <= now'
      <3> DEFINE x == Last(plan[k].list)[1]
      <3>1. x \in Nat /\ x <= now
        BY <1>3, <2>2
      <3> HIDE DEF x
      <3>2. x <= now'
        BY <1>1, <2>1, <3>1
      <3> QED
        BY <3>2 DEF x
    <2> QED
      BY <2>1, <2>2 DEF EndInv
  <1> QED
    BY <1>4, <1>5

\* A stalled schedule is behind by no more switches than signals it missed, and
\* the emulator runs in both directions up to the end of the shorter trace and
\* in neither beyond it.
THEOREM FileFollowed == ASSUME SchedulesStrict PROVE Spec => []FollowsFile
  <1>1. Init => EndInv
    BY InterceptorAssumption, InitEnd
  <1>2. IInv /\ EndInv /\ [Next]_vars => EndInv'
    BY InterceptorAssumption, StepEnd
  <1>3. IInv /\ EarnInv /\ EndInv => FollowsFile
    <2> SUFFICES ASSUME IInv, EarnInv, EndInv
                 PROVE  BehindSchedule /\ EndsWithTrace
      BY DEF FollowsFile
    <2>1. BehindSchedule
      BY DEF EarnInv, BehindInv, BehindSchedule
    <2>2. EndsWithTrace
      BY DEF EndInv, EndsWithTrace
    <2> QED
      BY <2>1, <2>2
  <1> QED
    BY <1>1, <1>2, <1>3, EarnedInvariance, PTL DEF Spec
=============================================================================
