---------------------------- MODULE NativeProofs ----------------------------
(***************************************************************************)
(* Proofs about the native programs beside the Android applications.       *)
(*                                                                         *)
(* PortStreams, for any number of connections and of packets, any room in  *)
(* the sockets, and any number of starts of the client: every socket of a  *)
(* client that is started once gets a stream, and client and server wait   *)
(* for each other only if a hello was lost.                                *)
(*                                                                         *)
(* LatencyTools, for any length of a second, any intervals, slots and      *)
(* sizes of the ring and of the socket: sums and averages are those of the *)
(* samples taken, and both schedules are kept.                             *)
(***************************************************************************)
EXTENDS PortStreams, LatencyTools, FiniteSetTheorems, FunctionTheorems, NaturalsInduction, TLAPS

-----------------------------------------------------------------------------
(* Lemmas about the constants and about sequences.                         *)

LEMMA Constants ==
    /\ NumConns \in Nat \ {0} /\ Room \in Nat \ {0} /\ MaxStarts \in Nat \ {0}
    /\ NumPackets \in Nat
    /\ IsFiniteSet(Conns) /\ Cardinality(Conns) = NumConns
  <1>1. NumConns - 1 \in Int /\ 0 \in Int /\ ~(0 > NumConns - 1) /\ NumConns - 1 - 0 + 1 = NumConns
    BY PortsAssumption
  <1>2. IsFiniteSet(Conns) /\ Cardinality(Conns) = NumConns
    BY <1>1, FS_Interval DEF Conns
  <1> QED
    BY <1>2, PortsAssumption

\* A hello that goes from the head of one queue to the end of another.
LEMMA Moved ==
    ASSUME NEW S, NEW s \in Seq(S), NEW t \in Seq(S), t # <<>>
    PROVE  Append(s, Head(t)) \o Tail(t) = s \o t
  OBVIOUS

\* A hello that is added to the second of two queues.
LEMMA AppendedSecond ==
    ASSUME NEW S, NEW s \in Seq(S), NEW t \in Seq(S), NEW x \in S
    PROVE  /\ s \o Append(t, x) \in Seq(S)
           /\ Len(s \o Append(t, x)) = Len(s \o t) + 1
           /\ \A k \in 1 .. Len(s \o t) : (s \o Append(t, x))[k] = (s \o t)[k]
           /\ (s \o Append(t, x))[Len(s \o t) + 1] = x
  OBVIOUS

\* A sequence without repetitions as long as its elements are many has them all.
LEMMA AllNoted ==
    ASSUME NEW s \in Seq(Conns), Len(s) = NumConns,
           \A j, k \in 1 .. Len(s) : j # k => s[j] # s[k]
    PROVE  ToSet(s) = Conns
  <1>1. s \in Injection(1 .. NumConns, Conns)
    BY Fun_IsInj, Constants
  <1>2. IsFiniteSet(1 .. NumConns) /\ Cardinality(1 .. NumConns) = NumConns
    <2>1. 1 \in Int /\ NumConns \in Int /\ ~(1 > NumConns) /\ NumConns - 1 + 1 = NumConns
      BY Constants
    <2> QED
      BY <2>1, FS_Interval
  <1>3. s \in Surjection(1 .. NumConns, Conns)
    BY <1>1, <1>2, Constants, FS_Injection
  <1> QED
    BY <1>3, Constants DEF ToSet, Surjection

-----------------------------------------------------------------------------
(* The inductive invariant.                                                *)

Early == server \in {"down", "hello"}

\* What the server has noted, and where client and server are.
Phases ==
    /\ server = "down" => inbox = <<>> /\ srcAddr = <<>>
    /\ server = "hello" => Len(srcAddr) < NumConns
    /\ server = "send" => Len(srcAddr) = NumConns
    /\ client \in {"open", "select", "sweep"} => datagram_count <= NumPackets

\* Before the server sends, the client has nothing to read but errors: it gets
\* past select() with an error only, and then ends with it.
NothingToRead ==
    Early =>
        /\ \A c \in Conns : arrived[c] = 0
        /\ client = "open" => master = 0 .. i - 1
        /\ client = "select" => master = Conns
        /\ client = "sweep" => \E c \in refused : c >= i

\* The hellos that were neither refused nor lost are with the server.
HellosCounted ==
    Early /\ client \in {"open", "select"} /\ ~helloLost =>
        Cardinality(master \ refused) <= Len(srcAddr) + Len(inbox)

\* The hellos with the server, noted or not.
Hellos == srcAddr \o inbox

\* A client that is started once says hello once on each socket.
HellosOnce ==
    Early /\ starts = 1 =>
        /\ \A j, k \in 1 .. Len(Hellos) : j # k => Hellos[j] # Hellos[k]
        /\ client = "open" => \A k \in 1 .. Len(Hellos) : Hellos[k] < i

IInv == TypeOK /\ Phases /\ NothingToRead /\ HellosCounted /\ HellosOnce /\ StreamsForAll

LEMMA InitIInv == Init => IInv
  <1> SUFFICES ASSUME Init PROVE IInv
    OBVIOUS
  <1>1. TypeOK
    <2>1. 0 \in Conns /\ 0 \in 0 .. Room /\ 0 \in 0 .. NumPackets + 1 /\ 1 \in 1 .. MaxStarts
      BY Constants DEF Conns
    <2>2. /\ inbox \in Seq(Conns) /\ srcAddr \in Seq(Conns) /\ Len(srcAddr) <= NumConns
          /\ arrived \in [Conns -> 0 .. Room]
      BY <2>1, Constants DEF Init
    <2>3. {lossy, helloLost} \subseteq BOOLEAN
      BY DEF Init
    <2> QED
      BY <2>1, <2>2, <2>3 DEF Init, TypeOK
  <1>2. Phases /\ StreamsForAll /\ NothingToRead
    BY Constants DEF Init, Phases, StreamsForAll, NothingToRead, Early
  <1>3. HellosCounted
    BY FS_EmptySet DEF Init, HellosCounted
  <1>4. HellosOnce
    BY DEF Init, HellosOnce, Hellos
  <1> QED
    BY <1>1, <1>2, <1>3, <1>4 DEF IInv

-----------------------------------------------------------------------------
(* Every action preserves the invariant.                                   *)

\* What a datagram of the client does to its surroundings.
LEMMA SendTypes ==
    ASSUME TypeOK, NEW c \in Conns, NEW ack \in BOOLEAN, Send(c, ack)
    PROVE  inbox' \in Seq(Conns) /\ refused' \in SUBSET Conns /\ helloLost' \in BOOLEAN
  <1>1. inbox \in Seq(Conns) /\ Append(inbox, c) \in Seq(Conns)
        /\ refused \in SUBSET Conns /\ helloLost \in BOOLEAN
    BY DEF TypeOK
  <1>2. inbox' \in {inbox, Append(inbox, c)} /\ refused' \in {refused, refused \union {c}}
    BY DEF Send
  <1>3. helloLost' = helloLost \/ helloLost' = (helloLost \/ ~ack)
    BY Zenon DEF Send
  <1>4. helloLost' \in BOOLEAN
    BY <1>1, <1>3
  <1> QED
    BY <1>1, <1>2, <1>4

LEMMA OpenIInv == IInv /\ Open => IInv'
  <1> SUFFICES ASSUME IInv, OpenSocket PROVE IInv'
    BY DEF Open, UdpOpen, CrossOpen, SrttOpen
  <1> USE DEF OpenSocket, IInv, serverVars
  <1>1. i \in Conns /\ i \in Nat /\ client = "open" /\ Send(i, FALSE)
    <2>1. i \in Conns
      BY DEF TypeOK
    <2>2. i \in Nat
      BY <2>1 DEF Conns
    <2> QED
      BY <2>1, <2>2
  <1>2. TypeOK'
    <2>1. i' \in Conns
      BY <1>1, Constants DEF Conns
    <2>2. inbox' \in Seq(Conns) /\ refused' \in SUBSET Conns /\ helloLost' \in BOOLEAN
      BY <1>1, SendTypes
    <2>3. master' \in SUBSET Conns
      BY <1>1 DEF TypeOK
    <2> QED
      BY <2>1, <2>2, <2>3 DEF TypeOK
  <1>3. Phases'
    BY DEF Phases, Send, Serving
  <1>4. StreamsForAll'
    BY DEF StreamsForAll
  <1>5. NothingToRead'
    <2> SUFFICES ASSUME Early PROVE NothingToRead'
      BY DEF NothingToRead, Early
    <2>1. arrived' = arrived /\ master' = 0 .. i /\ i' \in Nat
      BY <1>1 DEF NothingToRead
    <2>2. CASE i + 1 < NumConns
      BY <1>1, <2>1, <2>2 DEF NothingToRead
    <2>3. CASE ~(i + 1 < NumConns)
      <3>1. i = NumConns - 1
        BY <1>1, <2>3, Constants DEF Conns
      <3> QED
        BY <1>1, <2>1, <2>3, <3>1 DEF NothingToRead, Conns
    <2> QED
      BY <2>2, <2>3
  <1>6. HellosCounted'
    <2> SUFFICES ASSUME Early, ~helloLost' PROVE HellosCounted'
      BY DEF HellosCounted, Early
    <2> DEFINE n == Cardinality(master \ refused)
    <2>1. IsFiniteSet(master \ refused) /\ n \in Nat
      BY Constants, FS_Subset, FS_CardinalityType DEF TypeOK
    <2>2. ~helloLost
      BY <1>1 DEF Send, TypeOK
    <2>3. n <= Len(srcAddr) + Len(inbox)
      BY <1>1, <2>2 DEF HellosCounted
    <2>4. Len(srcAddr) \in Nat /\ Len(inbox) \in Nat /\ srcAddr' = srcAddr
      BY DEF TypeOK
    <2>5. CASE ~Serving
      <3>1. (master \ refused)' \in SUBSET (master \ refused) /\ inbox' = inbox
        BY <1>1, <2>5 DEF Send
      <3>2. Cardinality((master \ refused)') <= n /\ Cardinality((master \ refused)') \in Nat
        BY <2>1, <3>1, FS_Subset, FS_CardinalityType
      <3> HIDE DEF n
      <3>3. Cardinality((master \ refused)') <= Len(srcAddr) + Len(inbox)
        BY <2>1, <2>3, <2>4, <3>2
      <3> QED
        BY <2>4, <3>1, <3>3 DEF HellosCounted
    <2>6. CASE Serving
      <3>1. refused' = refused /\ inbox' = Append(inbox, i)
        BY <1>1, <2>2, <2>6 DEF Send
      <3>2. (master \ refused)' \in SUBSET ((master \ refused) \union {i})
        BY <3>1
      <3>3. /\ IsFiniteSet((master \ refused) \union {i})
            /\ Cardinality((master \ refused) \union {i}) \in {n, n + 1}
        BY <2>1, FS_AddElement
      <3>4. /\ Cardinality((master \ refused)') <= Cardinality((master \ refused) \union {i})
            /\ Cardinality((master \ refused)') \in Nat
        BY <3>2, <3>3, FS_Subset, FS_CardinalityType
      <3>5. Len(inbox') = Len(inbox) + 1
        BY <3>1 DEF TypeOK
      <3> DEFINE m == Cardinality((master \ refused) \union {i})
                 l == Cardinality((master \ refused)')
      <3> HIDE DEF n, m, l
      <3>6. l <= Len(srcAddr) + Len(inbox')
        <4>1. m \in {n, n + 1} /\ l <= m /\ l \in Nat
          BY <3>3, <3>4 DEF m, l
        <4> QED
          BY <2>1, <2>3, <2>4, <3>5, <4>1
      <3> QED
        BY <2>4, <3>6 DEF HellosCounted, l
    <2> QED
      BY <2>5, <2>6
  <1>7. HellosOnce'
    <2> SUFFICES ASSUME Early, starts = 1 PROVE HellosOnce'
      BY DEF HellosOnce, Early
    <2>1. /\ \A j, k \in 1 .. Len(Hellos) : j # k => Hellos[j] # Hellos[k]
          /\ \A k \in 1 .. Len(Hellos) : Hellos[k] < i
      BY <1>1 DEF HellosOnce
    <2>2. client' = "open" => i' = i + 1
      BY <1>1
    <2>3. Hellos \in Seq(Conns) /\ Len(Hellos) \in Nat
          /\ \A k \in 1 .. Len(Hellos) : Hellos[k] \in Int
      <3>1. Hellos \in Seq(Conns)
        BY DEF Hellos, TypeOK
      <3> HIDE DEF Hellos
      <3>2. \A k \in 1 .. Len(Hellos) : Hellos[k] \in Conns
        BY <3>1
      <3> QED
        BY <3>1, <3>2 DEF Conns
    <2>4. CASE inbox' = inbox
      <3>1. Hellos' = Hellos
        BY <2>4 DEF Hellos
      <3> QED
        BY <1>1, <2>1, <2>2, <2>3, <3>1 DEF HellosOnce
    <2>5. CASE inbox' = Append(inbox, i)
      <3>1. /\ Len(Hellos') = Len(Hellos) + 1 /\ Hellos'[Len(Hellos) + 1] = i
            /\ \A k \in 1 .. Len(Hellos) : Hellos'[k] = Hellos[k]
        BY <1>1, <2>5, AppendedSecond DEF Hellos, TypeOK
      <3> DEFINE h == Len(Hellos)
      <3>2. \A k \in 1 .. h + 1 : k = h + 1 \/ k \in 1 .. h
        BY <2>3
      <3> HIDE DEF h
      <3> QED
        BY <1>1, <2>1, <2>2, <2>3, <3>1, <3>2 DEF HellosOnce, h
    <2> QED
      BY <1>1, <2>4, <2>5 DEF Send
  <1> QED
    BY <1>2, <1>3, <1>4, <1>5, <1>6, <1>7

LEMMA SelectIInv == IInv /\ Select => IInv'
  <1> SUFFICES ASSUME IInv, Select PROVE IInv'
    OBVIOUS
  <1> USE DEF Select, IInv, serverVars
  <1>1. TypeOK'
    <2>1. 0 \in Conns
      BY Constants DEF Conns
    <2> QED
      BY <2>1 DEF TypeOK
  <1>2. Phases' /\ StreamsForAll' /\ HellosCounted'
    BY DEF Phases, StreamsForAll, HellosCounted
  <1>3. NothingToRead'
    <2> SUFFICES ASSUME Early PROVE NothingToRead'
      BY DEF NothingToRead, Early
    <2>1. PICK c \in Conns : c \in refused
      BY DEF NothingToRead, Ready, TypeOK
    <2>2. c >= 0
      BY DEF Conns
    <2> QED
      BY <2>1, <2>2 DEF NothingToRead
  <1>4. HellosOnce'
    BY DEF HellosOnce, Hellos, Early
  <1> QED
    BY <1>1, <1>2, <1>3, <1>4

\* Without anything to read no datagram is sent: the client goes on to the
\* socket with the error.
LEMMA SweepIInv == IInv /\ Sweep => IInv'
  <1> SUFFICES ASSUME IInv, NEW echoes \in BOOLEAN, NEW limit \in BOOLEAN, Read(echoes, limit)
               PROVE  IInv'
    BY DEF Sweep, UdpSweep, CrossSweep, SrttSweep
  <1> USE DEF IInv, serverVars
  <1>1. /\ client = "sweep" /\ i \in Conns
        /\ UNCHANGED <<program, lossy, server, srcAddr, turn, master, starts>>
    BY DEF Read, TypeOK
  <1>2. i' \in Conns /\ client' \in {"sweep", "select", "done", "failed"}
    <2>1. i + 1 < NumConns => i + 1 \in Conns
      BY <1>1, Constants DEF Conns
    <2>2. 0 \in Conns
      BY Constants DEF Conns
    <2> QED
      BY <1>1, <2>1, <2>2 DEF Read, Onwards
  <1>3. /\ datagram_count' \in 0 .. NumPackets + 1
        /\ client' \in {"sweep", "select"} => datagram_count' <= NumPackets
    <2>1. datagram_count \in 0 .. NumPackets + 1 /\ datagram_count <= NumPackets
      BY <1>1 DEF TypeOK, Phases
    <2>2. datagram_count' \in {datagram_count, datagram_count + 1}
      BY DEF Read
    <2>3. client' \in {"sweep", "select"} =>
              datagram_count' = datagram_count \/ ~(datagram_count' > NumPackets)
      BY DEF Read, Beyond
    <2> QED
      BY <2>1, <2>2, <2>3, Constants
  <1>4. TypeOK'
    <2>1. inbox' \in Seq(Conns) /\ refused' \in SUBSET Conns /\ helloLost' \in BOOLEAN
      <3>1. Send(i, TRUE) \/ UNCHANGED <<refused, inbox, helloLost>>
        BY DEF Read
      <3> QED
        BY <1>1, <3>1, SendTypes DEF TypeOK
    <2>2. arrived' \in [Conns -> 0 .. Room]
      <3>1. arrived \in [Conns -> 0 .. Room]
        BY DEF TypeOK
      <3>2. CASE arrived' = arrived
        BY <3>1, <3>2
      <3>3. CASE arrived' = [arrived EXCEPT ![i] = @ - 1] /\ arrived[i] > 0
        BY <1>1, <3>1, <3>3, Constants
      <3> QED
        BY <3>2, <3>3 DEF Read, Swept
    <2> QED
      BY <1>1, <1>2, <1>3, <2>1, <2>2 DEF TypeOK
  <1>5. StreamsForAll'
    BY <1>1 DEF StreamsForAll
  <1>6. CASE ~Early
    BY <1>1, <1>2, <1>3, <1>4, <1>5, <1>6
       DEF Phases, NothingToRead, HellosCounted, HellosOnce, Early
  <1>7. CASE Early
    <2>1. /\ UNCHANGED <<arrived, refused, inbox, helloLost>>
          /\ \/ client' = "failed"
             \/ i \notin refused /\ Onwards
      <3>1. ~Swept(i)
        BY <1>1, <1>7 DEF Swept, NothingToRead
      <3> QED
        BY <3>1 DEF Read
    <2>2. \/ client' = "failed"
          \/ client' = "sweep" /\ i' = i + 1 /\ \E c \in refused : c >= i + 1
      <3> SUFFICES ASSUME i \notin refused, Onwards
                   PROVE  client' = "sweep" /\ i' = i + 1 /\ \E c \in refused : c >= i + 1
        BY <2>1
      <3>1. PICK c \in refused : c >= i
        BY <1>1, <1>7 DEF NothingToRead
      <3>2. c \in Conns
        BY DEF TypeOK
      <3>3. c >= i + 1 /\ i + 1 < NumConns
        BY <1>1, <3>1, <3>2, Constants DEF Conns
      <3> QED
        BY <3>3 DEF Onwards
    <2>3. NothingToRead'
      BY <1>1, <1>7, <2>1, <2>2 DEF NothingToRead
    <2>4. Phases'
      BY <1>1, <1>2, <1>3, <2>1 DEF Phases
    <2>5. HellosCounted' /\ HellosOnce'
      BY <1>1, <1>7, <2>1, <2>2 DEF HellosCounted, HellosOnce, Hellos, Early
    <2> QED
      BY <1>4, <1>5, <2>3, <2>4, <2>5
  <1> QED
    BY <1>6, <1>7

\* A second start loses what the first one left in the sockets.
LEMMA RestartIInv == IInv /\ Restart => IInv'
  <1> SUFFICES ASSUME IInv, Restart PROVE IInv'
    OBVIOUS
  <1> USE DEF Restart, IInv, serverVars
  <1>1. TypeOK'
    <2>1. 0 \in Conns /\ 0 \in 0 .. Room /\ 0 \in 0 .. NumPackets + 1
      BY Constants DEF Conns
    <2>2. starts' \in 1 .. MaxStarts
      BY Constants DEF TypeOK
    <2>3. arrived' \in [Conns -> 0 .. Room]
      BY <2>1
    <2> QED
      BY <2>1, <2>2, <2>3 DEF TypeOK
  <1>2. starts' # 1
    BY DEF TypeOK
  <1>3. Phases'
    BY Constants DEF Phases
  <1>4. NothingToRead'
    BY DEF NothingToRead
  <1>5. HellosCounted'
    <2>1. (master \ refused)' = {} /\ Len(srcAddr) \in Nat /\ Len(inbox) \in Nat
      BY DEF TypeOK
    <2> QED
      BY <2>1, FS_EmptySet DEF HellosCounted
  <1>6. HellosOnce' /\ StreamsForAll'
    BY <1>2 DEF HellosOnce, StreamsForAll
  <1> QED
    BY <1>1, <1>3, <1>4, <1>5, <1>6

LEMMA ServeIInv == IInv /\ Serve => IInv'
  <1> SUFFICES ASSUME IInv, Bind \/ TakeHello PROVE IInv'
    BY DEF Serve, UdpBind, CrossBind, SrttBind
  <1> USE DEF IInv, clientVars
  <1>1. CASE Bind
    <2> USE <1>1 DEF Bind
    <2>1. TypeOK'
      BY DEF TypeOK
    <2>2. Phases' /\ NothingToRead' /\ HellosCounted'
      BY FS_EmptySet, Constants DEF Phases, NothingToRead, HellosCounted, Early
    <2>3. HellosOnce' /\ StreamsForAll'
      BY DEF HellosOnce, StreamsForAll, Hellos, Early
    <2> QED
      BY <2>1, <2>2, <2>3
  <1>2. CASE TakeHello
    <2> USE <1>2
    <2>1. /\ server = "hello" /\ Len(srcAddr) < NumConns /\ inbox # <<>>
          /\ srcAddr' = Append(srcAddr, Head(inbox)) /\ inbox' = Tail(inbox)
          /\ srcAddr \in Seq(Conns) /\ inbox \in Seq(Conns)
          /\ UNCHANGED <<program, lossy, turn, client, i, master, datagram_count, starts,
                         arrived, refused, helloLost>>
      BY DEF TakeHello, Noted, Phases, TypeOK
    <2>2. /\ srcAddr' \in Seq(Conns) /\ inbox' \in Seq(Conns)
          /\ Len(srcAddr') = Len(srcAddr) + 1 /\ Len(inbox') = Len(inbox) - 1
          /\ Len(srcAddr) \in Nat /\ Len(inbox) \in Nat
      BY <2>1
    <2>3. /\ server' = IF Len(srcAddr') = NumConns THEN "send" ELSE "hello"
          /\ Len(srcAddr') <= NumConns
      BY <2>1, <2>2, Constants DEF TakeHello, EnoughHellos
    <2>4. TypeOK'
      BY <2>1, <2>2, <2>3 DEF TypeOK
    <2>5. Phases'
      BY <2>1, <2>2, <2>3, Constants DEF Phases
    <2>6. NothingToRead' /\ HellosCounted'
      BY <2>1, <2>2, <2>3 DEF NothingToRead, HellosCounted, Early
    <2>7. Hellos' = Hellos
      BY <2>1, Moved DEF Hellos
    <2>8. HellosOnce'
      BY <2>1, <2>7 DEF HellosOnce, Early
    <2>9. StreamsForAll'
      <3> SUFFICES ASSUME server' = "send", starts = 1 PROVE ToSet(srcAddr') = Conns
        BY <2>1 DEF StreamsForAll
      <3>1. Len(srcAddr') = NumConns
        BY <2>3
      <3>2. \A k \in 1 .. Len(srcAddr') : k \in 1 .. Len(Hellos) /\ srcAddr'[k] = Hellos[k]
        <4>1. Hellos = srcAddr' \o inbox'
          BY <2>7 DEF Hellos
        <4> QED
          BY <2>2, <4>1
      <3>3. \A j, k \in 1 .. Len(Hellos) : j # k => Hellos[j] # Hellos[k]
        BY <2>1 DEF HellosOnce, Early
      <3>4. \A j, k \in 1 .. Len(srcAddr') : j # k => srcAddr'[j] # srcAddr'[k]
        BY <3>2, <3>3
      <3> QED
        BY <2>2, <3>1, <3>4, AllNoted
    <2> QED
      BY <2>4, <2>5, <2>6, <2>8, <2>9
  <1> QED
    BY <1>1, <1>2

LEMMA ReceiverThreadIInv == IInv /\ ReceiverThread => IInv'
  <1> SUFFICES ASSUME IInv, ReceiverThread PROVE IInv'
    OBVIOUS
  <1> USE DEF ReceiverThread, IInv, clientVars
  <1>1. TypeOK'
    BY DEF TypeOK
  <1>2. Phases' /\ NothingToRead' /\ HellosCounted' /\ HellosOnce' /\ StreamsForAll'
    BY DEF Phases, NothingToRead, HellosCounted, HellosOnce, StreamsForAll, Early
  <1> QED
    BY <1>1, <1>2

LEMMA StreamIInv ==
    ASSUME IInv, NEW c \in Conns, NEW arrives \in BOOLEAN, Stream(c, arrives)
    PROVE  IInv'
  <1> USE DEF IInv, clientVars
  <1>1. SendTo(c, arrives)
    BY DEF Stream, UdpSend, CrossSend, SrttSend
  <1>2. TypeOK'
    <2>1. turn' \in Conns
      BY <1>1, Constants DEF SendTo, TypeOK, Conns
    <2>2. arrived' \in [Conns -> 0 .. Room]
      <3>1. arrived \in [Conns -> 0 .. Room]
        BY DEF TypeOK
      <3>2. CASE arrived' = arrived
        BY <3>1, <3>2
      <3>3. CASE arrived' = [arrived EXCEPT ![c] = @ + 1] /\ arrived[c] < Room
        BY <3>1, <3>3, Constants
      <3> QED
        BY <1>1, <3>2, <3>3 DEF SendTo
    <2> QED
      BY <1>1, <2>1, <2>2 DEF SendTo, TypeOK
  <1>3. Phases' /\ NothingToRead' /\ HellosCounted' /\ HellosOnce' /\ StreamsForAll'
    BY <1>1 DEF SendTo, Phases, NothingToRead, HellosCounted, HellosOnce, StreamsForAll, Early
  <1> QED
    BY <1>2, <1>3

LEMMA NextIInv == IInv /\ [Next]_vars => IInv'
  <1> SUFFICES ASSUME IInv, [Next]_vars PROVE IInv'
    OBVIOUS
  <1>1. CASE UNCHANGED vars
    <2> USE <1>1 DEF vars, serverVars, clientVars, IInv
    <2>1. TypeOK' /\ Phases' /\ NothingToRead' /\ HellosCounted' /\ StreamsForAll'
      BY DEF TypeOK, Phases, NothingToRead, HellosCounted, StreamsForAll, Early
    <2>2. HellosOnce'
      BY DEF HellosOnce, Hellos, Early
    <2> QED
      BY <2>1, <2>2
  <1> QED
    BY <1>1, OpenIInv, SelectIInv, SweepIInv, RestartIInv, ServeIInv, ReceiverThreadIInv, StreamIInv
       DEF Next

\* The inductive invariant is an invariant of the specification.
THEOREM Invariance == Spec => []IInv
  BY InitIInv, NextIInv, PTL DEF Spec

-----------------------------------------------------------------------------
(* What follows from it.                                                   *)

\* The variables keep their types, and when the server begins to send to a
\* client that was started once it has noted the address of every socket.
THEOREM SetUpCorrect == Spec => []StreamsSetUp
  <1>1. IInv => StreamsSetUp
    BY DEF IInv, StreamsSetUp
  <1> QED
    BY <1>1, Invariance, PTL

\* Client and server wait for each other only if the network lost a hello,
\* however often the client was killed and started again.
THEOREM WaitsExplained == Spec => []WaitNeedsLoss
  <1>1. IInv => WaitNeedsLoss
    <2> SUFFICES ASSUME IInv, server = "hello", inbox = <<>>, client = "select",
                        \A c \in master : ~Ready(c), ~helloLost
                 PROVE  FALSE
      BY DEF WaitNeedsLoss
    <2> USE DEF IInv
    <2>1. master = Conns /\ Len(srcAddr) < NumConns /\ Len(srcAddr) \in Nat
      BY DEF NothingToRead, Phases, Early, TypeOK
    <2>2. master \ refused = Conns
      BY <2>1 DEF Ready
    <2>3. NumConns <= Len(srcAddr) + Len(inbox)
      BY <2>2, Constants DEF HellosCounted, Early
    <2> QED
      BY <2>1, <2>3, Constants
  <1> QED
    BY <1>1, Invariance, PTL

-----------------------------------------------------------------------------
(* Arithmetic of the clock, of the schedules and of the ring.              *)

LEMMA ToolsConstants ==
    /\ Second \in Nat \ {0} /\ MinRepeat \in Nat \ {0} /\ NumLatencies \in Nat \ {0}
    /\ SocketRoom \in Nat \ {0} /\ Slot \in Nat \ {0} /\ MaxPackets \in Nat \ {0}
    /\ Repeats \subseteq Nat /\ End \in Nat /\ Starts \subseteq 0 .. End
  BY ToolsAssumption

LEMMA Divided ==
    ASSUME NEW x \in Nat, NEW d \in Nat \ {0}
    PROVE  /\ x \div d \in Nat /\ x % d \in 0 .. d - 1
           /\ x = d * (x \div d) + (x % d)
  OBVIOUS

\* A product that is larger has a larger factor.
LEMMA LargerFactor ==
    ASSUME NEW d \in Nat \ {0}, NEW p \in Int, NEW q \in Int, d * p < d * q + d
    PROVE  p <= q
  <1> SUFFICES ASSUME ~(p <= q) PROVE FALSE
    OBVIOUS
  <1> DEFINE r == p - (q + 1)
  <1>1. r \in Nat /\ p = (q + 1) + r
    OBVIOUS
  <1> HIDE DEF r
  <1>2. d * p = d * q + d + d * r /\ d * r \in Nat
    BY <1>1
  <1>3. d * q \in Int
    OBVIOUS
  <1> QED
    BY <1>2, <1>3

\* Quotient and remainder are the only numbers of their kind.
LEMMA DividedOnce ==
    ASSUME NEW d \in Nat \ {0}, NEW q \in Nat, NEW r \in 0 .. d - 1
    PROVE  (d * q + r) \div d = q /\ (d * q + r) % d = r
  <1> DEFINE x == d * q + r
             p == x \div d
             s == x % d
  <1>1. x \in Nat
    OBVIOUS
  <1>2. p \in Nat /\ s \in 0 .. d - 1 /\ x = d * p + s
    BY <1>1, Divided
  <1> HIDE DEF p, s
  <1>3. d * p \in Int /\ d * q \in Int
    BY <1>2
  <1>4. p <= q
    <2>1. d * p < d * q + d
      BY <1>2, <1>3
    <2> QED
      BY <1>2, <2>1, LargerFactor
  <1>5. q <= p
    <2>1. d * q < d * p + d
      BY <1>2, <1>3
    <2> QED
      BY <1>2, <2>1, LargerFactor
  <1>6. p = q
    BY <1>2, <1>4, <1>5
  <1>7. s = r
    BY <1>2, <1>3, <1>6
  <1> QED
    BY <1>6, <1>7 DEF p, s

\* The microseconds of a later time carry into its seconds.
LEMMA LaterTime ==
    ASSUME NEW t \in Nat, repeatMs \in Nat
    PROVE  Later(Time(t)) = Time(t + repeatMs) /\ Time(t) \in [sec : Nat, usec : 0 .. Second - 1]
  <1> DEFINE s == t \div Second
             u == t % Second
             p == (u + repeatMs) \div Second
             w == (u + repeatMs) % Second
  <1>1. Second \in Nat \ {0}
    BY ToolsConstants
  <1>2. s \in Nat /\ u \in 0 .. Second - 1 /\ t = Second * s + u
    BY <1>1, Divided
  <1>3. u + repeatMs \in Nat
    BY <1>1, <1>2
  <1>4. p \in Nat /\ w \in 0 .. Second - 1 /\ u + repeatMs = Second * p + w
    BY <1>1, <1>3, Divided
  <1>5. Time(t) = [sec |-> s, usec |-> u]
    BY DEF Time
  <1>6. Later(Time(t)) = [sec |-> s + p, usec |-> w]
    BY <1>5 DEF Later
  <1> HIDE DEF s, u, p, w
  <1>7. t + repeatMs = Second * (s + p) + w
    <2>1. Second * (s + p) = Second * s + Second * p
      BY <1>1, <1>2, <1>4
    <2>2. Second * s \in Int /\ Second * p \in Int
      BY <1>1, <1>2, <1>4
    <2> QED
      BY <1>1, <1>2, <1>4, <2>1, <2>2
  <1>8. s + p \in Nat
    BY <1>2, <1>4
  <1>9. (t + repeatMs) \div Second = s + p /\ (t + repeatMs) % Second = w
    BY <1>1, <1>4, <1>7, <1>8, DividedOnce
  <1> QED
    BY <1>2, <1>5, <1>6, <1>9 DEF Time

\* A time is due at itself and at no time before.
LEMMA DueTimes ==
    ASSUME NEW t \in Nat, NEW d \in Nat, nextTx = Time(d)
    PROVE  Due(Time(d)) /\ (Due(Time(t)) => t >= d)
  <1> DEFINE s == t \div Second
             u == t % Second
             p == d \div Second
             w == d % Second
  <1>1. Second \in Nat \ {0}
    BY ToolsConstants
  <1>2. /\ s \in Nat /\ u \in 0 .. Second - 1 /\ t = Second * s + u
        /\ p \in Nat /\ w \in 0 .. Second - 1 /\ d = Second * p + w
    BY <1>1, Divided
  <1>3. /\ Due(Time(t)) <=> s >= p /\ u >= w
        /\ Due(Time(d)) <=> p >= p /\ w >= w
    BY DEF Due, Time
  <1> HIDE DEF s, u, p, w
  <1>4. s >= p => Second * s >= Second * p
    BY <1>1, <1>2
  <1>5. Second * s \in Int /\ Second * p \in Int
    BY <1>1, <1>2
  <1> QED
    BY <1>1, <1>2, <1>3, <1>4, <1>5

\* The multiples of d from one of them up to c.
LEMMA Multiples ==
    ASSUME NEW d \in Nat \ {0}, NEW q \in Nat, NEW n \in Nat, NEW c \in Nat,
           c < d * q + d * n, n > 0 => d * q + d * (n - 1) <= c
    PROVE  Cardinality({t \in d * q .. c : t % d = 0}) = n
  <1> DEFINE S == {t \in d * q .. c : t % d = 0}
             g == [m \in 1 .. n |-> d * (q + m - 1)]
  <1>1. ASSUME NEW m \in 1 .. n
        PROVE  g[m] \in S
    <2> DEFINE k == q + m - 1
               rest == n - m
    <2>1. k \in Nat /\ m - 1 \in Nat /\ rest \in Nat /\ n - 1 = (m - 1) + rest /\ k = q + (m - 1)
      OBVIOUS
    <2>2. g[m] = d * k
      OBVIOUS
    <2>3. d * k % d = 0
      <3>1. d * k = d * k + 0 /\ 0 \in 0 .. d - 1
        OBVIOUS
      <3> HIDE DEF k
      <3> QED
        BY <2>1, <3>1, DividedOnce
    <2> HIDE DEF k, rest
    <2>4. /\ d * k = d * q + d * (m - 1) /\ d * (m - 1) \in Nat /\ d * q \in Nat
          /\ d * (n - 1) = d * (m - 1) + d * rest /\ d * rest \in Nat
      BY <2>1
    <2>5. d * k \in Nat /\ d * q <= d * k /\ d * k <= c
      BY <2>1, <2>4
    <2> HIDE DEF g
    <2> QED
      BY <2>2, <2>3, <2>5
  <1>2. ASSUME NEW m \in 1 .. n, NEW j \in 1 .. n, g[m] = g[j]
        PROVE  m = j
    <2>1. d * (q + m - 1) = d * (q + j - 1) /\ d * (q + m - 1) \in Int /\ d * (q + j - 1) \in Int
      BY <1>2
    <2>2. q + m - 1 <= q + j - 1 /\ q + j - 1 <= q + m - 1
      <3> DEFINE a == q + m - 1
                 b == q + j - 1
      <3>1. a \in Int /\ b \in Int
        OBVIOUS
      <3>2. d * a < d * b + d /\ d * b < d * a + d
        BY <2>1
      <3> HIDE DEF a, b
      <3>3. a <= b /\ b <= a
        BY <3>1, <3>2, LargerFactor
      <3> QED
        BY <3>3 DEF a, b
    <2> QED
      BY <2>2
  <1>3. ASSUME NEW t \in S
        PROVE  \E m \in 1 .. n : g[m] = t
    <2> DEFINE k == t \div d
    <2>1. t \in Nat /\ d * q <= t /\ t <= c /\ t % d = 0
      BY <1>3
    <2>2. k \in Nat /\ t = d * k
      BY <2>1, Divided
    <2> HIDE DEF k
    <2>3. q <= k
      <3>1. d * q < d * k + d
        BY <2>1, <2>2
      <3> QED
        BY <2>2, <3>1, LargerFactor
    <2>4. k + 1 <= q + n
      <3>1. d * (k + 1) = d * k + d /\ d * (q + n) = d * q + d * n
        BY <2>2
      <3>2. d * k \in Int /\ d * q \in Int /\ d * n \in Int
        BY <2>2
      <3>3. d * (k + 1) < d * (q + n) + d
        BY <2>1, <2>2, <3>1, <3>2
      <3> QED
        BY <2>2, <3>3, LargerFactor
    <2> DEFINE m == k - q + 1
    <2>5. m \in 1 .. n /\ q + m - 1 = k
      BY <2>2, <2>3, <2>4
    <2> HIDE DEF m
    <2>6. g[m] = t
      BY <2>2, <2>5
    <2> QED
      BY <2>5, <2>6
  <1>4. g \in Bijection(1 .. n, S)
    <2> HIDE DEF S
    <2>1. g \in [1 .. n -> S]
      BY <1>1
    <2> HIDE DEF g
    <2> QED
      BY <1>2, <1>3, <2>1, Fun_IsBij
  <1> HIDE DEF S, g
  <1>5. IsFiniteSet(1 .. n) /\ Cardinality(1 .. n) = n
    <2>1. 1 \in Int /\ n \in Int /\ (IF 1 > n THEN 0 ELSE n - 1 + 1) = n
      OBVIOUS
    <2> QED
      BY <2>1, FS_Interval
  <1>6. Cardinality(S) = n
    <2>1. ExistsBijection(1 .. n, S)
      BY <1>4, Zenon DEF ExistsBijection
    <2> QED
      BY <1>5, <2>1, FS_Bijection
  <1> QED
    BY <1>6 DEF S

-----------------------------------------------------------------------------
(* Sums.                                                                   *)

LEMMA LeastNumber ==
    ASSUME NEW T, T \subseteq Nat, T # {}
    PROVE  \E x \in T : \A y \in T : x <= y
  <1>1. PICK x \in T : \A y \in T : ~(<<y, x>> \in OpToRel(<, Nat))
    BY NatLessThanWellFounded, WFMin, Zenon
  <1>2. \A y \in T : ~(y < x)
    BY <1>1 DEF OpToRel
  <1> QED
    BY <1>2

\* A set of natural numbers that contains 0, and n + 1 with each n below N,
\* contains all numbers up to N.
LEMMA UpTo ==
    ASSUME NEW N \in Nat, NEW P, 0 \in P, \A n \in 0 .. N - 1 : n \in P => n + 1 \in P
    PROVE  0 .. N \subseteq P
  <1> DEFINE T == {n \in Nat : n <= N /\ n \notin P}
  <1>1. CASE T # {}
    <2>1. PICK m \in T : \A y \in T : m <= y
      BY <1>1, LeastNumber
    <2>2. m # 0 /\ m - 1 \in 0 .. N - 1 /\ m - 1 \notin T
      BY <2>1
    <2>3. m - 1 \in P
      BY <2>2
    <2>4. m - 1 + 1 \in P
      BY <2>2, <2>3
    <2> QED
      BY <2>1, <2>4
  <1> QED
    BY <1>1

\* g gives the sums of f up to n.
Sums(f, n, g) == g = [k \in 0 .. n |-> IF k = 0 THEN 0 ELSE g[k - 1] + f[k]]

LEMMA SumsExist ==
    ASSUME NEW f, NEW n \in Nat
    PROVE  \E g : Sums(f, n, g)
  <1> DEFINE P == {m \in Nat : \E g : Sums(f, m, g)}
  <1>1. 0 \in P
    <2>1. Sums(f, 0, [k \in 0 .. 0 |-> 0])
      BY DEF Sums
    <2> QED
      BY <2>1
  <1>2. ASSUME NEW m \in 0 .. n - 1, m \in P
        PROVE  m + 1 \in P
    <2>1. PICK g : Sums(f, m, g)
      BY <1>2
    <2> DEFINE h == [k \in 0 .. m + 1 |-> IF k = m + 1 THEN g[m] + f[m + 1] ELSE g[k]]
    <2>2. ASSUME NEW k \in 0 .. m + 1
          PROVE  h[k] = IF k = 0 THEN 0 ELSE h[k - 1] + f[k]
      <3>1. CASE k = m + 1
        BY <3>1
      <3>2. CASE k # m + 1
        <4>1. k \in 0 .. m /\ (k # 0 => k - 1 \in 0 .. m)
          BY <3>2
        <4>2. g[k] = IF k = 0 THEN 0 ELSE g[k - 1] + f[k]
          BY <2>1, <4>1 DEF Sums
        <4>3. h[k] = g[k] /\ (k # 0 => h[k - 1] = g[k - 1])
          BY <3>2, <4>1
        <4> HIDE DEF h
        <4> QED
          BY <4>2, <4>3
      <3> QED
        BY <3>1, <3>2
    <2>3. h = [k \in 0 .. m + 1 |-> h[k]]
      OBVIOUS
    <2> HIDE DEF h
    <2>4. Sums(f, m + 1, h)
      BY <2>2, <2>3 DEF Sums
    <2> QED
      BY <2>4
  <1> HIDE DEF P
  <1>3. 0 .. n \subseteq P
    BY <1>1, <1>2, UpTo
  <1> QED
    BY <1>3 DEF P

LEMMA SumsUnique ==
    ASSUME NEW f, NEW m \in Nat, NEW n \in Nat, m <= n, NEW g, NEW h, Sums(f, m, g), Sums(f, n, h)
    PROVE  g[m] = h[m]
  <1> DEFINE P == {k \in Nat : g[k] = h[k]}
  <1>1. 0 \in P
    BY DEF Sums
  <1>2. ASSUME NEW k \in 0 .. m - 1, k \in P
        PROVE  k + 1 \in P
    <2>1. k + 1 \in 0 .. m /\ k + 1 \in 0 .. n /\ k + 1 # 0 /\ k + 1 - 1 = k
      OBVIOUS
    <2>2. g[k + 1] = g[k] + f[k + 1] /\ h[k + 1] = h[k] + f[k + 1]
      BY <2>1 DEF Sums
    <2> QED
      BY <1>2, <2>2
  <1> HIDE DEF P
  <1>3. 0 .. m \subseteq P
    BY <1>1, <1>2, UpTo
  <1> QED
    BY <1>3 DEF P

LEMMA PartialSumUnfolds ==
    ASSUME NEW f
    PROVE  /\ PartialSum(f, 0) = 0
           /\ \A n \in Nat : PartialSum(f, n + 1) = PartialSum(f, n) + f[n + 1]
  <1> DEFINE F(n) == CHOOSE g : Sums(f, n, g)
             H == [n \in Nat |-> F(n)[n]]
             AllSums(h) == h = [k \in Nat |-> IF k = 0 THEN 0 ELSE h[k - 1] + f[k]]
             S == CHOOSE h : AllSums(h)
  <1>1. \A n \in Nat : Sums(f, n, F(n))
    BY SumsExist
  <1> HIDE DEF F
  <1>2. ASSUME NEW k \in Nat
        PROVE  H[k] = IF k = 0 THEN 0 ELSE H[k - 1] + f[k]
    <2>1. F(k)[k] = IF k = 0 THEN 0 ELSE F(k)[k - 1] + f[k]
      BY <1>1 DEF Sums
    <2>2. ASSUME k # 0
          PROVE  F(k)[k - 1] = F(k - 1)[k - 1]
      <3>1. k - 1 \in Nat /\ k - 1 <= k
        BY <2>2
      <3> QED
        BY <1>1, <3>1, SumsUnique
    <2>3. k # 0 => k - 1 \in Nat
      OBVIOUS
    <2> QED
      BY <2>1, <2>2, <2>3
  <1>3. H = [k \in Nat |-> H[k]]
    OBVIOUS
  <1> HIDE DEF H
  <1>4. AllSums(H)
    BY <1>2, <1>3
  <1>5. AllSums(S)
    BY <1>4
  <1>6. \A n : PartialSum(f, n) = S[n]
    BY DEF PartialSum
  <1> HIDE DEF S
  <1>7. S[0] = 0 /\ \A n \in Nat : S[n + 1] = S[n] + f[n + 1]
    BY <1>5
  <1> QED
    BY <1>6, <1>7

\* h holds m elements of f, those after the first a.
IsPart(f, h, a, m) ==
    /\ \A k \in 1 .. a + m : f[k] \in Nat
    /\ \A k \in 1 .. m : h[k] = f[a + k]

LEMMA PartialSums ==
    ASSUME NEW f, NEW h, NEW a \in Nat, NEW m \in Nat, IsPart(f, h, a, m)
    PROVE  /\ PartialSum(f, a) \in Nat /\ PartialSum(h, m) \in Nat
           /\ PartialSum(f, a + m) = PartialSum(f, a) + PartialSum(h, m)
  <1> DEFINE P == {k \in Nat : PartialSum(f, k) \in Nat}
             Q == {k \in Nat : /\ PartialSum(h, k) \in Nat
                               /\ PartialSum(f, a + k) = PartialSum(f, a) + PartialSum(h, k)}
  <1>1. 0 \in P
    BY PartialSumUnfolds
  <1>2. ASSUME NEW k \in 0 .. a - 1, k \in P
        PROVE  k + 1 \in P
    <2>1. PartialSum(f, k + 1) = PartialSum(f, k) + f[k + 1] /\ k + 1 \in 1 .. a + m
      BY PartialSumUnfolds
    <2>2. f[k + 1] \in Nat
      BY <2>1 DEF IsPart
    <2> QED
      BY <1>2, <2>1, <2>2
  <1> HIDE DEF P
  <1>3. 0 .. a \subseteq P
    BY <1>1, <1>2, UpTo
  <1>4. a \in P
    BY <1>3
  <1>5. PartialSum(f, a) \in Nat
    BY <1>4 DEF P
  <1>6. 0 \in Q
    BY <1>5, PartialSumUnfolds
  <1>7. ASSUME NEW k \in 0 .. m - 1, k \in Q
        PROVE  k + 1 \in Q
    <2>1. k \in Nat /\ a + k \in Nat /\ (a + k) + 1 = a + (k + 1)
      OBVIOUS
    <2>2. /\ PartialSum(f, a + (k + 1)) = PartialSum(f, a + k) + f[a + (k + 1)]
          /\ PartialSum(h, k + 1) = PartialSum(h, k) + h[k + 1]
      BY <2>1, PartialSumUnfolds
    <2>3. a + (k + 1) \in 1 .. a + m /\ k + 1 \in 1 .. m
      OBVIOUS
    <2>4. h[k + 1] = f[a + (k + 1)] /\ f[a + (k + 1)] \in Nat
      BY <2>3 DEF IsPart
    <2>5. /\ PartialSum(h, k) \in Nat
          /\ PartialSum(f, a + k) = PartialSum(f, a) + PartialSum(h, k)
      BY <1>7
    <2> QED
      BY <1>5, <2>2, <2>4, <2>5
  <1> HIDE DEF Q
  <1>8. 0 .. m \subseteq Q
    BY <1>6, <1>7, UpTo
  <1>9. m \in Q
    BY <1>8
  <1> QED
    BY <1>5, <1>9 DEF Q

\* One more element.
LEMMA SumOfOneMore ==
    ASSUME NEW s \in Seq(Nat), NEW x \in Nat
    PROVE  /\ \A k \in 0 .. Len(s) : PartialSum(Append(s, x), k) = PartialSum(s, k)
           /\ Sum(s) \in Nat /\ Sum(Append(s, x)) = Sum(s) + x
  <1> DEFINE more == Append(s, x)
             n    == Len(s)
  <1>1. n \in Nat /\ Len(more) = n + 1 /\ more[n + 1] = x
    OBVIOUS
  <1>2. \A k \in 1 .. n : s[k] \in Nat /\ more[k] = s[k]
    OBVIOUS
  <1> HIDE DEF more, n
  <1>3. ASSUME NEW k \in 0 .. n
        PROVE  PartialSum(more, k) = PartialSum(s, k) /\ PartialSum(s, k) \in Nat
    <2>1. k \in Nat /\ 0 \in Nat
      BY <1>1
    <2>2. IsPart(s, more, 0, k)
      BY <1>1, <1>2 DEF IsPart
    <2>3. /\ PartialSum(s, 0) \in Nat /\ PartialSum(more, k) \in Nat
          /\ PartialSum(s, 0 + k) = PartialSum(s, 0) + PartialSum(more, k)
      BY <2>1, <2>2, PartialSums
    <2>4. PartialSum(s, 0) = 0
      BY PartialSumUnfolds
    <2>5. 0 + k = k
      BY <2>1
    <2> QED
      BY <2>3, <2>4, <2>5
  <1>4. PartialSum(more, n + 1) = PartialSum(more, n) + x
    BY <1>1, PartialSumUnfolds
  <1>5. n \in 0 .. n
    BY <1>1
  <1> QED
    BY <1>1, <1>3, <1>4, <1>5 DEF Sum, n, more

\* All but the first a elements.
LEMMA SumOfRest ==
    ASSUME NEW s \in Seq(Nat), NEW a \in 0 .. Len(s)
    PROVE  /\ Sum(SubSeq(s, a + 1, Len(s))) \in Nat
           /\ Sum(SubSeq(s, a + 1, Len(s))) = Sum(s) - PartialSum(s, a)
  <1> DEFINE h == SubSeq(s, a + 1, Len(s))
             m == Len(s) - a
  <1>1. a \in Nat /\ m \in Nat /\ a + m = Len(s) /\ Len(h) = m
    OBVIOUS
  <1>2. \A k \in 1 .. a + m : s[k] \in Nat
    OBVIOUS
  <1>3. \A k \in 1 .. m : h[k] = s[a + k]
    OBVIOUS
  <1>9. IsPart(s, h, a, m)
    BY <1>2, <1>3 DEF IsPart
  <1> HIDE DEF h, m
  <1>4. /\ PartialSum(s, a) \in Nat /\ PartialSum(h, m) \in Nat
        /\ PartialSum(s, a + m) = PartialSum(s, a) + PartialSum(h, m)
    BY <1>1, <1>9, PartialSums
  <1>5. Sum(h) = PartialSum(h, m) /\ Sum(s) = PartialSum(s, a + m)
    BY <1>1 DEF Sum
  <1> QED
    BY <1>4, <1>5 DEF h

-----------------------------------------------------------------------------
(* The inductive invariant of LatencyTools.                                *)

\* Each program leaves the other's variables alone, and nothing is sent before the start.
ToolPhases ==
    /\ method = "stamping" => sender = "done"
    /\ method = "native" => tool = "bailed"
    /\ sender \in {"options", "start"} => transmitted = 0 /\ ~looked
    /\ tool \in {"options", "configure", "setup"} => sent = 0

\* What waits has arrived.
Waiting ==
    /\ \A k \in 1 .. Len(waiting) : waiting[k] <= now
    /\ regular <= others

\* When the datagram after those transmitted is due.
DueTime == start + repeatMs * transmitted

\* nextTx is the time of the datagram to be sent or, before it is advanced, of
\* the one just sent; a process that has read the clock at each tick is never
\* past the time of the next.
SendInv ==
    sender \in Running =>
        /\ nextTx = Time(IF sender = "advance" THEN DueTime - repeatMs ELSE DueTime)
        /\ sender = "advance" => transmitted > 0
        /\ ~starved => IF looked THEN now < DueTime ELSE now <= DueTime

\* How many samples have been taken off the ring.
Replaced == IF Len(measured) > NumLatencies THEN Len(measured) - NumLatencies ELSE 0

\* The ring holds the last samples, each at its number modulo the size, and zeros
\* where there has not been one.
RingInv ==
    /\ measured \in Seq(0 .. End)
    /\ inDEX = Len(measured) % NumLatencies
    /\ \A k \in 1 .. Len(measured) : k > Replaced => latencies[(k - 1) % NumLatencies] = measured[k]
    /\ \A j \in 0 .. NumLatencies - 1 : j >= Len(measured) => latencies[j] = 0
    /\ totalUsec = Sum(measured)
    /\ rollingAverage = Sum(measured) - PartialSum(measured, Replaced)

FirstMark == ((start + 1) \div Slot) * Slot

\* The next packet is due as many slots after the first mark as packets were sent,
\* and the last one sent was due.
MarkInv ==
    /\ tool \in {"wake", "select"} =>
         next = FirstMark + Slot * sent /\ (sent > 0 => next - Slot <= now)
    /\ tool = "select" => calledAt < next /\ (sent > 0 => next - Slot <= calledAt)

ToolsInv ==
    ToolsTypeOK /\ ToolPhases /\ Waiting /\ SendInv /\ RingInv /\ MarkInv /\ HardwareOrBail

LEMMA InitToolsInv == ToolsInit => ToolsInv
  <1> SUFFICES ASSUME ToolsInit PROVE ToolsInv
    OBVIOUS
  <1> USE ToolsConstants
  <1>1. /\ method \in {"native", "stamping"} /\ start \in 0 .. End /\ now = start
        /\ sender = (IF method = "native" THEN "options" ELSE "done")
        /\ tool = (IF method = "stamping" THEN "options" ELSE "bailed")
        /\ repeatMs = MinRepeat /\ keepRunning = TRUE /\ transmitted = 0
        /\ looked = FALSE /\ starved = FALSE /\ waiting = <<>> /\ measured = <<>>
        /\ totalUsec = 0 /\ inDEX = 0 /\ rollingAverage = 0
        /\ wanted = {} /\ configured = FALSE
        /\ next = 0 /\ calledAt = 0 /\ regular = 0 /\ errors = 0 /\ sent = 0 /\ others = 0
    BY DEF ToolsInit
  <1>2. latencies \in [0 .. NumLatencies - 1 -> 0 .. End]
        /\ \A j \in 0 .. NumLatencies - 1 : latencies[j] = 0
    BY DEF ToolsInit
  <1>3. nextTx \in [sec : Nat, usec : 0 .. Second - 1]
    <2>1. nextTx = Time(0) /\ 0 \in Nat /\ repeatMs \in Nat
      BY <1>1 DEF ToolsInit
    <2> QED
      BY <2>1, LaterTime
  <1>4. ToolsTypeOK
    <2>1. {start, now, calledAt} \subseteq 0 .. End
      BY <1>1
    <2>2. sender \in {"options", "start", "done"} \union Running
      BY <1>1
    <2>3. tool \in {"options", "configure", "setup", "wake", "select", "bailed"}
      BY <1>1
    <2>4. repeatMs \in {MinRepeat} \union Repeats /\ repeatMs >= MinRepeat
      BY <1>1
    <2>5. {keepRunning, looked, starved, configured} \subseteq BOOLEAN
      BY <1>1
    <2>6. /\ {transmitted, totalUsec, rollingAverage, sent} \subseteq Nat
          /\ inDEX \in 0 .. NumLatencies - 1 /\ next \in 0 .. End + Slot
          /\ regular \in 0 .. MaxPackets /\ errors \in 0 .. SocketRoom /\ others \in 0 .. MaxPackets
      BY <1>1
    <2>7. waiting \in Seq(0 .. End) /\ Len(waiting) <= SocketRoom /\ wanted \subseteq {"tx", "rx"}
      BY <1>1
    <2> QED
      BY <1>1, <1>2, <1>3, <2>1, <2>2, <2>3, <2>4, <2>5, <2>6, <2>7 DEF ToolsTypeOK
  <1>5. ToolPhases /\ Waiting /\ SendInv /\ MarkInv /\ HardwareOrBail
    BY <1>1 DEF ToolPhases, Waiting, SendInv, MarkInv, HardwareOrBail, Running
  <1>6. RingInv
    <2>1. Len(measured) = 0 /\ measured \in Seq(0 .. End)
      BY <1>1
    <2>2. 0 % NumLatencies = 0
      OBVIOUS
    <2>3. Replaced = 0 /\ Sum(measured) = 0 /\ PartialSum(measured, Replaced) = 0
      BY <2>1, PartialSumUnfolds DEF Replaced, Sum
    <2> QED
      BY <1>1, <1>2, <2>1, <2>2, <2>3 DEF RingInv
  <1> QED
    BY <1>4, <1>5, <1>6 DEF ToolsInv

-----------------------------------------------------------------------------
(* What an action leaves alone.                                            *)

LEMMA KeptSendInv ==
    ASSUME SendInv, UNCHANGED <<now, start, senderVars>>
    PROVE  SendInv'
  BY DEF SendInv, DueTime, NoDrift, senderVars, Time

LEMMA KeptRingInv ==
    ASSUME RingInv, UNCHANGED <<totalUsec, latencies, inDEX, rollingAverage, measured>>
    PROVE  RingInv'
  BY DEF RingInv, Replaced, Sum, PartialSum

LEMMA KeptMarkInv ==
    ASSUME MarkInv, UNCHANGED <<now, start, toolVars>>
    PROVE  MarkInv' /\ (HardwareOrBail => HardwareOrBail')
  BY DEF MarkInv, FirstMark, toolVars, HardwareOrBail

-----------------------------------------------------------------------------
(* Clock, send-data and its datagrams.                                     *)

LEMMA TickToolsInv == ToolsInv /\ Tick => ToolsInv'
  <1> SUFFICES ASSUME ToolsInv, Tick PROVE ToolsInv'
    OBVIOUS
  <1> USE ToolsConstants DEF ToolsInv
  <1>1. /\ now \in 0 .. End /\ now < End /\ now' = now + 1
        /\ starved' = (starved \/ (sender \in Running /\ ~looked)) /\ looked' = FALSE
        /\ UNCHANGED <<method, start, sender, repeatMs, nextTx, keepRunning, transmitted,
                       kuVars, toolVars>>
    BY DEF Tick, ToolsTypeOK
  <1>2. ToolsTypeOK'
    <2>1. {start', now', calledAt'} \subseteq 0 .. End
      BY <1>1 DEF ToolsTypeOK, toolVars
    <2>2. {keepRunning', looked', starved', configured'} \subseteq BOOLEAN
      BY <1>1 DEF ToolsTypeOK, toolVars
    <2> QED
      BY <1>1, <2>1, <2>2 DEF ToolsTypeOK, kuVars, toolVars
  <1>3. ToolPhases' /\ HardwareOrBail'
    BY <1>1 DEF ToolPhases, HardwareOrBail, toolVars
  <1>4. Waiting'
    <2>1. \A k \in 1 .. Len(waiting) : waiting[k] \in Int
      BY DEF ToolsTypeOK
    <2> QED
      BY <1>1, <2>1 DEF Waiting, kuVars, toolVars
  <1>5. SendInv'
    <2> SUFFICES ASSUME sender \in Running PROVE SendInv'
      BY <1>1 DEF SendInv
    <2>1. DueTime' = DueTime /\ DueTime \in Int
      <3>1. start \in Int /\ repeatMs \in Int /\ transmitted \in Int
        BY DEF ToolsTypeOK
      <3> QED
        BY <1>1, <3>1 DEF DueTime
    <2>2. nextTx' = Time(IF sender' = "advance" THEN DueTime' - repeatMs' ELSE DueTime')
          /\ (sender' = "advance" => transmitted' > 0)
      BY <1>1, <2>1 DEF SendInv
    <2>3. ~starved' => ~looked' /\ now' <= DueTime'
      <3>1. ~starved' => looked /\ ~starved
        BY <1>1 DEF ToolsTypeOK
      <3> QED
        BY <1>1, <2>1, <3>1 DEF SendInv
    <2> QED
      BY <2>2, <2>3 DEF SendInv
  <1>6. RingInv'
    BY <1>1, KeptRingInv DEF kuVars
  <1>7. MarkInv'
    <2>1. next \in Int
      BY DEF ToolsTypeOK
    <2> QED
      BY <1>1, <2>1 DEF MarkInv, FirstMark, toolVars
  <1> QED
    BY <1>2, <1>3, <1>4, <1>5, <1>6, <1>7

\* send-data up to the start of its loop.
LEMMA StartToolsInv == ToolsInv /\ (Options \/ Begin) => ToolsInv'
  <1> SUFFICES ASSUME ToolsInv, Options \/ Begin PROVE ToolsInv'
    OBVIOUS
  <1> USE ToolsConstants DEF ToolsInv
  <1>1. CASE Options
    <2>1. /\ sender = "options" /\ sender' \in {"start", "done"}
          /\ UNCHANGED <<method, now, start, nextTx, keepRunning, transmitted, looked, starved,
                         kuVars, toolVars>>
      BY <1>1 DEF Options
    <2>2. repeatMs' \in {MinRepeat} \union Repeats /\ repeatMs' >= MinRepeat
      <3>1. PICK ms \in Repeats : repeatMs' = Max({ms, MinRepeat})
        BY <1>1 DEF Options
      <3>2. Max({ms, MinRepeat}) \in {ms, MinRepeat} /\ Max({ms, MinRepeat}) >= MinRepeat
        <4>1. ms \in Int /\ MinRepeat \in Int
          OBVIOUS
        <4>2. \E x \in {ms, MinRepeat} : \A y \in {ms, MinRepeat} : x >= y
          BY <4>1
        <4>3. /\ Max({ms, MinRepeat}) \in {ms, MinRepeat}
              /\ \A y \in {ms, MinRepeat} : Max({ms, MinRepeat}) >= y
          BY <4>2, Zenon DEF Max
        <4> QED
          BY <4>3
      <3> QED
        BY <3>1, <3>2
    <2>3. ToolsTypeOK'
      BY <2>1, <2>2 DEF ToolsTypeOK, kuVars, toolVars
    <2>4. ToolPhases' /\ Waiting' /\ SendInv'
      BY <2>1 DEF ToolPhases, Waiting, SendInv, Running, kuVars, toolVars
    <2> QED
      BY <2>1, <2>3, <2>4, KeptRingInv, KeptMarkInv DEF kuVars
  <1>2. CASE Begin
    <2>1. /\ sender = "start" /\ start' = now /\ nextTx' = Time(now) /\ sender' = "busy"
          /\ UNCHANGED <<method, now, repeatMs, keepRunning, transmitted, looked, starved,
                         kuVars, toolVars>>
      BY <1>2 DEF Begin
    <2>2. transmitted = 0 /\ ~looked /\ now \in 0 .. End /\ repeatMs \in Nat /\ tool = "bailed"
      BY <2>1 DEF ToolPhases, ToolsTypeOK
    <2>3. nextTx' \in [sec : Nat, usec : 0 .. Second - 1]
      BY <2>1, <2>2, LaterTime
    <2>4. ToolsTypeOK'
      BY <2>1, <2>2, <2>3 DEF ToolsTypeOK, Running, kuVars, toolVars
    <2>5. ToolPhases' /\ Waiting' /\ MarkInv' /\ HardwareOrBail'
      BY <2>1, <2>2 DEF ToolPhases, Waiting, MarkInv, HardwareOrBail, kuVars, toolVars
    <2>6. SendInv'
      <3>1. DueTime' = now
        BY <2>1, <2>2 DEF DueTime
      <3> QED
        BY <2>1, <2>2, <3>1 DEF SendInv
    <2> QED
      BY <2>1, <2>4, <2>5, <2>6, KeptRingInv DEF kuVars
  <1> QED
    BY <1>1, <1>2

LEMMA LookToolsInv == ToolsInv /\ Look => ToolsInv'
  <1> SUFFICES ASSUME ToolsInv, Look PROVE ToolsInv'
    OBVIOUS
  <1> USE ToolsConstants DEF ToolsInv
  <1>1. /\ sender = "look" /\ looked' = TRUE
        /\ UNCHANGED <<method, now, start, repeatMs, nextTx, keepRunning, starved,
                       totalUsec, latencies, inDEX, rollingAverage, measured, toolVars>>
    BY DEF Look
  <1>2. IF Due(Time(now))
        THEN /\ sender' = "advance"
             /\ transmitted' = transmitted + 1
             /\ \/ Len(waiting) < SocketRoom /\ waiting' = Append(waiting, now)
                \/ UNCHANGED waiting
        ELSE sender' = "busy" /\ UNCHANGED <<transmitted, waiting>>
    BY DEF Look
  <1>3. /\ now \in 0 .. End /\ start \in Nat /\ repeatMs \in Nat /\ transmitted \in Nat
        /\ waiting \in Seq(0 .. End) /\ Len(waiting) <= SocketRoom
        /\ repeatMs * transmitted \in Nat
    BY DEF ToolsTypeOK
  <1>4. DueTime \in Nat /\ nextTx = Time(DueTime)
    BY <1>1, <1>3 DEF DueTime, SendInv, Running
  <1>5. ~starved => now <= DueTime /\ (looked => now < DueTime)
    BY <1>1, <1>3, <1>4 DEF SendInv, Running
  <1>6. Due(Time(DueTime)) /\ (Due(Time(now)) => now >= DueTime)
    BY <1>3, <1>4, DueTimes
  <1>7. /\ waiting' \in Seq(0 .. End) /\ Len(waiting') <= SocketRoom
        /\ \A k \in 1 .. Len(waiting') : waiting'[k] <= now
    <2>1. CASE UNCHANGED waiting
      BY <1>3, <2>1 DEF Waiting
    <2>2. CASE Len(waiting) < SocketRoom /\ waiting' = Append(waiting, now)
      <3>1. waiting' \in Seq(0 .. End) /\ Len(waiting') = Len(waiting) + 1
        BY <1>3, <2>2
      <3>2. \A k \in 1 .. Len(waiting') : waiting'[k] = IF k = Len(waiting') THEN now ELSE waiting[k]
        BY <1>3, <2>2
      <3> QED
        BY <1>3, <2>2, <3>1, <3>2 DEF Waiting
    <2> QED
      BY <1>2, <2>1, <2>2
  <1>8. transmitted' \in Nat /\ sender' \in {"advance", "busy"}
    BY <1>2, <1>3
  <1>9. ToolsTypeOK'
    BY <1>1, <1>7, <1>8 DEF ToolsTypeOK, Running, toolVars
  <1>10. ToolPhases' /\ Waiting'
    BY <1>1, <1>7, <1>8 DEF ToolPhases, Waiting, toolVars
  <1>11. SendInv'
    <2>1. CASE Due(Time(now))
      <3>1. /\ sender' = "advance" /\ transmitted' = transmitted + 1
            /\ UNCHANGED <<start, repeatMs, nextTx, starved, now>>
        BY <1>1, <1>2, <2>1
      <3>2. DueTime' = DueTime + repeatMs
        <4>1. repeatMs * (transmitted + 1) = repeatMs * transmitted + repeatMs
          BY <1>3
        <4> QED
          BY <1>3, <3>1, <4>1 DEF DueTime
      <3>3. nextTx' = Time(DueTime' - repeatMs')
        <4>1. DueTime' - repeatMs' = DueTime
          BY <1>3, <1>4, <3>1, <3>2
        <4> QED
          BY <1>4, <3>1, <4>1
      <3>4. repeatMs >= 1
        BY DEF ToolsTypeOK
      <3>5. ~starved' => now' < DueTime'
        BY <1>3, <1>4, <1>5, <3>1, <3>2, <3>4
      <3> QED
        BY <1>1, <1>3, <3>1, <3>3, <3>5 DEF SendInv
    <2>2. CASE ~Due(Time(now))
      <3>1. sender' = "busy" /\ UNCHANGED <<start, repeatMs, nextTx, starved, now, transmitted>>
        BY <1>1, <1>2, <2>2
      <3>2. DueTime' = DueTime
        BY <3>1 DEF DueTime
      <3>3. now # DueTime
        BY <1>6, <2>2
      <3>4. ~starved' => now' < DueTime'
        BY <1>3, <1>4, <1>5, <3>1, <3>2, <3>3
      <3> QED
        BY <1>1, <1>4, <3>1, <3>2, <3>4 DEF SendInv
    <2> QED
      BY <2>1, <2>2
  <1> QED
    BY <1>1, <1>9, <1>10, <1>11, KeptRingInv, KeptMarkInv

\* The rest of the loop, and the signal.
LEMMA LoopToolsInv == ToolsInv /\ (Check \/ Advance \/ Sigint) => ToolsInv'
  <1> SUFFICES ASSUME ToolsInv, Check \/ Advance \/ Sigint PROVE ToolsInv'
    OBVIOUS
  <1> USE ToolsConstants DEF ToolsInv
  <1>1. /\ UNCHANGED <<method, now, start, repeatMs, transmitted, looked, starved, kuVars, toolVars>>
        /\ sender \in Running
    BY DEF Check, Advance, Sigint, Running
  <1>2. /\ start \in Nat /\ repeatMs \in Nat /\ transmitted \in Nat /\ repeatMs * transmitted \in Nat
    BY DEF ToolsTypeOK
  <1>3. DueTime' = DueTime /\ DueTime \in Nat
    BY <1>1, <1>2 DEF DueTime
  <1>4. CASE Check \/ Sigint
    <2>1. /\ nextTx' = nextTx /\ keepRunning' \in BOOLEAN
          /\ \/ sender = "busy" /\ sender' = "look"
             \/ sender' = sender
      BY <1>4 DEF Check, Sigint, ToolsTypeOK
    <2>2. ToolsTypeOK'
      BY <1>1, <2>1 DEF ToolsTypeOK, Running, kuVars, toolVars
    <2>3. ToolPhases' /\ Waiting'
      BY <1>1, <2>1 DEF ToolPhases, Waiting, Running, kuVars, toolVars
    <2>4. SendInv'
      BY <1>1, <1>3, <2>1 DEF SendInv
    <2> QED
      BY <1>1, <2>2, <2>3, <2>4, KeptRingInv, KeptMarkInv DEF kuVars
  <1>5. CASE Advance
    <2>1. /\ sender = "advance" \/ (sender = "busy" /\ ~keepRunning)
          /\ nextTx' = Later(nextTx) /\ sender' = (IF keepRunning THEN "busy" ELSE "done")
          /\ keepRunning' = keepRunning
      BY <1>5 DEF Advance, GoesOn
    <2> DEFINE due == IF sender = "advance" THEN DueTime - repeatMs ELSE DueTime
    <2>2. due \in Nat /\ nextTx = Time(due)
      <3>1. sender = "advance" => DueTime - repeatMs \in Nat
        <4> SUFFICES ASSUME sender = "advance" PROVE DueTime - repeatMs \in Nat
          OBVIOUS
        <4>1. transmitted - 1 \in Nat
          BY <1>1, <1>2 DEF SendInv
        <4>2. repeatMs * (transmitted - 1) \in Nat
              /\ repeatMs * transmitted = repeatMs * (transmitted - 1) + repeatMs
          BY <1>2, <4>1
        <4> QED
          BY <1>2, <4>2 DEF DueTime
      <3> QED
        BY <1>1, <1>3, <3>1 DEF SendInv
    <2>3. nextTx' = Time(due + repeatMs)
      BY <1>2, <2>1, <2>2, LaterTime
    <2>4. nextTx' \in [sec : Nat, usec : 0 .. Second - 1]
      <3>1. due + repeatMs \in Nat
        BY <1>2, <2>2
      <3> HIDE DEF due
      <3> QED
        BY <1>2, <2>3, <3>1, LaterTime
    <2>5. ToolsTypeOK'
      BY <1>1, <2>1, <2>4 DEF ToolsTypeOK, Running, kuVars, toolVars
    <2>6. ToolPhases' /\ Waiting'
      BY <1>1, <2>1 DEF ToolPhases, Waiting, Running, kuVars, toolVars
    <2>7. SendInv'
      <3> SUFFICES ASSUME keepRunning PROVE SendInv'
        BY <2>1 DEF SendInv, Running
      <3>1. sender = "advance" /\ sender' = "busy"
        BY <2>1
      <3>2. due + repeatMs = DueTime
        BY <1>2, <1>3, <3>1
      <3>3. nextTx' = Time(DueTime')
        BY <1>3, <2>3, <3>2
      <3> QED
        BY <1>1, <1>3, <3>1, <3>3 DEF SendInv
    <2> QED
      BY <1>1, <2>5, <2>6, <2>7, KeptRingInv, KeptMarkInv DEF kuVars
  <1> QED
    BY <1>4, <1>5

-----------------------------------------------------------------------------
(* ku-latency.                                                             *)

LEMMA WholeTurn ==
    ASSUME NEW d \in Nat \ {0}, NEW x \in Nat
    PROVE  (x + d) % d = x % d
  <1> DEFINE q == x \div d
             r == x % d
  <1>1. q \in Nat /\ r \in 0 .. d - 1 /\ x = d * q + r
    BY Divided
  <1> HIDE DEF q, r
  <1>2. x + d = d * (q + 1) + r
    BY <1>1
  <1>3. (x + d) % d = r
    BY <1>1, <1>2, DividedOnce
  <1> QED
    BY <1>3 DEF r

LEMMA NextInRing ==
    ASSUME NEW d \in Nat \ {0}, NEW x \in Nat
    PROVE  ((x % d) + 1) % d = (x + 1) % d
  <1> DEFINE q == x \div d
             r == x % d
  <1>1. q \in Nat /\ r \in 0 .. d - 1 /\ x = d * q + r
    BY Divided
  <1> HIDE DEF q, r
  <1>2. CASE r + 1 < d
    <2>1. x + 1 = d * q + (r + 1) /\ r + 1 = d * 0 + (r + 1) /\ r + 1 \in 0 .. d - 1
      BY <1>1, <1>2
    <2>2. (x + 1) % d = r + 1
      BY <1>1, <2>1, DividedOnce
    <2>3. (r + 1) % d = r + 1
      BY <1>1, <2>1, DividedOnce
    <2> QED
      BY <2>2, <2>3 DEF r
  <1>3. CASE ~(r + 1 < d)
    <2>1. r + 1 = d
      BY <1>1, <1>3
    <2>2. x + 1 = d * (q + 1) + 0 /\ r + 1 = d * 1 + 0 /\ 0 \in 0 .. d - 1
      BY <1>1, <2>1
    <2>3. (x + 1) % d = 0
      BY <1>1, <2>2, DividedOnce
    <2>4. (r + 1) % d = 0
      BY <1>1, <2>2, DividedOnce
    <2> QED
      BY <2>3, <2>4 DEF r
  <1> QED
    BY <1>2, <1>3

LEMMA ApartInRing ==
    ASSUME NEW d \in Nat \ {0}, NEW x \in Nat, NEW y \in Nat, x < y, y < x + d
    PROVE  x % d # y % d
  <1> DEFINE q == x \div d
             r == x % d
             p == y \div d
             s == y % d
  <1>1. /\ q \in Nat /\ r \in 0 .. d - 1 /\ x = d * q + r
        /\ p \in Nat /\ s \in 0 .. d - 1 /\ y = d * p + s
    BY Divided
  <1> HIDE DEF q, r, p, s
  <1>2. r # s
    <2> SUFFICES ASSUME r = s PROVE FALSE
      OBVIOUS
    <2>1. d * p < d * q + d /\ d * q < d * p /\ d * q \in Int /\ d * p \in Int
      BY <1>1
    <2>2. p <= q
      BY <1>1, <2>1, LargerFactor
    <2>3. q # p
      BY <2>1
    <2>4. q <= p
      <3>1. d * q < d * p + d
        BY <2>1
      <3> QED
        BY <1>1, <3>1, LargerFactor
    <2> QED
      BY <1>1, <2>2, <2>3, <2>4
  <1> QED
    BY <1>2 DEF r, s

\* The rolling sum is that of the samples not yet replaced.
LEMMA RollingIsRecent ==
    ASSUME RingInv
    PROVE  /\ Replaced \in 0 .. Len(measured)
           /\ rollingAverage = Sum(SubSeq(measured, Replaced + 1, Len(measured)))
           /\ totalUsec \in Nat /\ rollingAverage \in Nat
  <1>1. measured \in Seq(Nat)
    BY ToolsConstants DEF RingInv
  <1>2. Replaced \in 0 .. Len(measured)
    <2>1. Len(measured) \in Nat
      BY <1>1
    <2> QED
      BY <2>1, ToolsConstants DEF Replaced
  <1>3. /\ Sum(SubSeq(measured, Replaced + 1, Len(measured))) \in Nat
        /\ Sum(SubSeq(measured, Replaced + 1, Len(measured))) = Sum(measured) - PartialSum(measured, Replaced)
    BY <1>1, <1>2, SumOfRest
  <1>4. Sum(measured) \in Nat
    BY <1>1, SumOfOneMore
  <1> QED
    BY <1>2, <1>3, <1>4 DEF RingInv

LEMMA RecvMsgToolsInv == ToolsInv /\ RecvMsg => ToolsInv'
  <1> SUFFICES ASSUME ToolsInv, RecvMsg PROVE ToolsInv'
    OBVIOUS
  <1> USE ToolsConstants DEF ToolsInv
  <1> DEFINE timediff == now - Head(waiting)
             n == Len(measured)
  <1>1. /\ waiting # <<>> /\ waiting' = Tail(waiting)
        /\ totalUsec' = totalUsec + timediff
        /\ rollingAverage' = rollingAverage + timediff - latencies[inDEX]
        /\ latencies' = [latencies EXCEPT ![inDEX] = timediff]
        /\ inDEX' = (inDEX + 1) % NumLatencies
        /\ measured' = Append(measured, timediff)
        /\ UNCHANGED <<method, now, start, senderVars, toolVars>>
    BY DEF RecvMsg, Rolled, NextIndex
  <1>2. /\ waiting \in Seq(0 .. End) /\ Len(waiting) <= SocketRoom /\ now \in 0 .. End
        /\ \A k \in 1 .. Len(waiting) : waiting[k] <= now
    BY DEF ToolsTypeOK, Waiting
  <1>3. timediff \in 0 .. End
    <2>1. 1 \in 1 .. Len(waiting) /\ Head(waiting) = waiting[1] /\ waiting[1] \in 0 .. End
      BY <1>1, <1>2
    <2> QED
      BY <1>2, <2>1
  <1>4. /\ waiting' \in Seq(0 .. End) /\ Len(waiting') <= SocketRoom
        /\ \A k \in 1 .. Len(waiting') : waiting'[k] <= now
    <2>1. Tail(waiting) \in Seq(0 .. End) /\ Len(Tail(waiting)) = Len(waiting) - 1
      BY <1>1, <1>2
    <2>2. \A k \in 1 .. Len(waiting) - 1 : Tail(waiting)[k] = waiting[k + 1] /\ k + 1 \in 1 .. Len(waiting)
      BY <1>1, <1>2
    <2> QED
      BY <1>1, <1>2, <2>1, <2>2
  <1> HIDE DEF timediff
  <1>5. /\ latencies \in [0 .. NumLatencies - 1 -> 0 .. End] /\ measured \in Seq(0 .. End)
        /\ n \in Nat /\ inDEX = n % NumLatencies
        /\ totalUsec \in Nat /\ rollingAverage \in Nat
    <2>1. latencies \in [0 .. NumLatencies - 1 -> 0 .. End] /\ totalUsec \in Nat /\ rollingAverage \in Nat
      BY DEF ToolsTypeOK
    <2>2. measured \in Seq(0 .. End) /\ inDEX = n % NumLatencies
      BY DEF RingInv
    <2>3. n \in Nat
      BY <2>2
    <2> QED
      BY <2>1, <2>2, <2>3
  <1>6. inDEX \in 0 .. NumLatencies - 1 /\ (n < NumLatencies => inDEX = n)
    <2>1. n < NumLatencies => n = NumLatencies * 0 + n /\ n \in 0 .. NumLatencies - 1
      BY <1>5
    <2>2. n < NumLatencies => n % NumLatencies = n
      BY <1>5, <2>1, DividedOnce
    <2>3. n % NumLatencies \in 0 .. NumLatencies - 1
      BY <1>5, Divided
    <2> QED
      BY <1>5, <2>2, <2>3
  <1>7. /\ measured' \in Seq(0 .. End) /\ Len(measured') = n + 1 /\ measured'[n + 1] = timediff
        /\ \A k \in 1 .. n : measured'[k] = measured[k] /\ measured[k] \in 0 .. End
    <2>1. measured' = Append(measured, timediff) /\ measured \in Seq(0 .. End) /\ timediff \in 0 .. End
      BY <1>1, <1>3, <1>5
    <2>2. Append(measured, timediff) \in Seq(0 .. End)
      BY <2>1
    <2>3. Len(Append(measured, timediff)) = n + 1 /\ Append(measured, timediff)[n + 1] = timediff
      BY <2>1
    <2>4. \A k \in 1 .. n : Append(measured, timediff)[k] = measured[k] /\ measured[k] \in 0 .. End
      BY <2>1
    <2> QED
      BY <2>1, <2>2, <2>3, <2>4
  <1>8. /\ latencies' \in [0 .. NumLatencies - 1 -> 0 .. End]
        /\ \A j \in 0 .. NumLatencies - 1 :
             latencies'[j] = IF j = inDEX THEN timediff ELSE latencies[j]
    BY <1>1, <1>3, <1>5, <1>6
  <1>9. inDEX' = (n + 1) % NumLatencies /\ inDEX' \in 0 .. NumLatencies - 1
    <2>1. inDEX' = ((n % NumLatencies) + 1) % NumLatencies
      BY <1>1, <1>5
    <2>2. inDEX' = (n + 1) % NumLatencies
      BY <1>5, <2>1, NextInRing
    <2>3. n + 1 \in Nat
      BY <1>5
    <2> HIDE DEF n
    <2>4. (n + 1) % NumLatencies \in 0 .. NumLatencies - 1
      BY <2>3, Divided
    <2> QED
      BY <2>2, <2>4
  <1> HIDE DEF n
  <1>10. /\ Replaced = IF n > NumLatencies THEN n - NumLatencies ELSE 0
         /\ Replaced' = IF n + 1 > NumLatencies THEN n + 1 - NumLatencies ELSE 0
    BY <1>7 DEF Replaced, n
  <1>11. Replaced \in 0 .. n /\ Replaced' \in 0 .. n
    BY <1>5, <1>10
  \* The place of the oldest sample is the one that comes next.
  <1>12. PartialSum(measured, Replaced') = PartialSum(measured, Replaced) + latencies[inDEX]
    <2>1. CASE n < NumLatencies
      <3>1. Replaced' = 0 /\ Replaced = 0
        BY <1>5, <1>10, <2>1
      <3>2. latencies[inDEX] = 0
        BY <1>6, <2>1 DEF RingInv, n
      <3>3. PartialSum(measured, 0) = 0
        BY PartialSumUnfolds
      <3> QED
        BY <3>1, <3>2, <3>3
    <2>2. CASE ~(n < NumLatencies)
      <3>1. Replaced = n - NumLatencies /\ Replaced' = Replaced + 1 /\ Replaced \in Nat
        BY <1>5, <1>10, <2>2
      <3>2. n = Replaced + NumLatencies
        BY <1>5, <3>1
      <3>3. n % NumLatencies = Replaced % NumLatencies
        BY <3>1, <3>2, WholeTurn
      <3>4. \A k \in 1 .. n : k > Replaced => latencies[(k - 1) % NumLatencies] = measured[k]
        BY DEF RingInv, n
      <3>5. latencies[Replaced % NumLatencies] = measured[Replaced + 1]
        <4> DEFINE oldest == Replaced + 1
        <4>1. oldest \in 1 .. n /\ oldest > Replaced /\ oldest - 1 = Replaced
          BY <1>5, <3>1, <3>2, ToolsConstants
        <4> HIDE DEF oldest, ToolsInv
        <4>2. latencies[(oldest - 1) % NumLatencies] = measured[oldest]
          BY <3>4, <4>1, Zenon
        <4>3. latencies[Replaced % NumLatencies] = measured[oldest]
          BY <4>1, <4>2, Zenon
        <4> QED
          BY <4>3, Zenon DEF oldest
      <3>6. PartialSum(measured, Replaced + 1) = PartialSum(measured, Replaced) + measured[Replaced + 1]
        BY <3>1, PartialSumUnfolds
      <3> QED
        BY <1>5, <3>1, <3>3, <3>5, <3>6
    <2> QED
      BY <2>1, <2>2
  <1>13. /\ Sum(measured) \in Nat /\ Sum(measured') = Sum(measured) + timediff
         /\ PartialSum(measured', Replaced') = PartialSum(measured, Replaced')
         /\ PartialSum(measured, Replaced) \in Nat
    <2>1. measured \in Seq(Nat) /\ timediff \in Nat
      BY <1>3, <1>5
    <2>2. /\ Sum(measured) \in Nat /\ Sum(measured') = Sum(measured) + timediff
          /\ \A k \in 0 .. n : PartialSum(measured', k) = PartialSum(measured, k)
      BY <1>1, <2>1, SumOfOneMore DEF n
    <2>3. PartialSum(measured, Replaced) \in Nat
      <3>1. Replaced \in Nat /\ 0 \in Nat /\ IsPart(measured, <<>>, Replaced, 0)
        BY <1>5, <1>7, <1>11 DEF IsPart
      <3> QED
        BY <3>1, PartialSums
    <2> QED
      BY <1>11, <2>2, <2>3
  <1>14. RingInv'
    <2>1. ASSUME NEW k \in 1 .. n + 1, k > Replaced'
          PROVE  latencies'[(k - 1) % NumLatencies] = measured'[k]
      <3>1. (k - 1) % NumLatencies \in 0 .. NumLatencies - 1
        <4>1. k - 1 \in Nat
          OBVIOUS
        <4> QED
          BY <4>1, Divided
      <3>2. CASE k = n + 1
        <4>1. (k - 1) % NumLatencies = inDEX
          BY <1>5, <3>2
        <4> QED
          BY <1>7, <1>8, <3>1, <3>2, <4>1
      <3>3. CASE k # n + 1
        <4>1. k \in 1 .. n /\ k > Replaced /\ k - 1 \in Nat /\ k - 1 < n /\ n < k - 1 + NumLatencies
          BY <1>5, <1>10, <2>1, <3>3
        <4>2. (k - 1) % NumLatencies # inDEX
          BY <1>5, <4>1, ApartInRing
        <4>3. latencies[(k - 1) % NumLatencies] = measured[k]
          BY <4>1 DEF RingInv, n
        <4> QED
          BY <1>7, <1>8, <3>1, <4>1, <4>2, <4>3
      <3> QED
        BY <3>2, <3>3
    <2>2. ASSUME NEW j \in 0 .. NumLatencies - 1, j >= n + 1
          PROVE  latencies'[j] = 0
      <3>1. j >= n /\ n < NumLatencies /\ j # inDEX
        BY <1>5, <1>6, <2>2
      <3> QED
        BY <1>8, <3>1 DEF RingInv, n
    <2>3. totalUsec' = Sum(measured') /\ rollingAverage' = Sum(measured') - PartialSum(measured', Replaced')
      <3>1. latencies[inDEX] \in Int /\ timediff \in Int
        BY <1>3, <1>5, <1>6
      <3>2. totalUsec = Sum(measured) /\ rollingAverage = Sum(measured) - PartialSum(measured, Replaced)
        BY DEF RingInv
      <3>3. totalUsec' = Sum(measured')
        BY <1>1, <1>13, <3>2
      <3>4. rollingAverage' = Sum(measured) - PartialSum(measured, Replaced) + timediff - latencies[inDEX]
        BY <1>1, <3>2
      <3>5. PartialSum(measured', Replaced') = PartialSum(measured, Replaced) + latencies[inDEX]
        BY <1>12, <1>13
      <3> QED
        BY <1>13, <3>1, <3>3, <3>4, <3>5
    <2> QED
      BY <1>7, <1>9, <2>1, <2>2, <2>3 DEF RingInv, Replaced
  <1>15. totalUsec' \in Nat /\ rollingAverage' \in Nat
    <2>1. totalUsec' \in Nat
      BY <1>1, <1>3, <1>5
    <2>2. rollingAverage' \in Nat
      <3> DEFINE p == Replaced'
      <3>1. measured' \in Seq(Nat) /\ p \in 0 .. Len(measured')
        BY <1>5, <1>7, <1>11
      <3> HIDE DEF p
      <3>2. /\ Sum(SubSeq(measured', p + 1, Len(measured'))) \in Nat
            /\ Sum(SubSeq(measured', p + 1, Len(measured'))) = Sum(measured') - PartialSum(measured', p)
        BY <3>1, SumOfRest
      <3> QED
        BY <1>14, <3>2 DEF RingInv, p
    <2> QED
      BY <2>1, <2>2
  <1>16. ToolsTypeOK'
    <2>1. {transmitted', totalUsec', rollingAverage', sent'} \subseteq Nat
      BY <1>1, <1>15 DEF ToolsTypeOK, senderVars, toolVars
    <2> QED
      BY <1>1, <1>4, <1>8, <1>9, <2>1 DEF ToolsTypeOK, senderVars, toolVars
  <1>17. ToolPhases' /\ Waiting'
    BY <1>1, <1>4 DEF ToolPhases, Waiting, senderVars, toolVars
  <1> QED
    BY <1>1, <1>14, <1>16, <1>17, KeptSendInv, KeptMarkInv

-----------------------------------------------------------------------------
(* timestamping.                                                           *)

LEMMA SetUpToolsInv == ToolsInv /\ (Arguments \/ Configure \/ SetUp) => ToolsInv'
  <1> SUFFICES ASSUME ToolsInv, Arguments \/ Configure \/ SetUp PROVE ToolsInv'
    OBVIOUS
  <1> USE ToolsConstants DEF ToolsInv
  <1>1. CASE Arguments
    <2>1. /\ tool = "options" /\ wanted' \in SUBSET {"tx", "rx"} /\ tool' = "configure"
          /\ UNCHANGED <<method, now, start, senderVars, kuVars, configured, next, calledAt, regular,
                         errors, sent, others>>
      BY <1>1 DEF Arguments
    <2>2. ToolsTypeOK'
      BY <2>1 DEF ToolsTypeOK, senderVars, kuVars
    <2>3. ToolPhases' /\ Waiting' /\ MarkInv' /\ HardwareOrBail'
      BY <2>1 DEF ToolPhases, Waiting, MarkInv, HardwareOrBail, senderVars, kuVars
    <2> QED
      BY <2>1, <2>2, <2>3, KeptSendInv, KeptRingInv DEF kuVars
  <1>2. CASE Configure
    <2>1. /\ tool = "configure" /\ tool' \in {"setup", "bailed"} /\ configured' \in BOOLEAN
          /\ tool' = "setup" => configured' \/ wanted' = {}
          /\ UNCHANGED <<method, now, start, senderVars, kuVars, wanted, next, calledAt, regular,
                         errors, sent, others>>
      BY <1>2 DEF Configure, Tolerable
    <2>2. ToolsTypeOK'
      BY <2>1 DEF ToolsTypeOK, senderVars, kuVars
    <2>3. ToolPhases' /\ Waiting' /\ MarkInv' /\ HardwareOrBail'
      BY <2>1 DEF ToolPhases, Waiting, MarkInv, HardwareOrBail, senderVars, kuVars
    <2> QED
      BY <2>1, <2>2, <2>3, KeptSendInv, KeptRingInv DEF kuVars
  <1>3. CASE SetUp
    <2>1. /\ tool = "setup" /\ tool' \in {"wake", "bailed"}
          /\ next' = ((now + 1) \div Slot) * Slot /\ start' = now
          /\ UNCHANGED <<method, now, senderVars, kuVars, wanted, configured, calledAt, regular,
                         errors, sent, others>>
      BY <1>3 DEF SetUp
    <2>2. method # "native" /\ sender = "done" /\ sent = 0 /\ now \in 0 .. End
      BY <2>1 DEF ToolPhases, ToolsTypeOK
    <2>3. next' = FirstMark' /\ next' \in 0 .. End + Slot
      <3> DEFINE q == (now + 1) \div Slot
                 r == (now + 1) % Slot
      <3>1. now + 1 \in Nat
        BY <2>2
      <3>2. q \in Nat /\ r \in 0 .. Slot - 1 /\ now + 1 = Slot * q + r
        BY <3>1, Divided
      <3>3. next' = q * Slot /\ FirstMark' = q * Slot
        BY <2>1 DEF FirstMark
      <3> HIDE DEF q, r
      <3>4. q * Slot = Slot * q /\ Slot * q \in Nat
        BY <3>2
      <3> QED
        BY <2>2, <3>2, <3>3, <3>4
    <2>4. ToolsTypeOK'
      BY <2>1, <2>2, <2>3 DEF ToolsTypeOK, senderVars, kuVars
    <2>5. MarkInv'
      <3>1. next' \in Int /\ Slot * sent' = 0
        BY <2>1, <2>2, <2>3
      <3> QED
        BY <2>1, <2>2, <2>3, <3>1 DEF MarkInv
    <2>6. ToolPhases' /\ Waiting' /\ HardwareOrBail' /\ SendInv'
      BY <2>1, <2>2 DEF ToolPhases, Waiting, HardwareOrBail, SendInv, Running, senderVars, kuVars
    <2> QED
      BY <2>1, <2>4, <2>5, <2>6, KeptRingInv DEF kuVars
  <1> QED
    BY <1>1, <1>2, <1>3

LEMMA WakeToolsInv == ToolsInv /\ Wake => ToolsInv'
  <1> SUFFICES ASSUME ToolsInv, Wake PROVE ToolsInv'
    OBVIOUS
  <1> USE ToolsConstants DEF ToolsInv
  <1>1. /\ tool = "wake"
        /\ UNCHANGED <<method, now, start, senderVars, kuVars, wanted, configured, regular, others>>
    BY DEF Wake
  <1>2. /\ next \in Nat /\ sent \in Nat /\ now \in 0 .. End /\ FirstMark' = FirstMark
        /\ next = FirstMark + Slot * sent /\ (sent > 0 => next - Slot <= now)
    BY <1>1 DEF MarkInv, ToolsTypeOK, FirstMark
  <1>3. CASE next > now
    <2>1. tool' = "select" /\ calledAt' = now /\ UNCHANGED <<next, sent, errors>>
      BY <1>3 DEF Wake
    <2>2. ToolsTypeOK'
      BY <1>1, <1>2, <2>1 DEF ToolsTypeOK, senderVars, kuVars
    <2>3. MarkInv'
      BY <1>1, <1>2, <1>3, <2>1 DEF MarkInv
    <2>4. ToolPhases' /\ Waiting' /\ HardwareOrBail'
      BY <1>1, <2>1 DEF ToolPhases, Waiting, HardwareOrBail, senderVars, kuVars
    <2> QED
      BY <1>1, <2>2, <2>3, <2>4, KeptSendInv, KeptRingInv DEF kuVars
  <1>4. CASE ~(next > now)
    <2>1. /\ next' = next + Slot /\ sent' = sent + 1 /\ UNCHANGED <<tool, calledAt>>
          /\ errors' = IF "tx" \in wanted /\ errors < SocketRoom THEN errors + 1 ELSE errors
      BY <1>4 DEF Wake, NextSlot
    <2>2. errors' \in 0 .. SocketRoom
      BY <2>1 DEF ToolsTypeOK
    <2>3. next' \in 0 .. End + Slot /\ sent' \in Nat
      BY <1>2, <1>4, <2>1
    <2>4. ToolsTypeOK'
      BY <1>1, <2>1, <2>2, <2>3 DEF ToolsTypeOK, senderVars, kuVars
    <2>5. MarkInv'
      <3>1. FirstMark \in Int
        <4>1. start + 1 \in Nat
          BY DEF ToolsTypeOK
        <4>2. (start + 1) \div Slot \in Nat
          BY <4>1, Divided
        <4> QED
          BY <4>2 DEF FirstMark
      <3>2. Slot * (sent + 1) = Slot * sent + Slot /\ Slot * sent \in Int
        BY <1>2
      <3>3. next' = FirstMark' + Slot * sent'
        BY <1>2, <2>1, <3>1, <3>2
      <3>4. next' - Slot <= now'
        BY <1>1, <1>2, <1>4, <2>1
      <3> QED
        BY <1>1, <2>1, <3>3, <3>4 DEF MarkInv
    <2>6. ToolPhases' /\ Waiting' /\ HardwareOrBail'
      BY <1>1, <2>1 DEF ToolPhases, Waiting, HardwareOrBail, senderVars, kuVars
    <2> QED
      BY <1>1, <2>4, <2>5, <2>6, KeptSendInv, KeptRingInv DEF kuVars
  <1> QED
    BY <1>3, <1>4

LEMMA SelectToolsInv == ToolsInv /\ (SelectReturns \/ Arrive) => ToolsInv'
  <1> SUFFICES ASSUME ToolsInv, SelectReturns \/ Arrive PROVE ToolsInv'
    OBVIOUS
  <1> USE ToolsConstants DEF ToolsInv
  <1>1. CASE SelectReturns
    <2>1. /\ tool = "select" /\ tool' = "wake"
          /\ regular' = (IF regular > 0 THEN regular - 1 ELSE 0)
          /\ errors' = (IF errors > 0 THEN errors - 1 ELSE 0)
          /\ UNCHANGED <<method, now, start, senderVars, kuVars, wanted, configured, next, calledAt,
                         sent, others>>
      BY <1>1 DEF SelectReturns, OneOff
    <2>2. /\ regular' \in 0 .. MaxPackets /\ errors' \in 0 .. SocketRoom /\ regular' <= others'
      BY <2>1 DEF ToolsTypeOK, Waiting
    <2>3. ToolsTypeOK'
      BY <2>1, <2>2 DEF ToolsTypeOK, senderVars, kuVars
    <2>4. ToolPhases' /\ Waiting' /\ MarkInv' /\ HardwareOrBail'
      BY <2>1, <2>2 DEF ToolPhases, Waiting, MarkInv, FirstMark, HardwareOrBail, senderVars, kuVars
    <2> QED
      BY <2>1, <2>3, <2>4, KeptSendInv, KeptRingInv DEF kuVars
  <1>2. CASE Arrive
    <2>1. /\ others < MaxPackets /\ others' = others + 1 /\ regular' = regular + 1
          /\ UNCHANGED <<method, now, start, senderVars, kuVars, tool, wanted, configured, next,
                         calledAt, errors, sent>>
      BY <1>2 DEF Arrive
    <2>2. regular' \in 0 .. MaxPackets /\ others' \in 0 .. MaxPackets /\ regular' <= others'
      BY <2>1 DEF ToolsTypeOK, Waiting
    <2>3. ToolsTypeOK'
      BY <2>1, <2>2 DEF ToolsTypeOK, senderVars, kuVars
    <2>4. ToolPhases' /\ Waiting' /\ MarkInv' /\ HardwareOrBail'
      BY <2>1, <2>2 DEF ToolPhases, Waiting, MarkInv, FirstMark, HardwareOrBail, senderVars, kuVars
    <2> QED
      BY <2>1, <2>3, <2>4, KeptSendInv, KeptRingInv DEF kuVars
  <1> QED
    BY <1>1, <1>2

-----------------------------------------------------------------------------
(* The theorems about LatencyTools.                                        *)

LEMMA NextToolsInv == ToolsInv /\ [ToolsNext]_latencyVars => ToolsInv'
  <1> SUFFICES ASSUME ToolsInv, [ToolsNext]_latencyVars PROVE ToolsInv'
    OBVIOUS
  <1>1. CASE Tick \/ SendData \/ Sigint
    BY <1>1, TickToolsInv, StartToolsInv, LookToolsInv, LoopToolsInv DEF SendData
  <1>2. CASE RecvMsg \/ Tool \/ Arrive
    BY <1>2, RecvMsgToolsInv, SetUpToolsInv, WakeToolsInv, SelectToolsInv DEF Tool
  <1>3. CASE UNCHANGED latencyVars
    <2>1. UNCHANGED <<method, now, start, senderVars, kuVars, toolVars>>
      BY <1>3 DEF latencyVars
    <2>2. ToolsTypeOK' /\ ToolPhases' /\ Waiting'
      BY <2>1 DEF ToolsInv, ToolsTypeOK, ToolPhases, Waiting, senderVars, kuVars, toolVars
    <2> QED
      BY <2>1, <2>2, KeptSendInv, KeptRingInv, KeptMarkInv DEF ToolsInv, kuVars
  <1> QED
    BY <1>1, <1>2, <1>3 DEF ToolsNext

\* The invariant of the latency tools: nextTx and the time the next packet is due
\* are those the number of packets sent says, and the ring holds the last samples.
THEOREM ToolsInvariance == ToolsSpec => []ToolsInv
  <1> QED
    BY InitToolsInv, NextToolsInv, PTL DEF ToolsSpec

\* Every variable has its type, ku-latency's sums are those of its last and of all
\* its samples, and timestamping has the hardware timestamps it was asked for.
THEOREM ToolsConsistent == ToolsSpec => []StateConsistent
  <1>1. ToolsInv => StateConsistent
    <2> SUFFICES ASSUME ToolsInv PROVE StateConsistent
      OBVIOUS
    <2> USE DEF ToolsInv
    <2> DEFINE n == Len(measured)
    <2>1. Max({1, n - NumLatencies + 1}) = Replaced + 1
      <3>1. n \in Nat
        BY DEF RingInv
      <3> DEFINE m == Replaced + 1
                 S == {1, n - NumLatencies + 1}
      <3>2. m \in S /\ \A x \in S : m >= x
        BY <3>1, ToolsConstants DEF Replaced
      <3>3. \A x \in S : x \in Int
        BY <3>1, ToolsConstants
      <3> HIDE DEF S, m
      <3>4. \A x \in S : (\A y \in S : x >= y) => x = m
        BY <3>2, <3>3
      <3>5. Max(S) = m
        BY <3>2, <3>4 DEF Max
      <3> QED
        BY <3>5 DEF S, m
    <2>2. RollingExact
      BY <2>1, RollingIsRecent DEF RingInv, RollingExact
    <2> QED
      BY <2>2 DEF StateConsistent
  <1> QED
    BY <1>1, ToolsInvariance, PTL

\* send-data's schedule does not drift and a process that always runs is on time;
\* timestamping has sent one packet for each mark when it waits.
THEOREM ToolsScheduled == ToolsSpec => []SchedulesKept
  <1>1. ToolsInv => SchedulesKept
    <2> SUFFICES ASSUME ToolsInv PROVE SchedulesKept
      OBVIOUS
    <2> USE ToolsConstants DEF ToolsInv
    <2>1. start \in Nat /\ repeatMs \in Nat /\ transmitted \in Nat /\ sent \in Nat /\ calledAt \in Nat
      BY DEF ToolsTypeOK
    <2>2. NoDrift
      <3> SUFFICES ASSUME sender \in Running
                   PROVE  nextTx = Time(start
                                    + repeatMs * (transmitted - IF sender = "advance" THEN 1 ELSE 0))
        BY DEF NoDrift
      <3>1. CASE sender = "advance"
        <4>1. repeatMs * transmitted = repeatMs * (transmitted - 1) + repeatMs
              /\ repeatMs * (transmitted - 1) \in Int
          BY <2>1
        <4>2. DueTime - repeatMs = start + repeatMs * (transmitted - 1)
          BY <2>1, <4>1 DEF DueTime
        <4> QED
          BY <3>1, <4>2 DEF SendInv
      <3>2. CASE sender # "advance"
        <4>1. DueTime = start + repeatMs * (transmitted - 0)
          BY <2>1 DEF DueTime
        <4> QED
          BY <3>2, <4>1 DEF SendInv
      <3> QED
        BY <3>1, <3>2
    <2>3. OnTime
      BY DEF OnTime, SendInv, DueTime
    <2>4. PacketPerMark
      <3> SUFFICES ASSUME tool = "select"
                   PROVE  sent = Cardinality({t \in FirstMark .. calledAt : t % Slot = 0})
        BY DEF PacketPerMark, FirstMark
      <3> DEFINE q == (start + 1) \div Slot
      <3>1. q \in Nat
        BY <2>1, Divided
      <3>2. FirstMark = q * Slot
        BY DEF FirstMark
      <3> HIDE DEF q
      <3>3. FirstMark = Slot * q /\ Slot * q \in Nat /\ Slot * sent \in Nat
            /\ Slot * (sent - 1) = Slot * sent - Slot
        BY <2>1, <3>1, <3>2
      <3>4. next = FirstMark + Slot * sent /\ calledAt < next /\ (sent > 0 => next - Slot <= calledAt)
        BY DEF MarkInv
      <3>5. /\ calledAt < Slot * q + Slot * sent
            /\ sent > 0 => Slot * q + Slot * (sent - 1) <= calledAt
        BY <2>1, <3>3, <3>4
      <3>6. Cardinality({t \in Slot * q .. calledAt : t % Slot = 0}) = sent
        BY <2>1, <3>1, <3>5, Multiples
      <3> QED
        BY <3>3, <3>6
    <2> QED
      BY <2>2, <2>3, <2>4 DEF SchedulesKept
  <1> QED
    BY <1>1, ToolsInvariance, PTL
=============================================================================
