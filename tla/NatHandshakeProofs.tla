------------------------- MODULE NatHandshakeProofs -------------------------
(***************************************************************************)
(* Proofs about NatHandshake for every number of restarts and every        *)
(* network, lossy or not, duplicating or not.  None of the properties is   *)
(* inductive: IInv adds what a datagram in flight says about the program   *)
(* that sent it, which is what the program that receives it concludes.     *)
(***************************************************************************)
EXTENDS NatHandshake, TLAPS

\* A HOLE-PUNCH is from this run of the client or an earlier one, which got to the
\* socket it was sent over; an ACK-NAT means that the server has taken a HOLE-PUNCH
\* on that socket; an ACK-ACK that some run of the client is done with that socket.
InFlight ==
    \A m \in net :
        /\ m.kind = "HOLE-PUNCH" => m.id \in 1 .. cliId /\ reached[m.id] >= m.sock
        /\ m.kind = "ACK-NAT" => srvStage > m.sock \/ (srvStage = m.sock /\ srvAcking)
        /\ m.kind = "ACK-ACK" => \E c \in ClientIds : reached[c] > m.sock

\* The server has taken a HOLE-PUNCH on the feedback socket.
PastData == srvStage = Running \/ (srvStage = Feedback /\ srvAcking)

\* What each program holds at its stage.
Held ==
    /\ srvRemote = NoId \/ srvRemote \in 1 .. cliId
    /\ srvRemote = NoId => srvStage = Data /\ ~srvAcking
    /\ PastData => reached[srvRemote] > Data
    /\ cliStage # Data => cliRemote = ServerId
    /\ srvStage = Running => ~srvAcking
    /\ reached[cliId] = cliStage
    /\ \A c \in ClientIds : c > cliId => reached[c] = Data

IInv == TypeOK /\ InFlight /\ Held

-----------------------------------------------------------------------------
(* The datagrams.                                                          *)

\* What is known of a datagram from its kind.
LEMMA DatagramFields ==
    ASSUME NEW m \in Datagrams
    PROVE  /\ m.sock \in {Data, Feedback}
           /\ m.kind \in {"HOLE-PUNCH", "ACK-NAT", "ACK-ACK", "DATA"}
           /\ m.kind = "HOLE-PUNCH" => m.id \in ClientIds
           /\ m.kind = "ACK-NAT" => m.id = ServerId
           /\ m.dst = "client" => m.kind = "ACK-NAT"
           /\ m.dst = "server" => m.kind # "ACK-NAT"
  <1>1. 1 .. Sockets = {Data, Feedback}
    BY DEF Sockets, Data, Feedback
  <1>2. CASE \E s \in 1 .. Sockets, c \in ClientIds : m = HolePunch(s, c)
    BY <1>1, <1>2 DEF HolePunch, Datagram
  <1>3. CASE \E s \in 1 .. Sockets : m = AckNat(s)
    BY <1>1, <1>3 DEF AckNat, Datagram
  <1>4. CASE \E s \in 1 .. Sockets : m = AckAck(s)
    BY <1>1, <1>4 DEF AckAck, Datagram
  <1>5. CASE \E c \in ClientIds : m = DataPacket(c)
    BY <1>5 DEF DataPacket, Datagram
  <1> QED
    BY <1>2, <1>3, <1>4, <1>5 DEF Datagrams

\* The fields of the datagrams the programs make.
LEMMA MadeDatagrams ==
    ASSUME NEW s \in {Data, Feedback}, NEW c \in ClientIds
    PROVE  /\ {HolePunch(s, c), AckNat(s), AckAck(s), DataPacket(c)} \subseteq Datagrams
           /\ HolePunch(s, c).kind = "HOLE-PUNCH" /\ HolePunch(s, c).id = c
           /\ HolePunch(s, c).sock = s
           /\ AckNat(s).kind = "ACK-NAT" /\ AckNat(s).sock = s
           /\ AckAck(s).kind = "ACK-ACK" /\ AckAck(s).sock = s
           /\ DataPacket(c).kind = "DATA"
  <1>1. s \in 1 .. Sockets
    BY DEF Sockets, Data, Feedback
  <1> QED
    BY <1>1 DEF Datagrams, HolePunch, AckNat, AckAck, DataPacket, Datagram

\* Receiving a datagram adds none.
LEMMA AfterShrinks ==
    ASSUME NEW m, NEW rest \in After(m)
    PROVE  rest \subseteq net
  BY DEF After

-----------------------------------------------------------------------------
(* The invariant.                                                          *)

LEMMA InitIInv ==
    Init => IInv
  <1> SUFFICES ASSUME Init
               PROVE  IInv
    OBVIOUS
  <1>1. 1 \in ClientIds /\ Data \in Data .. Running /\ Data # Running
    BY MaxRestartsAssumption DEF ClientIds, Data, Running, Sockets
  <1>2. TypeOK
    BY <1>1 DEF Init, TypeOK
  <1>3. InFlight
    BY DEF Init, InFlight
  <1>4. Held
    BY <1>1, MaxRestartsAssumption
       DEF Init, Held, PastData, ClientIds, Running, Sockets, Data, Feedback
  <1> QED
    BY <1>2, <1>3, <1>4 DEF IInv

\* The server learns an id of the client, from this run or an earlier one.
LEMMA PunchIInv ==
    ASSUME IInv, NEW m \in Datagrams, ServerTakesPunch(m)
    PROVE  IInv'
  <1> USE MaxRestartsAssumption
  <1>1. PICK rest \in After(m) :
          IF m.kind = "HOLE-PUNCH"
          THEN srvRemote' = m.id /\ srvAcking' = TRUE /\ net' = rest \union {AckNat(srvStage)}
          ELSE net' = rest /\ UNCHANGED <<srvRemote, srvAcking>>
    BY DEF ServerTakesPunch, Learn
  <1>2. rest \subseteq net
    BY <1>1, AfterShrinks
  <1>3. m \in net /\ m.sock = srvStage /\ ~srvAcking
        /\ UNCHANGED <<restarting, lossy, srvStage, cliId, cliStage, cliRemote, reached, accepted>>
    BY DEF ServerTakesPunch, clientVars, ghostVars
  <1>4. m.sock \in {Data, Feedback} /\ (m.kind = "HOLE-PUNCH" => m.id \in ClientIds)
    BY DatagramFields
  <1>5. srvStage \in {Data, Feedback} /\ srvStage # Running
    BY <1>3, <1>4 DEF Running, Sockets, Data, Feedback
  <1>6. 1 \in ClientIds
    BY DEF ClientIds
  <1>7. AckNat(srvStage) \in Datagrams /\ AckNat(srvStage).kind = "ACK-NAT"
        /\ AckNat(srvStage).sock = srvStage
    BY <1>5, <1>6, MadeDatagrams
  <1>8. TypeOK'
    BY <1>1, <1>2, <1>3, <1>4, <1>7 DEF IInv, TypeOK
  <1>9. InFlight'
    BY <1>1, <1>2, <1>3, <1>7 DEF IInv, InFlight
  <1>10. Held'
    <2>1. CASE m.kind = "HOLE-PUNCH"
      <3>1. m.id \in 1 .. cliId /\ reached[m.id] >= srvStage /\ m.id # NoId
        BY <1>3, <1>4, <2>1 DEF IInv, InFlight, NoId, ClientIds
      <3>2. reached[m.id] \in Nat
        BY <1>4, <2>1 DEF IInv, TypeOK, Data, Running
      <3>3. PastData' => reached[m.id] > Data
        BY <1>3, <1>5, <3>1, <3>2 DEF PastData, Data, Feedback
      <3> QED
        BY <1>1, <1>3, <1>5, <2>1, <3>1, <3>3 DEF IInv, Held
    <2>2. CASE m.kind # "HOLE-PUNCH"
      BY <1>1, <1>3, <2>2 DEF IInv, Held, PastData
    <2> QED
      BY <2>1, <2>2
  <1> QED
    BY <1>8, <1>9, <1>10 DEF IInv

\* The server goes on to the next socket, or acknowledges again.
LEMMA AckIInv ==
    ASSUME IInv, NEW m \in Datagrams, ServerTakesAck(m)
    PROVE  IInv'
  <1> USE MaxRestartsAssumption
  <1>1. PICK rest \in After(m) :
          IF m.kind = "ACK-ACK"
          THEN srvStage' = srvStage + 1 /\ srvAcking' = FALSE /\ net' = rest
          ELSE net' = rest \union {AckNat(srvStage)} /\ UNCHANGED <<srvStage, srvAcking>>
    BY DEF ServerTakesAck, EndsAcking
  <1>2. rest \subseteq net
    BY <1>1, AfterShrinks
  <1>3. m.sock = srvStage /\ srvAcking
        /\ UNCHANGED <<restarting, lossy, srvRemote, cliId, cliStage, cliRemote, reached, accepted>>
    BY DEF ServerTakesAck, clientVars, ghostVars
  <1>4. srvStage \in {Data, Feedback} /\ srvStage # Running
    BY <1>3, DatagramFields DEF Running, Sockets, Data, Feedback
  <1>5. 1 \in ClientIds
    BY DEF ClientIds
  <1>6. AckNat(srvStage) \in Datagrams /\ AckNat(srvStage).kind = "ACK-NAT"
        /\ AckNat(srvStage).sock = srvStage
    BY <1>4, <1>5, MadeDatagrams
  <1>7. srvStage \in Nat /\ srvStage + 1 \in Data .. Running
    BY <1>4 DEF Running, Sockets, Data, Feedback
  <1>8. TypeOK'
    BY <1>1, <1>2, <1>3, <1>6, <1>7 DEF IInv, TypeOK
  <1>9. InFlight'
    <2> SUFFICES ASSUME NEW p \in net'
                 PROVE  /\ p.kind = "HOLE-PUNCH" => p.id \in 1 .. cliId /\ reached[p.id] >= p.sock
                        /\ p.kind = "ACK-NAT" =>
                              srvStage' > p.sock \/ (srvStage' = p.sock /\ srvAcking')
                        /\ p.kind = "ACK-ACK" => \E c \in ClientIds : reached[c] > p.sock
      BY <1>3 DEF InFlight
    <2>1. CASE p \in net
      <3>1. p.sock \in Nat
        BY <2>1, DatagramFields DEF IInv, TypeOK, Data, Feedback
      <3>2. srvStage' = srvStage + 1 \/ (srvStage' = srvStage /\ srvAcking')
        BY <1>1, <1>3
      <3> QED
        BY <1>7, <2>1, <3>1, <3>2 DEF IInv, InFlight
    <2>2. CASE p \notin net
      BY <1>1, <1>2, <1>3, <1>6, <2>2
    <2> QED
      BY <2>1, <2>2
  <1>10. Held'
    <2>1. CASE m.kind = "ACK-ACK" /\ srvStage = Data
      <3>1. ~PastData'
        BY <1>1, <2>1 DEF PastData, Data, Feedback, Running, Sockets
      <3> QED
        BY <1>1, <1>3, <1>4, <2>1, <3>1 DEF IInv, Held, Data, Running, Sockets
    <2>2. CASE m.kind = "ACK-ACK" /\ srvStage = Feedback
      <3>1. PastData
        BY <1>3, <2>2 DEF PastData
      <3> QED
        BY <1>1, <1>3, <2>2, <3>1 DEF IInv, Held
    <2>3. CASE m.kind # "ACK-ACK"
      BY <1>1, <1>3, <2>3 DEF IInv, Held, PastData
    <2> QED
      BY <1>4, <2>1, <2>2, <2>3
  <1> QED
    BY <1>8, <1>9, <1>10 DEF IInv

\* The client goes on to the next socket, holding the id of the server.
LEMMA AnswerIInv ==
    ASSUME IInv, NEW m \in Datagrams, ClientTakesAck(m)
    PROVE  IInv'
  <1> USE MaxRestartsAssumption
  <1>1. PICK rest \in After(m) : net' = rest \union {AckAck(cliStage)}
    BY DEF ClientTakesAck
  <1>2. rest \subseteq net
    BY <1>1, AfterShrinks
  <1>3. m.dst = "client" /\ m.sock = cliStage /\ cliRemote' = m.id /\ cliStage' = cliStage + 1
        /\ reached' = [reached EXCEPT ![cliId] = cliStage + 1]
        /\ UNCHANGED <<restarting, lossy, srvStage, srvAcking, srvRemote, cliId, accepted>>
    BY DEF ClientTakesAck, AnswersMe, serverVars
  <1>4. cliStage \in {Data, Feedback} /\ cliRemote' = ServerId
    BY <1>3, DatagramFields
  <1>5. 1 \in ClientIds
    BY DEF ClientIds
  <1>6. AckAck(cliStage) \in Datagrams /\ AckAck(cliStage).kind = "ACK-ACK"
        /\ AckAck(cliStage).sock = cliStage
    BY <1>4, <1>5, MadeDatagrams
  <1>7. cliStage \in Nat /\ cliStage + 1 \in Data .. Running
    BY <1>4 DEF Running, Sockets, Data, Feedback
  <1>8. /\ cliId \in ClientIds /\ reached \in [ClientIds -> Data .. Running]
        /\ reached[cliId] = cliStage
    BY DEF IInv, TypeOK, Held
  <1>9. /\ reached' \in [ClientIds -> Data .. Running]
        /\ reached'[cliId] = cliStage + 1
        /\ \A c \in ClientIds \ {cliId} : reached'[c] = reached[c]
        /\ \A c \in ClientIds : reached[c] \in Nat /\ reached'[c] \in Nat /\ reached[c] <= reached'[c]
    BY <1>3, <1>7, <1>8 DEF Data, Running
  <1>10. TypeOK'
    BY <1>1, <1>2, <1>3, <1>4, <1>6, <1>7, <1>9 DEF IInv, TypeOK
  <1>11. InFlight'
    <2>1. ASSUME NEW p \in net'
          PROVE  /\ p.kind = "HOLE-PUNCH" => p.id \in 1 .. cliId /\ reached'[p.id] >= p.sock
                 /\ p.kind = "ACK-NAT" => srvStage > p.sock \/ (srvStage = p.sock /\ srvAcking)
                 /\ p.kind = "ACK-ACK" => \E c \in ClientIds : reached'[c] > p.sock
      <3>1. CASE p \in net
        <4>1. p.sock \in Nat /\ (p.kind = "HOLE-PUNCH" => p.id \in ClientIds)
          BY <3>1, DatagramFields DEF IInv, TypeOK, Data, Feedback
        <4> QED
          BY <1>9, <3>1, <4>1 DEF IInv, InFlight
      <3>2. CASE p = AckAck(cliStage)
        BY <1>6, <1>7, <1>8, <1>9, <3>2
      <3> QED
        BY <1>1, <1>2, <2>1, <3>1, <3>2
    <2> QED
      BY <1>3, <2>1 DEF InFlight
  <1>12. Held'
    <2>1. PastData' => reached'[srvRemote] > Data
      <3>1. CASE PastData
        <4>1. srvRemote \in ClientIds /\ reached[srvRemote] > Data
          BY <3>1 DEF IInv, TypeOK, Held, PastData, Data, Feedback, Running, Sockets
        <4> QED
          BY <1>9, <4>1 DEF Data
      <3>2. CASE ~PastData
        BY <1>3, <3>2 DEF PastData
      <3> QED
        BY <3>1, <3>2
    <2>2. \A c \in ClientIds : c > cliId => c # cliId
      BY DEF ClientIds
    <2> QED
      BY <1>3, <1>4, <1>8, <1>9, <2>1, <2>2 DEF IInv, Held
  <1> QED
    BY <1>10, <1>11, <1>12 DEF IInv

\* Datagrams come and go; the programs stay where they are.
LEMMA NetIInv ==
    ASSUME IInv,
           UNCHANGED <<restarting, lossy, serverVars, clientVars, reached>>,
           net' \subseteq Datagrams,
           \A m \in net' \ net :
               /\ m.kind = "HOLE-PUNCH" => m.id = cliId /\ m.sock = cliStage
               /\ m.kind = "ACK-NAT" => m.sock = srvStage /\ srvAcking
               /\ m.kind # "ACK-ACK",
           accepted' = accepted \/ (srvStage = Running /\ accepted' = accepted \union {srvRemote})
    PROVE  IInv'
  <1> USE MaxRestartsAssumption DEF serverVars, clientVars
  <1>1. srvStage = Running => srvRemote \in ClientIds
    BY DEF IInv, TypeOK, Held, Running, Sockets, Data
  <1>2. TypeOK'
    BY <1>1 DEF IInv, TypeOK
  <1>3. InFlight'
    <2>1. reached[cliId] >= cliStage /\ cliId \in 1 .. cliId
      BY DEF IInv, TypeOK, Held, ClientIds, Data, Running
    <2> QED
      BY <2>1 DEF IInv, InFlight
  <1>4. Held'
    BY DEF IInv, Held, PastData
  <1> QED
    BY <1>2, <1>3, <1>4 DEF IInv

\* A new run has a later id and holds nothing.
LEMMA RestartIInv ==
    ASSUME IInv, ClientRestarts
    PROVE  IInv'
  <1> USE MaxRestartsAssumption DEF ClientRestarts, serverVars, ghostVars
  <1>1. TypeOK'
    BY DEF IInv, TypeOK, ClientIds, Data, Running, Sockets
  <1>2. InFlight'
    BY DEF IInv, InFlight, TypeOK, ClientIds
  <1>3. Held'
    BY DEF IInv, Held, PastData, TypeOK, ClientIds
  <1> QED
    BY <1>1, <1>2, <1>3 DEF IInv

LEMMA StepIInv ==
    IInv /\ [Next]_vars => IInv'
  <1> SUFFICES ASSUME IInv, [Next]_vars
               PROVE  IInv'
    OBVIOUS
  <1> USE MaxRestartsAssumption
  <1>1. net \subseteq Datagrams /\ cliId \in ClientIds
    BY DEF IInv, TypeOK
  <1>2. srvAcking => srvStage \in {Data, Feedback}
    BY DEF IInv, TypeOK, Held, Running, Sockets, Data, Feedback
  <1>3. CASE \E m \in Datagrams : ServerTakesPunch(m)
    BY <1>3, PunchIInv
  <1>4. CASE \E m \in Datagrams : ServerTakesAck(m)
    BY <1>4, AckIInv
  <1>5. CASE ServerRepeatsAck
    <2>1. AckNat(srvStage) \in Datagrams /\ AckNat(srvStage).kind = "ACK-NAT"
          /\ AckNat(srvStage).sock = srvStage
      BY <1>1, <1>2, <1>5, MadeDatagrams DEF ServerRepeatsAck
    <2> QED
      BY <1>1, <1>5, <2>1, NetIInv DEF ServerRepeatsAck, ghostVars
  <1>6. CASE \E m \in Datagrams : ServerReads(m)
    <2>1. PICK m \in Datagrams : ServerReads(m)
      BY <1>6
    <2>2. net' \subseteq net
      BY <2>1, AfterShrinks DEF ServerReads
    <2>3. srvStage = Running
          /\ (accepted' = accepted \/ accepted' = accepted \union {srvRemote})
      BY <2>1 DEF ServerReads, ForMe
    <2> QED
      BY <1>1, <2>1, <2>2, <2>3, NetIInv DEF ServerReads
  <1>7. CASE ClientPunches
    <2>1. cliStage \in {Data, Feedback}
      BY <1>7 DEF ClientPunches, IInv, TypeOK, Running, Sockets, Data, Feedback
    <2>2. HolePunch(cliStage, cliId) \in Datagrams
          /\ HolePunch(cliStage, cliId).kind = "HOLE-PUNCH"
          /\ HolePunch(cliStage, cliId).id = cliId
          /\ HolePunch(cliStage, cliId).sock = cliStage
      BY <1>1, <2>1, MadeDatagrams
    <2> QED
      BY <1>1, <1>7, <2>2, NetIInv DEF ClientPunches, ghostVars
  <1>8. CASE \E m \in Datagrams : ClientTakesAck(m)
    BY <1>8, AnswerIInv
  <1>9. CASE ClientSendsData
    <2>1. DataPacket(cliId) \in Datagrams /\ DataPacket(cliId).kind = "DATA"
      BY <1>1, MadeDatagrams
    <2> QED
      BY <1>1, <1>9, <2>1, NetIInv DEF ClientSendsData, ghostVars
  <1>10. CASE \E m \in Datagrams : ClientDropsAck(m)
    <2>1. PICK m \in Datagrams : ClientDropsAck(m)
      BY <1>10
    <2>2. net' \subseteq net
      BY <2>1, AfterShrinks DEF ClientDropsAck
    <2> QED
      BY <1>1, <2>1, <2>2, NetIInv DEF ClientDropsAck, ghostVars
  <1>11. CASE ClientRestarts
    BY <1>11, RestartIInv
  <1>12. CASE \E m \in Datagrams : Lose(m)
    BY <1>1, <1>12, NetIInv DEF Lose, ghostVars
  <1>13. CASE UNCHANGED vars
    BY <1>1, <1>13, NetIInv DEF vars, ghostVars
  <1> QED
    BY <1>3, <1>4, <1>5, <1>6, <1>7, <1>8, <1>9, <1>10, <1>11, <1>12, <1>13 DEF Next

THEOREM Invariance ==
    Spec => []IInv
  BY InitIInv, StepIInv, PTL DEF Spec

-----------------------------------------------------------------------------
\* Every variable of both programs and of the network has its type.
THEOREM HandshakeTypes ==
    Spec => []TypeOK
  BY Invariance, PTL DEF IInv

\* However often the client is restarted and whatever the network loses, repeats
\* or reorders, both programs hold each other's id in their main loops unless an
\* earlier run got past the data socket.
THEOREM HandshakeAgrees ==
    Spec => []AgreementPastData
  <1>1. IInv => AgreementPastData
    <2> SUFFICES ASSUME IInv, \A c \in ClientIds \ {cliId} : reached[c] = Data,
                        srvStage = Running, cliStage = Running
                 PROVE  srvRemote = cliId /\ cliRemote = ServerId
      BY DEF AgreementPastData, Agreement
    <2>1. srvRemote \in ClientIds /\ reached[srvRemote] > Data
      BY DEF IInv, TypeOK, Held, PastData, Data, Running, Sockets
    <2>2. cliRemote = ServerId
      BY DEF IInv, Held, Data, Running, Sockets
    <2> QED
      BY <2>1, <2>2 DEF Data
  <1> QED
    BY <1>1, Invariance, PTL

\* However often the client is restarted, the run whose data the server takes is
\* one that got past the data socket.
THEOREM HandshakeServesKnownRun ==
    Spec => []ServedRunPassedData
  <1>1. IInv => ServedRunPassedData
    BY DEF IInv, Held, PastData, ServedRunPassedData, Data, Running, Sockets
  <1> QED
    BY <1>1, Invariance, PTL

-----------------------------------------------------------------------------
(* The refinement.                                                         *)

\* Some run got furthest.
LEMMA FurthestIs ==
    ASSUME TypeOK
    PROVE  /\ Furthest \in 1 .. 3
           /\ \E c \in ClientIds : reached[c] = Furthest
           /\ \A c \in ClientIds : reached[c] <= Furthest
  <1> DEFINE Top(s) == /\ \E c \in ClientIds : reached[c] = s
                       /\ \A c \in ClientIds : reached[c] <= s
  <1>1. Data .. Running = {1, 2, 3} /\ 1 \in ClientIds
    BY MaxRestartsAssumption DEF Data, Running, Sockets, ClientIds
  <1>2. \A c \in ClientIds : reached[c] \in {1, 2, 3}
    BY <1>1 DEF TypeOK
  <1>3. \E s \in Data .. Running : Top(s)
    <2>1. CASE \E c \in ClientIds : reached[c] = 3
      BY <1>1, <1>2, <2>1
    <2>2. CASE (\A c \in ClientIds : reached[c] # 3) /\ \E c \in ClientIds : reached[c] = 2
      BY <1>1, <1>2, <2>2
    <2>3. CASE \A c \in ClientIds : reached[c] # 3 /\ reached[c] # 2
      BY <1>1, <1>2, <2>3
    <2> QED
      BY <2>1, <2>2, <2>3
  <1>4. Furthest \in Data .. Running /\ Top(Furthest)
    BY <1>3 DEF Furthest
  <1> QED
    BY <1>1, <1>4

\* Where no run gets further, none is further than before.
LEMMA FurthestIsUnique ==
    ASSUME TypeOK, NEW s, NEW c \in ClientIds, reached[c] = s,
           \A d \in ClientIds : reached[d] <= s
    PROVE  Furthest = s
  <1>1. \A d \in ClientIds : reached[d] \in Nat
    BY DEF TypeOK, Data, Running
  <1> QED
    BY <1>1, FurthestIs

\* The same of the next state.
LEMMA FurthestPrime ==
    ASSUME TypeOK', NEW s, NEW c \in ClientIds, reached'[c] = s,
           \A d \in ClientIds : reached'[d] <= s
    PROVE  Furthest' = s
  <1>1. Data .. Running = {1, 2, 3}
    BY DEF Data, Running, Sockets
  <1>2. \A d \in ClientIds : reached'[d] \in {1, 2, 3}
    BY <1>1 DEF TypeOK
  <1>3. Furthest' = CHOOSE t \in Data .. Running : /\ \E d \in ClientIds : reached'[d] = t
                                                   /\ \A d \in ClientIds : reached'[d] <= t
    BY DEF Furthest
  <1>4. s \in Data .. Running
    BY <1>1, <1>2
  <1>5. \A t \in Data .. Running :
          (\E d \in ClientIds : reached'[d] = t) /\ (\A d \in ClientIds : reached'[d] <= t) => t = s
    BY <1>1, <1>2, <1>4
  <1> QED
    BY <1>3, <1>4, <1>5

LEMMA InitExchange ==
    Init => Exchange!Init
  <1> SUFFICES ASSUME Init PROVE Exchange!Init
    OBVIOUS
  <1>1. TypeOK
    BY InitIInv DEF IInv
  <1>2. Furthest = Data
    <2>1. 1 \in ClientIds /\ \A c \in ClientIds : reached[c] = Data
      BY MaxRestartsAssumption DEF Init, ClientIds
    <2>2. \A c \in ClientIds : reached[c] <= Data
      BY <2>1 DEF Data
    <2> QED
      BY <1>1, <2>1, <2>2, FurthestIsUnique
  <1> QED
    BY <1>2 DEF Init, Exchange!Init, Data

\* Every step of the handshake is one of the exchange, or none.
LEMMA StepExchange ==
    IInv /\ [Next]_vars => [Exchange!Next]_Exchange!exchange
  <1> SUFFICES ASSUME IInv, [Next]_vars
               PROVE  [Exchange!Next]_Exchange!exchange
    OBVIOUS
  <1>1. srvStage \in 1 .. 3 /\ cliStage \in 1 .. 3 /\ srvAcking \in BOOLEAN
    BY DEF IInv, TypeOK, Data, Running, Sockets
  <1>2. /\ Furthest \in 1 .. 3
        /\ \A c \in ClientIds : reached[c] <= Furthest /\ reached[c] \in Nat
    BY FurthestIs DEF IInv, TypeOK, Data, Running
  <1>3. ASSUME reached' = reached
        PROVE  Furthest' = Furthest
    BY <1>3 DEF Furthest
  <1>4. ASSUME UNCHANGED <<srvStage, srvAcking, reached>>
        PROVE  UNCHANGED Exchange!exchange
    BY <1>3, <1>4 DEF Exchange!exchange
  <1>5. CASE \E m \in Datagrams : ServerTakesPunch(m)
    <2>1. PICK m \in Datagrams : ServerTakesPunch(m)
      BY <1>5
    <2>2. srvStage \in 1 .. 2 /\ Furthest' = Furthest
      BY <1>3, <2>1, DatagramFields DEF ServerTakesPunch, ghostVars, Data, Feedback
    <2>3. CASE m.kind = "HOLE-PUNCH"
      <3>1. Exchange!ServerLearns
        BY <1>1, <2>1, <2>2, <2>3 DEF Exchange!ServerLearns, ServerTakesPunch, Sockets
      <3> QED
        BY <3>1 DEF Exchange!Next
    <2>4. CASE m.kind # "HOLE-PUNCH"
      BY <1>4, <2>1, <2>4 DEF ServerTakesPunch, ghostVars
    <2> QED
      BY <2>3, <2>4
  <1>6. CASE \E m \in Datagrams : ServerTakesAck(m)
    <2>1. PICK m \in Datagrams : ServerTakesAck(m)
      BY <1>6
    <2>2. CASE m.kind = "ACK-ACK"
      <3>1. PICK c \in ClientIds : reached[c] > srvStage
        BY <2>1, <2>2 DEF ServerTakesAck, IInv, InFlight
      <3>2. Furthest > srvStage
        BY <1>1, <1>2, <3>1
      <3>3. srvStage' = srvStage + 1 /\ srvAcking' = FALSE /\ srvAcking /\ Furthest' = Furthest
        BY <1>3, <2>1, <2>2 DEF ServerTakesAck, EndsAcking, ghostVars
      <3>4. Exchange!ServerFinishes
        BY <1>1, <1>2, <3>2, <3>3 DEF Exchange!ServerFinishes
      <3> QED
        BY <3>4 DEF Exchange!Next
    <2>3. CASE m.kind # "ACK-ACK"
      BY <1>4, <2>1, <2>3 DEF ServerTakesAck, EndsAcking, ghostVars
    <2> QED
      BY <2>2, <2>3
  <1>7. CASE \E m \in Datagrams : ClientTakesAck(m)
    <2>1. PICK m \in Datagrams : ClientTakesAck(m)
      BY <1>7
    <2>2. srvStage > cliStage \/ (srvStage = cliStage /\ srvAcking)
      BY <2>1, DatagramFields DEF ClientTakesAck, AnswersMe, IInv, InFlight
    <2>3. /\ reached' = [reached EXCEPT ![cliId] = cliStage + 1]
          /\ UNCHANGED <<srvStage, srvAcking>>
      BY <2>1 DEF ClientTakesAck, serverVars
    <2>4. TypeOK' /\ cliId \in ClientIds /\ reached \in [ClientIds -> Data .. Running]
      BY <2>1, AnswerIInv DEF IInv, TypeOK
    <2>5. /\ reached'[cliId] = cliStage + 1
          /\ \A c \in ClientIds \ {cliId} : reached'[c] = reached[c]
      BY <2>3, <2>4
    <2>6. CASE cliStage = Furthest
      <3>1. Furthest' = Furthest + 1
        <4>1. \A c \in ClientIds : reached'[c] <= Furthest + 1
          BY <1>2, <2>5, <2>6
        <4> QED
          BY <2>4, <2>5, <2>6, <4>1, <1>2, FurthestPrime
      <3>2. Exchange!ClientFinishes
        BY <1>1, <1>2, <2>2, <2>3, <2>6, <3>1 DEF Exchange!ClientFinishes
      <3> QED
        BY <3>2 DEF Exchange!Next
    <2>7. CASE cliStage # Furthest
      <3>1. Furthest' = Furthest
        <4>1. PICK c \in ClientIds : reached[c] = Furthest
          BY FurthestIs DEF IInv
        <4>2. reached[cliId] = cliStage
          BY DEF IInv, Held
        <4>3. c # cliId /\ reached'[c] = Furthest
          BY <2>5, <2>7, <4>1, <4>2
        <4>4. cliStage + 1 <= Furthest
          BY <1>1, <1>2, <2>4, <2>7, <4>2
        <4>5. \A d \in ClientIds : reached'[d] <= Furthest
          BY <1>2, <2>5, <4>4
        <4> QED
          BY <1>2, <2>4, <4>3, <4>5, FurthestPrime
      <3> QED
        BY <2>3, <3>1 DEF Exchange!exchange
    <2> QED
      BY <2>6, <2>7
  <1>8. CASE \/ ServerRepeatsAck \/ ClientPunches \/ ClientSendsData \/ ClientRestarts
             \/ \E m \in Datagrams : ServerReads(m) \/ ClientDropsAck(m) \/ Lose(m)
    BY <1>4, <1>8 DEF ServerRepeatsAck, ClientPunches, ClientSendsData, ClientRestarts, ServerReads,
                      ClientDropsAck, Lose, serverVars, clientVars, ghostVars
  <1>9. CASE UNCHANGED vars
    BY <1>4, <1>9 DEF vars, serverVars, clientVars, ghostVars
  <1> QED
    BY <1>5, <1>6, <1>7, <1>8, <1>9 DEF Next

\* However often the client is restarted, the handshake implements the exchange of
\* ids, one socket after the other, in which neither program runs ahead.
THEOREM HandshakeImplementsExchange ==
    Spec => ExchangesIds
  BY InitExchange, StepExchange, Invariance, PTL DEF Spec, ExchangesIds, Exchange!Spec
=============================================================================
