---------------------------- MODULE NatHandshake ----------------------------
(***************************************************************************)
(* How the two-way saturator starts: punch_nat_hole of codel-client.cc     *)
(* against get_nat_addr of codel-server.cc, first over the data socket and *)
(* then over the feedback socket, then the loops of both programs, which   *)
(* take only the packets of the peer whose id they hold.                   *)
(*                                                                         *)
(* The client repeats HOLE-PUNCH until an ACK-NAT comes back, answers it   *)
(* with one ACK-ACK and goes on; the server repeats ACK-NAT until an       *)
(* ACK-ACK comes.  Datagrams are lost, delayed and reordered, and arrive   *)
(* more than once because they are repeated; one element of `net' stands   *)
(* for every copy in flight.  The one-second poll timeouts let either side *)
(* send again at any moment.  The client binds fixed ports, so a new run   *)
(* of it answers to the address the server knows; what tells one run from  *)
(* another is the id it draws.                                             *)
(***************************************************************************)
EXTENDS Naturals

CONSTANTS
    MaxRestarts,  \* bound: how often the client is started again
    Duplicating   \* may the network deliver a datagram and keep a copy?

ASSUME MaxRestartsAssumption == MaxRestarts \in Nat
ASSUME DuplicatingAssumption == Duplicating \in BOOLEAN

\* The sockets, in the order both programs shake hands over them.
Data     == 1
Feedback == 2
Sockets  == 2
Running  == Sockets + 1   \* the stage of a program in its main loop

ServerId  == 0
NoId      == MaxRestarts + 2
ClientIds == 1 .. MaxRestarts + 1

VARIABLES
    restarting, \* is the client killed and started again?
    lossy,      \* does the network lose datagrams?
    net,        \* the datagrams in flight
    srvStage,   \* server: the socket it shakes hands over, or Running
    srvAcking,  \* server: sends ACK-NAT until an ACK-ACK comes
    srvRemote,  \* server: remote_id
    cliId,      \* client: local_id
    cliStage,   \* client: the socket it shakes hands over, or Running
    cliRemote,  \* client: remote_id
    reached,    \* history: the last stage of each run of the client
    accepted    \* history: ids of the data packets the server has taken

serverVars == <<srvStage, srvAcking, srvRemote>>
clientVars == <<cliId, cliStage, cliRemote>>
ghostVars  == <<reached, accepted>>
vars == <<restarting, lossy, net, serverVars, clientVars, ghostVars>>

Datagram(dst, sock, kind, id) == [dst |-> dst, sock |-> sock, kind |-> kind, id |-> id]
HolePunch(sock, id) == Datagram("server", sock, "HOLE-PUNCH", id)

\* Bug: the answer goes out of the feedback socket.
AckNatOnFeedback(sock) == Datagram("client", Feedback, "ACK-NAT", ServerId)

AckNat(sock)        == Datagram("client", sock, "ACK-NAT", ServerId)
AckAck(sock)        == Datagram("server", sock, "ACK-ACK", NoId)  \* carries no id

\* Bug: the data is not stamped with the id of the client.
DataPacketUnstamped(id) == Datagram("server", Data, "DATA", NoId)

DataPacket(id)      == Datagram("server", Data, "DATA", id)

Datagrams ==
    { HolePunch(s, c) : s \in 1 .. Sockets, c \in ClientIds }
    \union { AckNat(s) : s \in 1 .. Sockets }
    \union { AckAck(s) : s \in 1 .. Sockets }
    \union { DataPacket(c) : c \in ClientIds }

Init ==
    /\ restarting \in BOOLEAN
    /\ lossy \in BOOLEAN
    /\ net = {}
    /\ srvStage = Data
    /\ srvAcking = FALSE
    /\ srvRemote = NoId
    /\ cliId = 1
    /\ cliStage = Data
    /\ cliRemote = NoId
    /\ reached = [c \in ClientIds |-> Data]
    /\ accepted = {}

-----------------------------------------------------------------------------
(* The server, get_nat_addr.                                               *)

\* Datagrams that remain in flight when m is received: a duplicating network may
\* deliver it again, in this run of the client or a later one.
After(m) == {net \ {m}} \union (IF Duplicating THEN {net} ELSE {})

\* Bug: remote_id is not set.
LearnNothing(m) == UNCHANGED srvRemote

\* Bug: the server stores its own id.
LearnOwn(m) == srvRemote' = ServerId

\* Bug: the id of the first socket is kept.
LearnFirst(m) == srvRemote' = IF srvRemote = NoId THEN m.id ELSE srvRemote

\* got public end point and remote ID
Learn(m) == srvRemote' = m.id

\* Blocks in recv() until a datagram on this socket starts with HOLE-PUNCH,
\* takes the id that follows as that of the client, and acknowledges it.
ServerTakesPunch(m) ==
    /\ m \in net /\ m.dst = "server" /\ m.sock = srvStage
    /\ ~srvAcking
    /\ \E rest \in After(m) :
        IF m.kind = "HOLE-PUNCH"
        THEN /\ Learn(m)
             /\ srvAcking' = TRUE
             /\ net' = rest \union {AckNat(srvStage)}
        ELSE /\ net' = rest
             /\ UNCHANGED <<srvRemote, srvAcking>>
    /\ UNCHANGED <<restarting, lossy, srvStage, clientVars, ghostVars>>

\* Bug: any datagram ends the loop.
EndsAckingAlways(m) == TRUE

EndsAcking(m) == m.kind = "ACK-ACK"

\* One turn of the loop: leaves on an ACK-ACK, from whomever it comes; any
\* other datagram makes it send the ACK-NAT again.
ServerTakesAck(m) ==
    /\ m \in net /\ m.dst = "server" /\ m.sock = srvStage
    /\ srvAcking
    /\ \E rest \in After(m) :
        IF EndsAcking(m)
        THEN /\ srvStage' = srvStage + 1
             /\ srvAcking' = FALSE
             /\ net' = rest
        ELSE /\ net' = rest \union {AckNat(srvStage)}
             /\ UNCHANGED <<srvStage, srvAcking>>
    /\ UNCHANGED <<restarting, lossy, srvRemote, clientVars, ghostVars>>

\* One second without a datagram: the ACK-NAT goes out again.
ServerRepeatsAck ==
    /\ srvAcking
    /\ net' = net \union {AckNat(srvStage)}
    /\ UNCHANGED <<restarting, lossy, serverVars, clientVars, ghostVars>>

\* This is data: its first word is remote_id.
ForMe(m) == m.kind = "DATA" /\ m.id = srvRemote

\* The main loop of codel-server: what does not carry remote_id is dropped.
ServerReads(m) ==
    /\ m \in net /\ m.dst = "server"
    /\ srvStage = Running
    /\ net' \in After(m)
    /\ accepted' = IF ForMe(m) THEN accepted \union {m.id} ELSE accepted
    /\ UNCHANGED <<restarting, lossy, serverVars, clientVars, reached>>

-----------------------------------------------------------------------------
(* The client, punch_nat_hole.                                             *)

\* The top of the loop, once a second until an ACK-NAT is received.
ClientPunches ==
    /\ cliStage # Running
    /\ net' = net \union {HolePunch(cliStage, cliId)}
    /\ UNCHANGED <<restarting, lossy, serverVars, clientVars, ghostVars>>

\* An ACK-NAT on the socket the client shakes hands over.
AnswersMe(m) == m.dst = "client" /\ m.sock = cliStage

\* Takes the id of the server from the ACK-NAT, acknowledges it once and
\* goes on to the next socket, or to its main loop.
ClientTakesAck(m) ==
    /\ m \in net /\ AnswersMe(m)
    /\ cliRemote' = m.id
    /\ \E rest \in After(m) : net' = rest \union {AckAck(cliStage)}
    /\ cliStage' = cliStage + 1
    /\ reached' = [reached EXCEPT ![cliId] = cliStage + 1]
    /\ UNCHANGED <<restarting, lossy, serverVars, cliId, accepted>>

\* The main loop of codel-client: sends data with its own id ...
ClientSendsData ==
    /\ cliStage = Running
    /\ net' = net \union {DataPacket(cliId)}
    /\ UNCHANGED <<restarting, lossy, serverVars, clientVars, ghostVars>>

\* ... and drops an ACK-NAT still in flight, on either socket: its first bytes are
\* not an id.  The data and the feedback of the server, which pass the same two
\* filters of the client, are not in this module.
ClientDropsAck(m) ==
    /\ m \in net /\ m.dst = "client"
    /\ cliStage = Running
    /\ net' \in After(m)
    /\ UNCHANGED <<restarting, lossy, serverVars, clientVars, ghostVars>>

\* The client is killed and started again: a new id, from the beginning.
ClientRestarts ==
    /\ restarting /\ cliId <= MaxRestarts
    /\ cliId' = cliId + 1
    /\ cliStage' = Data
    /\ cliRemote' = NoId
    /\ UNCHANGED <<restarting, lossy, net, serverVars, ghostVars>>

-----------------------------------------------------------------------------
Lose(m) ==
    /\ lossy
    /\ m \in net
    /\ net' = net \ {m}
    /\ UNCHANGED <<restarting, lossy, serverVars, clientVars, ghostVars>>

ServerHandles(m) == ServerTakesPunch(m) \/ ServerTakesAck(m) \/ ServerReads(m)
ClientHandles(m) == ClientTakesAck(m) \/ ClientDropsAck(m)

Next ==
    \/ \E m \in Datagrams : ServerTakesPunch(m)
    \/ \E m \in Datagrams : ServerTakesAck(m)
    \/ ServerRepeatsAck
    \/ \E m \in Datagrams : ServerReads(m)
    \/ ClientPunches
    \/ \E m \in Datagrams : ClientTakesAck(m)
    \/ ClientSendsData
    \/ \E m \in Datagrams : ClientDropsAck(m)
    \/ ClientRestarts
    \/ \E m \in Datagrams : Lose(m)

Spec == Init /\ [][Next]_vars

\* What is said of fair behaviours concerns the first run of the client.
FirstRun == { m \in Datagrams : m.id \in {1, ServerId, NoId} }

\* Each program keeps running, so its timeouts fire; and the network is fair:
\* a datagram that is sent again and again is in the end delivered.
Fairness ==
    /\ WF_vars(ServerRepeatsAck)
    /\ WF_vars(ClientPunches)
    /\ WF_vars(ClientSendsData)
    /\ \A m \in FirstRun : IF m.dst = "server" THEN SF_vars(ServerHandles(m))
                                               ELSE SF_vars(ClientHandles(m))

FairSpec == Spec /\ Fairness
-----------------------------------------------------------------------------
TypeOK ==
    /\ {restarting, lossy} \subseteq BOOLEAN
    /\ net \subseteq Datagrams
    /\ srvStage \in Data .. Running
    /\ srvAcking \in BOOLEAN
    /\ srvRemote \in ClientIds \union {NoId}
    /\ cliId \in ClientIds
    /\ cliStage \in Data .. Running
    /\ cliRemote \in {ServerId, NoId}
    /\ reached \in [ClientIds -> Data .. Running]
    /\ accepted \subseteq ClientIds

\* When both programs are in their main loops each holds the id of the other.
Agreement ==
    srvStage = Running /\ cliStage = Running => srvRemote = cliId /\ cliRemote = ServerId

\* They do unless an earlier run of the client got past the data socket: a run
\* that was killed before that does no harm, whatever it has left in flight.
AgreementPastData == (\A c \in ClientIds \ {cliId} : reached[c] = Data) => Agreement

\* In its main loop the server holds the id of a run that got past the data
\* socket, so has learned the id of the server, however many runs there were: the
\* id it ends up with is that of the second handshake, never of the first.
ServedRunPassedData == srvStage = Running => srvRemote # NoId /\ reached[srvRemote] > Data

\* The stage that the run of the client that got furthest has reached.
Furthest ==
    CHOOSE s \in Data .. Running : /\ \E c \in ClientIds : reached[c] = s
                                  /\ \A c \in ClientIds : reached[c] <= s

Exchange == INSTANCE IdExchange WITH
    serverKnows <- (srvStage - 1) + (IF srvAcking THEN 1 ELSE 0),
    clientDone  <- Furthest - 1,
    serverDone  <- srvStage - 1

\* The handshake implements the exchange of ids on the two sockets, where the
\* runs of the client together are one side: the server is done with a socket
\* only after some run is, and no run is before the server has an id on it.
ExchangesIds == Exchange!Spec

\* Both sides repeat the first half of the handshake, so a client over a lossy
\* network in the end gets past the data socket.
ClientGetsAnswer == restarting \/ <>(cliStage > Data)

\* Over a network that loses nothing both programs reach their main loops and
\* the data of the client is taken by the server.
DataFlows == ~lossy /\ ~restarting => <>(cliId \in accepted)

\* Both halves of the progress that the repeated datagrams are for.
HandshakeProgress == ClientGetsAnswer /\ DataFlows
=============================================================================
