---------------------------- MODULE PortStreams ----------------------------
(***************************************************************************)
(* The generators of traffic over many ports: a client that opens a socket *)
(* for each of NUM_CONN connections and says hello on it with an empty     *)
(* datagram, and a server that waits for NUM_CONN datagrams and then sends *)
(* to the addresses they came from in turn.  There are three pairs of      *)
(* programs: udp-jni, whose client stops after NUM_PACKETS datagrams,      *)
(* cross-traffic-gen, whose client never does, and udp-fixed-srtt, whose   *)
(* client echoes what it gets to a second thread of the server.            *)
(*                                                                         *)
(* A datagram goes straight into the socket of its destination, is lost,   *)
(* or finds no socket there, which a connected socket reports as an error  *)
(* the next time it is read.  The pauses between datagrams are abstracted  *)
(* to any time.                                                            *)
(***************************************************************************)
EXTENDS Integers, Sequences, SequencesExt

CONSTANTS
    NumConns,    \* NUM_CONN
    NumPackets,  \* NUM_PACKETS
    Room,        \* bound: datagrams that wait in a socket of the client, or ACKs for the server
    MaxStarts    \* bound: how often the client is started

ASSUME PortsAssumption ==
    /\ {NumConns, Room, MaxStarts} \subseteq Nat \ {0}
    /\ NumPackets \in Nat

Conns == 0 .. NumConns - 1

VARIABLES
    program,         \* which pair of programs
    lossy,           \* does the network lose datagrams?
    server,          \* where the server is
    inbox,           \* the server's socket: the connections datagrams came from
    srcAddr,         \* the addresses the server has noted
    turn,            \* datagram_count % NUM_CONN of the server
    client,          \* where the client is
    i,               \* its loop variable
    master,          \* the sockets select() looks at
    arrived,         \* connection -> datagrams waiting in its socket
    refused,         \* connections with an error to report
    datagram_count,  \* of the client
    starts,          \* how often it was started
    helloLost        \* history: a hello was lost

serverVars == <<server, srcAddr, turn>>
clientVars == <<client, i, master, datagram_count, starts>>
vars == <<program, lossy, serverVars, inbox, clientVars, arrived, refused, helloLost>>

Init ==
    /\ program \in {"udp", "cross", "srtt"}
    /\ lossy \in BOOLEAN
    /\ server = "down"
    /\ inbox = <<>>
    /\ srcAddr = <<>>
    /\ turn = 0
    /\ client = "open"
    /\ i = 0
    /\ master = {}
    /\ arrived = [c \in Conns |-> 0]
    /\ refused = {}
    /\ datagram_count = 0
    /\ starts = 1
    /\ helloLost = FALSE

Serving == server \in {"hello", "send"}

-----------------------------------------------------------------------------
(* The client.                                                             *)

\* What the client sends on c reaches the server, is lost, or is refused.
\* An ACK, of which Room may wait, can also find the socket of the server full.
Send(c, ack) ==
    IF ~Serving
    THEN /\ refused' = refused \union {c}
         /\ UNCHANGED <<inbox, helloLost>>
    ELSE /\ UNCHANGED refused
         /\ \/ /\ ~(ack /\ Len(inbox) >= Room)
               /\ inbox' = Append(inbox, c)
               /\ UNCHANGED helloLost
            \/ /\ lossy \/ (ack /\ Len(inbox) >= Room)
               /\ UNCHANGED inbox
               /\ helloLost' = (helloLost \/ ~ack)

\* One socket is opened and says hello; all are in the set that select() gets.
OpenSocket ==
    /\ client = "open"
    /\ Send(i, FALSE)
    /\ master' = master \union {i}
    /\ IF i + 1 < NumConns THEN i' = i + 1 /\ UNCHANGED client
                           ELSE i' = 0 /\ client' = "select"
    /\ UNCHANGED <<program, lossy, serverVars, arrived, datagram_count, starts>>

\* The three programs do that alike.
UdpOpen   == program = "udp"   /\ OpenSocket
CrossOpen == program = "cross" /\ OpenSocket
SrttOpen  == program = "srtt"  /\ OpenSocket

Ready(c) == arrived[c] > 0 \/ c \in refused

\* select() blocks until a socket of master is ready and leaves only those in
\* it; nothing puts the others back.
Select ==
    /\ client = "select"
    /\ \E c \in master : Ready(c)
    /\ master' = {c \in master : Ready(c)}
    /\ i' = 0
    /\ client' = "sweep"
    /\ UNCHANGED <<program, lossy, serverVars, inbox, arrived, refused, datagram_count, starts,
                   helloLost>>

\* Bug: only the sockets select() has found ready are read.
SweptReady(c) == c \in master /\ arrived[c] > 0

\* All sockets are read, whether select() looked at them or not.
Swept(c) == arrived[c] > 0

\* The next socket of the pass over all of them.
Onwards == IF i + 1 < NumConns THEN i' = i + 1 /\ client' = "sweep"
                               ELSE i' = 0 /\ client' = "select"

\* Bug: one datagram more is read.
BeyondLater(n) == n > NumPackets + 1

\* The datagram that ends a client with a limit.
Beyond(n) == n > NumPackets

\* recvmsg() on socket i: an error ends the client, no data means the next one.
\* With a limit on datagrams the client ends with the first one beyond it.
Read(echoes, limit) ==
    /\ client = "sweep"
    /\ IF i \in refused
       THEN client' = "failed" /\ UNCHANGED <<i, arrived, refused, inbox, datagram_count, helloLost>>
       ELSE IF ~Swept(i)
       THEN Onwards /\ UNCHANGED <<arrived, refused, inbox, datagram_count, helloLost>>
       ELSE /\ arrived' = [arrived EXCEPT ![i] = @ - 1]
            /\ datagram_count' = IF limit THEN datagram_count + 1 ELSE datagram_count
            /\ IF echoes THEN Send(i, TRUE) ELSE UNCHANGED <<refused, inbox, helloLost>>
            /\ IF Beyond(datagram_count') THEN client' = "done" /\ i' = i ELSE Onwards
    /\ UNCHANGED <<program, lossy, serverVars, master, starts>>

UdpSweep   == program = "udp"   /\ Read(FALSE, TRUE)
CrossSweep == program = "cross" /\ Read(FALSE, FALSE)
SrttSweep  == program = "srtt"  /\ Read(TRUE, TRUE)

\* The client is killed and started again on the same ports.
Restart ==
    /\ starts < MaxStarts
    /\ starts' = starts + 1
    /\ client' = "open"
    /\ i' = 0
    /\ master' = {}
    /\ arrived' = [c \in Conns |-> 0]
    /\ refused' = {}
    /\ datagram_count' = 0
    /\ UNCHANGED <<program, lossy, serverVars, inbox, helloLost>>

-----------------------------------------------------------------------------
(* The server.                                                             *)

\* The socket is bound.
Bind ==
    /\ server = "down"
    /\ server' = "hello"
    /\ UNCHANGED <<program, lossy, srcAddr, turn, inbox, clientVars, arrived, refused, helloLost>>

UdpBind   == program = "udp"   /\ Bind
CrossBind == program = "cross" /\ Bind
\* The second thread is started here, before any datagram was read.
SrttBind  == program = "srtt"  /\ Bind

\* Bug: srcAddr[i] is a pointer to the one variable addr.
NotedAlias(c) == [k \in 1 .. Len(srcAddr) + 1 |-> c]

Noted(c) == Append(srcAddr, c)

\* Bug: the loop runs to NUM_CONN.
EnoughHellosMore(addresses) == Len(addresses) = NumConns + 1

EnoughHellos(addresses) == Len(addresses) = NumConns

\* recvfrom() in the loop over NUM_CONN, whatever the datagram is.
TakeHello ==
    /\ server = "hello"
    /\ inbox # <<>>
    /\ inbox' = Tail(inbox)
    /\ srcAddr' = Noted(Head(inbox))
    /\ server' = IF EnoughHellos(srcAddr') THEN "send" ELSE "hello"
    /\ UNCHANGED <<program, lossy, turn, clientVars, arrived, refused, helloLost>>

\* The open sockets of the client.
Listening(c) == client \in {"select", "sweep"} \/ (client = "open" /\ c < i)

\* sendto() the connection whose turn it is; `arrives' is up to the network.
\* A datagram that finds no socket or a full one is lost.
SendTo(c, arrives) ==
    /\ server = "send"
    /\ c = srcAddr[turn + 1]
    /\ arrives \/ lossy
    /\ turn' = (turn + 1) % NumConns
    /\ arrived' = IF arrives /\ Listening(c) /\ arrived[c] < Room
                  THEN [arrived EXCEPT ![c] = @ + 1] ELSE arrived
    /\ UNCHANGED <<program, lossy, server, srcAddr, inbox, clientVars, refused, helloLost>>

UdpSend(c, arrives)   == program = "udp"   /\ SendTo(c, arrives)
CrossSend(c, arrives) == program = "cross" /\ SendTo(c, arrives)
SrttSend(c, arrives)  == program = "srtt"  /\ SendTo(c, arrives)

\* The receiver thread of udp-fixed-srtt reads the same socket, from its start.
\* Nobody has asked for timestamps on that socket, so its first assertion about
\* the first datagram it gets ends the process.
ReceiverThread ==
    /\ program = "srtt"
    /\ Serving
    /\ inbox # <<>>
    /\ inbox' = Tail(inbox)
    /\ server' = "aborted"
    /\ UNCHANGED <<program, lossy, srcAddr, turn, clientVars, arrived, refused, helloLost>>

Open  == UdpOpen \/ CrossOpen \/ SrttOpen
Sweep == UdpSweep \/ CrossSweep \/ SrttSweep
Serve == UdpBind \/ CrossBind \/ SrttBind \/ TakeHello
Stream(c, arrives) == UdpSend(c, arrives) \/ CrossSend(c, arrives) \/ SrttSend(c, arrives)

Next ==
    \/ Open \/ Select \/ Sweep \/ Restart
    \/ Serve \/ ReceiverThread
    \/ \E c \in Conns, arrives \in BOOLEAN : Stream(c, arrives)

Spec == Init /\ [][Next]_vars

\* Both programs run, and a stream that goes on for ever gets through.
Fairness ==
    /\ WF_vars(Open) /\ WF_vars(Select) /\ WF_vars(Sweep) /\ WF_vars(Serve)
    /\ WF_vars(\E c \in Conns, arrives \in BOOLEAN : Stream(c, arrives))
    /\ \A c \in Conns : SF_vars(Stream(c, TRUE))

FairSpec == Spec /\ Fairness
-----------------------------------------------------------------------------
TypeOK ==
    /\ program \in {"udp", "cross", "srtt"}
    /\ {lossy, helloLost} \subseteq BOOLEAN
    /\ server \in {"down", "hello", "send", "aborted"}
    /\ inbox \in Seq(Conns)
    /\ srcAddr \in Seq(Conns) /\ Len(srcAddr) <= NumConns
    /\ turn \in Conns
    /\ client \in {"open", "select", "sweep", "done", "failed"}
    /\ i \in Conns
    /\ {master, refused} \in SUBSET SUBSET Conns
    /\ arrived \in [Conns -> 0 .. Room]
    /\ datagram_count \in 0 .. NumPackets + 1
    /\ starts \in 1 .. MaxStarts

\* A client that says hello once on each socket gets a stream on each: the
\* server does not mix up the addresses it has noted.  A second start of the
\* client while the server still waits would give some streams two turns and
\* others none.
StreamsForAll == server = "send" /\ starts = 1 => ToSet(srcAddr) = Conns

\* The types, and the set-up of the streams.
StreamsSetUp == TypeOK /\ StreamsForAll

\* Client and server both wait for each other only if a hello was lost: none is
\* sent a second time, and the server counts exactly as many as there are.
WaitNeedsLoss ==
    server = "hello" /\ inbox = <<>> /\ client = "select" /\ (\A c \in master : ~Ready(c))
        => helloLost

\* What is in a socket is read some day although select() has stopped looking
\* at that socket: another one wakes the client, and it reads them all.  This
\* is claimed while the streams go on, that is of a server that does not abort.
StreamsRead ==
    \A c \in Conns :
        client = "select" /\ arrived[c] > 0 /\ program # "srtt" /\ starts = MaxStarts
            ~> arrived[c] = 0 \/ client \in {"done", "failed"}

\* udp-fixed-srtt/jni/server.c:67, assert( ts_hdr ): a datagram the receiver
\* thread gets has a timestamp.
AckHasTimestamp == server # "aborted"
=============================================================================
