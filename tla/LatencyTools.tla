---------------------------- MODULE LatencyTools ----------------------------
(***************************************************************************)
(* The tools that measure the latency of the kernel on one machine:        *)
(*   "native"   send-data sends a datagram every repeatMs by busy-waiting  *)
(*              and ku-latency compares the time the kernel received it    *)
(*              with the time it returns from recvmsg().                   *)
(*   "stamping" timestamping.c sends a packet every five seconds and       *)
(*              prints, with their timestamps, what arrives and what its   *)
(*              error queue returns of its own packets.                    *)
(* Both read the wall clock.  A process may be kept from running while     *)
(* time passes.                                                            *)
(***************************************************************************)
EXTENDS Integers, Sequences, FiniteSetsExt

CONSTANTS
    Second,        \* ticks of the clock in a second, for "native"
    MinRepeat,     \* MIN_REPEAT
    Repeats,       \* bound: the intervals asked for with --repeat
    NumLatencies,  \* NUM_LATENCIES
    SocketRoom,    \* bound: datagrams that wait in a socket
    Slot,          \* the five seconds, in ticks of one second
    MaxPackets,    \* bound: packets of others, samples
    Starts, End    \* bound: the clock starts at one of Starts and stops at End

ASSUME ToolsAssumption ==
    /\ {Second, MinRepeat, NumLatencies, SocketRoom, Slot, MaxPackets} \subseteq Nat \ {0}
    /\ Repeats \union {End} \subseteq Nat
    /\ Starts \subseteq 0 .. End

VARIABLES
    method, now,
    start,        \* when the main loop started
    \* send-data
    sender,       \* where it is
    repeatMs, nextTx, keepRunning, transmitted,
    looked,       \* history: it has read the clock since the last tick
    starved,      \* history: time went on although it had not
    \* ku-latency
    waiting,      \* the socket: when the kernel received each datagram
    totalUsec, latencies, inDEX, rollingAverage,
    measured,     \* history: all differences
    \* timestamping
    tool,         \* where it is
    wanted,       \* the hardware timestamping asked for: "tx", "rx"
    configured,   \* did SIOCSHWTSTAMP succeed?
    next,         \* when the next packet is due
    calledAt,     \* when select() was called
    regular, errors,  \* packets in the socket and in its error queue
    sent, others  \* packets sent and bound on those of others

senderVars == <<sender, repeatMs, nextTx, keepRunning, transmitted, looked, starved>>
kuVars     == <<waiting, totalUsec, latencies, inDEX, rollingAverage, measured>>
toolVars   == <<tool, wanted, configured, next, calledAt, regular, errors, sent, others>>
latencyVars == <<method, now, start, senderVars, kuVars, toolVars>>

Running == {"busy", "look", "advance"}

Time(t) == [sec |-> t \div Second, usec |-> t % Second]

ToolsInit ==
    /\ method \in {"native", "stamping"}
    /\ start \in Starts /\ now = start
    /\ sender = (IF method = "native" THEN "options" ELSE "done")
    /\ repeatMs = MinRepeat
    /\ nextTx = Time(0)
    /\ keepRunning = TRUE
    /\ transmitted = 0
    /\ looked = FALSE /\ starved = FALSE
    /\ waiting = <<>> /\ measured = <<>>
    /\ totalUsec = 0 /\ inDEX = 0 /\ rollingAverage = 0
    /\ latencies = [k \in 0 .. NumLatencies - 1 |-> 0]
    /\ tool = (IF method = "stamping" THEN "options" ELSE "bailed")
    /\ wanted = {}
    /\ configured = FALSE
    /\ next = 0 /\ calledAt = 0 /\ regular = 0 /\ errors = 0 /\ sent = 0 /\ others = 0

\* send-data is starved if it has not looked at the clock within a tick.
Tick ==
    /\ now < End
    /\ now' = now + 1
    /\ starved' = (starved \/ (sender \in Running /\ ~looked))
    /\ looked' = FALSE
    /\ UNCHANGED <<method, start, sender, repeatMs, nextTx, keepRunning, transmitted,
                   kuVars, toolVars>>

-----------------------------------------------------------------------------
(* send-data.                                                              *)

\* The interval is at least MIN_REPEAT; without --destination the program ends.
Options ==
    /\ sender = "options"
    /\ \E ms \in Repeats, destination \in BOOLEAN :
         /\ repeatMs' = Max({ms, MinRepeat})
         /\ sender' = IF destination THEN "start" ELSE "done"
    /\ UNCHANGED <<method, now, start, nextTx, keepRunning, transmitted, looked, starved,
                   kuVars, toolVars>>

\* theStart: the first transmission is due at once.
Begin ==
    /\ sender = "start"
    /\ start' = now
    /\ nextTx' = Time(now)
    /\ sender' = "busy"
    /\ UNCHANGED <<method, now, repeatMs, keepRunning, transmitted, looked, starved,
                   kuVars, toolVars>>

\* Bug: the microseconds have to be later than those of nextTx.
DueLater(t) == t.sec >= nextTx.sec /\ t.usec > nextTx.usec

\* Seconds and microseconds are compared one by one: early in a later second
\* nothing is due.
Due(t) == t.sec >= nextTx.sec /\ t.usec >= nextTx.usec

\* The busy-waiting loop asks whether to go on ...
Check ==
    /\ sender = "busy"
    /\ keepRunning
    /\ sender' = "look"
    /\ UNCHANGED <<method, now, start, repeatMs, nextTx, keepRunning, transmitted, looked, starved,
                   kuVars, toolVars>>

\* ... and reads the clock.  A datagram arrives at once or is dropped.
Look ==
    /\ sender = "look"
    /\ looked' = TRUE
    /\ IF Due(Time(now))
       THEN /\ sender' = "advance"
            /\ transmitted' = transmitted + 1
            /\ \/ Len(waiting) < SocketRoom /\ waiting' = Append(waiting, now)
               \/ UNCHANGED waiting
       ELSE sender' = "busy" /\ UNCHANGED <<transmitted, waiting>>
    /\ UNCHANGED <<method, now, start, repeatMs, nextTx, keepRunning, starved,
                   totalUsec, latencies, inDEX, rollingAverage, measured, toolVars>>

\* Bug: the second is not carried.
LaterUncarried(t) == [sec |-> t.sec, usec |-> (t.usec + repeatMs) % Second]

Later(t) == [sec  |-> t.sec + (t.usec + repeatMs) \div Second,
             usec |-> (t.usec + repeatMs) % Second]

\* Bug: a signal is only noticed in the inner loop.
GoesOnAnyway(running) == TRUE

GoesOn(running) == running

\* The next transmission is set up after one, or after the signal (bound: while
\* it is not past the end of the clock by far).
Advance ==
    /\ nextTx.sec <= End
    /\ sender = "advance" \/ (sender = "busy" /\ ~keepRunning)
    /\ nextTx' = Later(nextTx)
    /\ sender' = IF GoesOn(keepRunning) THEN "busy" ELSE "done"
    /\ UNCHANGED <<method, now, start, repeatMs, keepRunning, transmitted, looked, starved,
                   kuVars, toolVars>>

\* The handler of SIGINT.
Sigint ==
    /\ sender \in Running
    /\ keepRunning
    /\ keepRunning' = FALSE
    /\ UNCHANGED <<method, now, start, sender, repeatMs, nextTx, transmitted, looked, starved,
                   kuVars, toolVars>>

-----------------------------------------------------------------------------
(* ku-latency.                                                             *)

\* Bug: the ring is overwritten before the old sample is taken off the sum.
RolledLate(timediff) == rollingAverage + timediff - timediff

\* The sum of the latencies in the ring, with the oldest one replaced.
Rolled(timediff) == rollingAverage + timediff - latencies[inDEX]

\* Bug: the index is not wrapped.
NextIndexUnwrapped(k) == k + 1

NextIndex(k) == (k + 1) % NumLatencies

\* recvmsg() returns with the timestamp of the kernel, and the clock is read.
RecvMsg ==
    /\ method = "native"
    /\ waiting # <<>> /\ Len(measured) < MaxPackets
    /\ LET timediff == now - Head(waiting)
       IN  /\ waiting' = Tail(waiting)
           /\ totalUsec' = totalUsec + timediff
           /\ rollingAverage' = Rolled(timediff)
           /\ latencies' = [latencies EXCEPT ![inDEX] = timediff]
           /\ inDEX' = NextIndex(inDEX)
           /\ measured' = Append(measured, timediff)
    /\ UNCHANGED <<method, now, start, senderVars, toolVars>>

-----------------------------------------------------------------------------
(* timestamping.                                                           *)

Arguments ==
    /\ tool = "options"
    /\ wanted' \in SUBSET {"tx", "rx"}
    /\ tool' = "configure"
    /\ UNCHANGED <<method, now, start, senderVars, kuVars, configured, next, calledAt, regular,
                   errors, sent, others>>

\* Bug: a driver without hardware timestamping is good enough for anything.
TolerableAlways(errno) == errno = "ENOTSUP"

\* A failure is tolerable if none was asked for and the driver cannot do it.
Tolerable(errno) == errno = "ENOTSUP" /\ wanted = {}

\* ioctl(SIOCSHWTSTAMP).
Configure ==
    /\ tool = "configure"
    /\ \E errno \in {"", "ENOTSUP", "EPERM"} :
         /\ configured' = (errno = "")
         /\ tool' = IF errno = "" \/ Tolerable(errno) THEN "setup" ELSE "bailed"
    /\ UNCHANGED <<method, now, start, senderVars, kuVars, wanted, next, calledAt, regular,
                   errors, sent, others>>

\* bind(), the multicast group and the socket options; each failure but that of
\* IP_PKTINFO bails.  Then the first packet is scheduled on a multiple of five.
SetUp ==
    /\ tool = "setup"
    /\ tool' \in {"wake", "bailed"}
    /\ next' = ((now + 1) \div Slot) * Slot
    /\ start' = now
    /\ UNCHANGED <<method, now, senderVars, kuVars, wanted, configured, calledAt, regular,
                   errors, sent, others>>

\* Bug: the next packet is due five seconds from now.
NextSlotFromNow == now + Slot

NextSlot == next + Slot

\* The turn of the loop: a packet that is due is sent, else select() is called.
\* If a timestamp of outgoing packets was asked for it returns one as an error.
Wake ==
    /\ tool = "wake"
    /\ IF next > now
       THEN /\ tool' = "select"
            /\ calledAt' = now
            /\ UNCHANGED <<next, sent, errors>>
       ELSE /\ next' = NextSlot
            /\ sent' = sent + 1
            /\ errors' = IF "tx" \in wanted /\ errors < SocketRoom THEN errors + 1 ELSE errors
            /\ UNCHANGED <<tool, calledAt>>
    /\ UNCHANGED <<method, now, start, senderVars, kuVars, wanted, configured, regular, others>>

\* Bug: the error queue is left alone.
OneOffErrors(n) == n

OneOff(n) == IF n > 0 THEN n - 1 ELSE 0

\* select() returns: one packet of each kind is read if any is there.
SelectReturns ==
    /\ tool = "select"
    /\ regular + errors > 0 \/ now >= next
    /\ regular' = IF regular > 0 THEN regular - 1 ELSE 0
    /\ errors' = OneOff(errors)
    /\ tool' = "wake"
    /\ UNCHANGED <<method, now, start, senderVars, kuVars, wanted, configured, next, calledAt,
                   sent, others>>

\* A packet of the multicast group comes in.
Arrive ==
    /\ tool \in {"wake", "select"}
    /\ others < MaxPackets
    /\ others' = others + 1
    /\ regular' = regular + 1
    /\ UNCHANGED <<method, now, start, senderVars, kuVars, tool, wanted, configured, next,
                   calledAt, errors, sent>>

-----------------------------------------------------------------------------
SendData == Options \/ Begin \/ Check \/ Look \/ Advance
Tool     == Arguments \/ Configure \/ SetUp \/ Wake \/ SelectReturns

ToolsNext == Tick \/ SendData \/ Sigint \/ RecvMsg \/ Tool \/ Arrive

ToolsSpec == ToolsInit /\ [][ToolsNext]_latencyVars

\* The processes run.
ToolsFairSpec == ToolsSpec /\ WF_latencyVars(SendData) /\ WF_latencyVars(RecvMsg) /\ WF_latencyVars(Tool)
-----------------------------------------------------------------------------
ToolsTypeOK ==
    /\ method \in {"native", "stamping"}
    /\ {start, now, calledAt} \subseteq 0 .. End
    /\ sender \in {"options", "start", "done"} \union Running
    /\ repeatMs \in {MinRepeat} \union Repeats /\ repeatMs >= MinRepeat
    /\ nextTx \in [sec : Nat, usec : 0 .. Second - 1]
    /\ {keepRunning, looked, starved, configured} \subseteq BOOLEAN
    /\ {transmitted, totalUsec, rollingAverage, sent} \subseteq Nat
    /\ waiting \in Seq(0 .. End) /\ Len(waiting) <= SocketRoom
    /\ latencies \in [0 .. NumLatencies - 1 -> 0 .. End]
    /\ inDEX \in 0 .. NumLatencies - 1
    /\ tool \in {"options", "configure", "setup", "wake", "select", "bailed"}
    /\ wanted \subseteq {"tx", "rx"}
    /\ next \in 0 .. End + Slot
    /\ regular \in 0 .. MaxPackets /\ errors \in 0 .. SocketRoom /\ others \in 0 .. MaxPackets

\* The schedule of send-data does not drift: however late it was, each datagram
\* is due a whole number of intervals after the start, in seconds and
\* microseconds that carry.
NoDrift ==
    sender \in Running =>
        nextTx = Time(start + repeatMs * (transmitted - IF sender = "advance" THEN 1 ELSE 0))

\* A datagram is late only if the busy-waiting was kept from reading the clock:
\* comparing seconds and microseconds one by one is enough for a process that
\* always runs.  One that misses the end of a second waits for most of the next.
OnTime ==
    sender \in Running /\ looked /\ ~starved =>
        now < start + repeatMs * transmitted

\* s[1] + ... + s[n], and the sum of all.
PartialSum(s, n) == LET sum[k \in Nat] == IF k = 0 THEN 0 ELSE sum[k - 1] + s[k] IN sum[n]
Sum(s) == PartialSum(s, Len(s))

\* The rolling sum of ku-latency is that of the last NUM_LATENCIES differences,
\* before the ring is full and after it has wrapped, and the total that of all.
RollingExact ==
    LET n == Len(measured)
        recent == SubSeq(measured, Max({1, n - NumLatencies + 1}), n)
    IN  rollingAverage = Sum(recent) /\ totalUsec = Sum(measured)

\* timestamping does not run without the hardware timestamps it was asked for.
HardwareOrBail ==
    tool \in {"setup", "wake", "select"} /\ wanted # {} => configured

\* The types, the sums of ku-latency and the set-up of timestamping.
StateConsistent == ToolsTypeOK /\ RollingExact /\ HardwareOrBail

\* When timestamping waits it has sent exactly one packet for each multiple of
\* five seconds that has passed: none is skipped after a pause or sent early.
PacketPerMark ==
    LET first == ((start + 1) \div Slot) * Slot
    IN  tool = "select" => sent = Cardinality({t \in first .. calledAt : t % Slot = 0})

\* Both programs that send keep their schedule, late or not.
SchedulesKept == NoDrift /\ OnTime /\ PacketPerMark

\* Whatever waits in the socket or in its error queue is read, although each
\* return of select() reads only one of each.
QueuesRead == tool \in {"wake", "select"} ~> regular = 0 /\ errors = 0

\* SIGINT ends send-data wherever it is.
SigintEnds == ~keepRunning ~> sender = "done"

\* What waits is served, and what is told to end ends.
ToolsProgress == QueuesRead /\ SigintEnds
=============================================================================
