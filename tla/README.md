# Verification of wtcp

wtcp is a collection of programs that measure and emulate cellular links: UDP
senders and receivers that keep a bottleneck queue full, an interceptor that
emulates a link between two Ethernet interfaces, and batch tools around them.
This directory holds TLA+ models of the programs with control of their own, the
TLC runs that check them on small instances and the proofs TLAPS checks.

## 1. Inventory

| Component | State it keeps | Operations | Interacts with |
|---|---|---|---|
| History (`DataCollection/controlled-delay/history.cc`) | `_received`, `_num_lost`, `_num_outstanding_rx`, `_next_exp_seq_no`, `_max_rx_seq_no` | `packet_received`, `active_purge` | called by the receiver of the servo; the rate estimate decides its reorder window |
| Rate estimate (`rate-estimate.cc`) | the packets of the last second | `add_packet`, `get_rate`, `get_latency`, `housekeeping` | called by the receiver of the servo |
| Delay servo (`delay-servo.cc`) | sender: rate, next number, next transmission; receiver: its estimate and history, next feedback, when it last handled a packet | `tick` and `recv` of both | data one way, feedback datagrams the other |
| Two-way saturator (`codel-client.cc`, `codel-server.cc`) | `local_id`, `remote_id`, two sockets | `punch_nat_hole`, `get_nat_addr`, the main loops | each other, over a lossy network and a NAT; a servo in each direction |
| Open-window sender (`sender/send1way.cc`) | a window per LTE interface, `packetstats`, `next_unacked` | probe, settle, refill, poll | itself: it sends to its own LTE interfaces |
| Link emulator (`TrafficShaping/`) | per direction a queue, two occupancies, a token count; one frame buffer | timer tick, frame from either interface | two Ethernet interfaces |
| Schedule and trace links (`schedule-link.cc`, `rate-schedule.cc`, `trace-link.cc`) | the rest of the schedule or trace | rate change, credit, aggregation, interpolation, end | replace the constant rate of a link |
| Closed-loop sender (`sender/controlled-delay.cc`) | `packets_outstanding`, a rate estimate | schedule, send, receive | itself |
| Buffer set-point sender (`sender/buffer-setpoint.cc`) | packets en route, a histogram | fill, receive | itself |
| Ethernet-to-LTE sender (`one-way-delay`) | `stt`, rate, size and `packetstats` shared by two threads | send, receive | itself |
| Many-port generators (`udp-jni`, `cross-traffic-gen`) | the connections that said hello | hello, round robin | client and server |
| Smoothed-RTT sender (`udp-fixed-srtt`) | the same, and `srtt`, `sleepTime` shared by two threads | the same, and receive an ACK | the client, which echoes |
| Latency tools (`udp-native`, `timestamping.c`) | the next transmission; a ring of latencies | busy-wait and send; receive; send every five seconds | each other; the error queue of the kernel |
| Camera programs (`v4l-snippets`) | the buffers shared with the driver | open, configure, map, queue, capture, stop | the V4L2 driver, the SDL window |

The remaining programs are system-call wrappers, stand-alone utilities, Android
user interfaces, batch analysis and measurement data; PROJECT.json lists them
with the reason they are left out.

What is hard in this code is never one function. Packets arrive late, out of
order and twice at a history whose counts are compared with what was sent;
timeouts race late answers; feedback is lost and stale; a client is killed in
the middle of a handshake and the next one starts while datagrams of the first
are in flight; a loop that stalls finds many things due at once and its socket full of
packets that came meanwhile; several
counters are kept beside the structure they describe. Nothing is persisted and,
but for the two programs with threads, every program is a single loop: the
concurrency is that of hosts, network and clocks. "hazards" in PROJECT.json
lists these at their lines. Two more kinds of partner come in with the small
tools: the clock of the host, which may be set back or run on while a process is
kept from running, and the camera driver, which owns buffers in turn with its
program.

What makes each component correct:

* history: the counts of lost and outstanding packets agree with what was sent
  and arrived, the buffer is bounded and its assertions never fail;
* rate estimate: a report is that of an exact sliding window of the packets read, by
  the time they arrived;
* servo: back-off and active purges happen for a reason and are bounded;
* handshake: both sides end up with the id of the other, in order, and no run of
  the client that is gone gets in the way of the next;
* open-window sender: the counters are exact, the windows bounded, and the
  loop does not stop for good;
* link emulator: frames leave unchanged, once each, in order, and never more
  than the rate, the schedule or the trace gives;
* senders to themselves: what they count and smooth is right until a stated
  event, and they end or go on after it;
* many-port programs: every connection gets its stream, and nobody waits for
  nothing;
* latency tools: schedules neither drift nor skip, sums are those of the samples;
* camera programs: the driver is never without a buffer, no frame is lost
  between program and driver, everything is given back.

## 2. Plan

Order: what the logs of the measurements rest on first (history), then the
protocol that starts a measurement, the feedback loop, the window sender, the
link emulator with its schedules and traces, the programs around them. All of
these are done, with proofs of every invariant and action property the passing
runs check. What is left, in this order:

1. `MainLoop`: the choice the loops of the saturator make between their two
   sockets, both directions together, with a bottleneck link that has a rate, which
   would say what bounds the queue of the bottleneck.
2. The clock of the link emulator set back, with the latency statistics, whose
   assertion depends on it.

Every module that is to be proved about keeps its parameters as CONSTANTS with
named assumptions and uses no RECURSIVE operator; recursion on sequences is a
recursive function on `Nat` (`Total`, `TotalLatency`, `PartialSum`).

## 3. Modules

| Module | Models | Composes |
|---|---|---|
| `History` | class History: one operator for each handler, over its five fields | |
| `LossAccounting` | the history against the packets its peer sent, three kinds of network | extends `History` |
| `LossAccountingProofs` | theorems about it | extends `LossAccounting` |
| `IdExchange` | abstract: what the start-up of the saturator promises | |
| `NatHandshake` | `punch_nat_hole`, `get_nat_addr`, the server's id filter, restarts of the client | implements `IdExchange` |
| `NatHandshakeProofs` | theorems about it | extends `NatHandshake` |
| `RateEstimate` | class RateEstimate | |
| `SlidingWindow` | abstract: what a rate estimate promises | |
| `DelayServo` | one direction of the saturator | extends `History`, `RateEstimate`; implements `SlidingWindow` |
| `DelayServoProofs` | theorems about it and about `RateEstimate` | extends `DelayServo` |
| `OneWaySender` | the loop of `send1way.cc` | |
| `OneWaySenderProofs` | theorems about it | extends `OneWaySender` |
| `Interceptor` | the loop of `traffic-shaping.cc` and its links | |
| `MCInterceptor` | rates, schedules and traces for TLC | extends `Interceptor` |
| `InterceptorProofs` | theorems about `Interceptor` | extends `Interceptor` |
| `SelfSenders` | `controlled-delay.cc`, `buffer-setpoint.cc`, `ethernetToLte.cc` | |
| `SelfSendersProofs` | theorems about it | extends `SelfSenders` |
| `PortStreams` | client and server of `udp-jni`, `cross-traffic-gen`, `udp-fixed-srtt` | |
| `LatencyTools` | `send-data.c`, `ku-latency.c`, `timestamping.c` | |
| `NativeProofs` | theorems about both, the native programs | extends `PortStreams`, `LatencyTools` |
| `VideoCapture` | `capture.c`, `sdlvideoviewer.c` | |
| `VideoCaptureProofs` | theorems about it | extends `VideoCapture` |

The names of variables are those of the code without the leading underscore.
An action is a whole handler; a loop with several phases (`OneWaySender`) has
a `pc` and one action per phase, because the clock moves and packets are lost
between them. Operators marked "Bug" are mistakes the code does not make: PROJECT.json
names for every property one that breaks it.

**History, LossAccounting.** `PacketReceived(seq, w)` is `packet_received`; `w`
is the reorder window in packets that the rate estimate would give, any of a set,
since the rate changes between packets. `ActivePurge` is `active_purge`, whose
assertion on its argument is the guard. `Purge` is the tail they share. Sequence
numbers stay below 2^31, where the casts of unsigned differences to int are
exact. The variables `arrived`, `timedOut` and `skipped` are history variables:
what has arrived, what a purge has passed before it arrived, and what the next
number expected has passed before it arrived. The last two differ by the numbers
purges went up to, which are the next ones expected and may still come.

**NatHandshake.** Each side has the socket it is working on (`srvStage`,
`cliStage`) and the id it holds. One element of `net` stands for all copies of
a datagram in flight; a program may always repeat its datagram since its
one-second poll may always time out. Where `Duplicating`, a datagram that is received
may stay in flight as well, in the same run of the client or the next (`After`). A
restart of the client draws a new id and begins again; the server is never restarted.
The history variable `reached` keeps how far each run got, after its end too. Of the
filters of the main loops only that of the server for data is here. The messages have an id where the
code has one, and `ACK-ACK` has none.

**DelayServo.** Time is a number; a deadline permits a step and never forces it,
as both loops can stall. Rates are packets per window. The sender's
clock is ahead by `skew`, or behind when that is negative: a value chosen for
each behaviour. Data packets queue in order, feedback is a set without order, both
are lost. A packet has two times at the receiver: `Arrive` puts it into `socket`
with the time the kernel stamps it with, and `ReceiverRecv` handles the oldest one,
which sets `last_stat` to the time it is handled. `ReceiverTick` and `ReceiverPoll`
alternate (`pass`), as in the main loop, so that whatever came during a stall waits
while a tick purges and reports. `taken`, `left`, `reported` and `worst` are history
variables: what was read, how many packets waited when one was last read, the packets
counted in the last report, and the longest transit.

**OneWaySender.** Time is in units of 100 ms. `Settle` is the whole `while` on
`next_unacked`, stated by where it stops; leaving `packetstats` is the state
`overrun`, in which the code reads past the vector.

**Interceptor.** A frame is its number and its size; `ether_frame` is the
number of the last frame read, and sending a packet writes what the buffer
holds at that moment. `plan` says how each link was started. A negative rate is
an unrestrained link; a schedule and a trace are the lines of a file, sorted by
time (`WellFormed`); the constructor makes `list` of them, and gives a trace its
first credit at once, and `used` is how many entries of the list ticks have taken
off it. `Interpolated` is
`interpolate()`. A tick drains both links, uplink first; `Exhausted` is the
`exit(5)` in it. `missed` counts the timer signals a stalled loop lost.

**SelfSenders.** Three programs with one network. `stage` is where the main
thread is. `steered` is the loop of `controlled-delay.cc` with
`AVERAGE_INTERVAL` equal to `QUEUE_DURATION_TARGET` and twice `STEERING_TIME`,
as they are, so that three times the rate less twice the packets outstanding is
the rate it sends at. `packets_outstanding` is unsigned and wraps at `Wrap`.
`Recent` is what `housekeeping()` leaves: it pops from the front until a packet is
young enough and never looks behind that one, so that after the clock was set
back an old packet may stay, and its assertion is about the front only. The
EWMA of its rate is any rate between sample and old value. `Bin` is
`Histogram::record` with the conversion to int. In `threads` the receiver is
two steps, since the sender may read the rate between them, and `neighbour` is
what the four bytes behind the int `numSent` hold, which the eight-byte read at
the receiver includes. `SetBack` sets the wall clock back once.

**PortStreams.** A connection is a number; `inbox` is the socket of the server
in order, `arrived` how many datagrams wait in each socket of the client,
`master` the set given to `select()` and never filled again. An ICMP error is
`refused`. The three programs differ in what ends the client, in the echo and in
the receiver thread. Pauses between datagrams are any time.

**LatencyTools.** `Time` splits a time into seconds and microseconds, as
`struct timeval`. The busy-waiting loop has its check and its look at the clock
as two steps; `starved` remembers that time went on between two looks.
`timestamping.c` is one program in two identical copies, beside the programs of
`PortStreams`; as their proofs share a module, the specification here is named
`ToolsSpec` (`ToolsInit`, `ToolsNext`, `ToolsTypeOK`). Seconds are natural numbers
without a bound: a datagram may be due long after the clock of the model stops.

**VideoCapture.** A buffer belongs to nobody, the program, the driver, or the
driver with a frame in it. `capture.c` and the viewer share all steps but the
treatment of the format and the head of the main loop. `ErrnoExit` is any call
to the device failing.

## 4. Runs

| Run | What it asks | Bounds and why they are enough |
|---|---|---|
| `LossNetworks` | Is every count of the history right to within what it can know? | 8 packets, windows of 1 to 3 packets: a window can shrink, several holes can be open. A purge goes 3 ahead instead of 10, up to number 14, so that several happen before, between and after the packets, and the very number a purge goes up to may still be sent and come in time. |
| `HandshakeOneRun` | Do the ids get exchanged, in order, does the client get on, and with which run does the server end up? | Two restarts: three runs are in each other's way, in a network that may keep a copy of every datagram it delivers; sets of datagrams unbounded, with and without loss |
| `HandshakeZombie` | violation: ids keep old runs apart (`codel-client.cc:80`) | one restart |
| `ServoLoop` | Do reports, purges and back-offs have the reasons they should have? | 3 packets in 5 units of time with a window of 2, a silence of 2, a latency limit of 2 and clocks apart by 1 either way: two windows fit, a purge after silence, a purge that passes packets waiting in the socket, a report without them, and a back-off with each sign of `skew`, by packets that took less than the limit if the sender is behind |
| `WindowLoop` | Are the counters exact, the windows bounded, does the loop go on? | Two destinations, windows of 2, 7 packets, 4 instants, a timeout of 1 and a flip at 3: probes, timeouts, late answers and the second window happen |
| `ShaperLinks` | Are queue, counters, order, rate and delay right, and what do a late tick and the end of a trace do? | 3 frames of 2 and 3 bytes, buffers of 6: they fill one; rates 1 and 3 or no limit; schedules with two switches in a row and with a falling rate; traces with two lines for one time, a gap that is filled and one that is not; 5 units, with late ticks |
| `ShaperTransparent` | violation: forwarding is transparent (`TrafficShaping/README:27`) | as above |
| `SelfSenders` | What are counters, histogram and transit times worth, when can assertions fail, do the programs end? | 3 packets (4 for the steered loop), a buffer of 2, an interval of 2 and a coarse timeout of 3 in 4 units of time: the counter is reset with packets under way, wraps and heals; the int overflows at 4 units; each of losses, a leftover packet and a clock set back may happen |
| `ManyPorts` | Does every connection get a stream, and who waits for whom? | 3 connections, so that addresses can be mixed up; 2 datagrams before the client ends; sockets that hold 1; the client started twice |
| `AckTimestamp` | violation: a datagram for the receiver thread has a timestamp (`udp-fixed-srtt/jni/server.c:67`) | 2 connections |
| `LatencyTools` | Do the schedules drift or skip, are the sums right, are both queues read, does SIGINT end it? | seconds of 4 ticks, intervals of 2 and 3, so that the carry happens at every phase; a ring of 2 that wraps with 3 samples; slots of 3 and 8 ticks |
| `CameraLoop` | Who has the buffers, in which order are frames processed, what is left at the end? | 3 buffers wanted, of which 0 to 3 are granted; 2 frames for `capture.c`; frame numbers modulo 5, more than the buffers, so that skipped and repeated frames differ; two widths; each feature lacking in turn |

What the runs show. The history is sound where it matters: no arrival is
forgotten, the number outstanding is short by at most one, a loss count never
exceeds the packets that purges passed, and each network permits the accuracy
stated for it; the loss count misses one packet at times, as `LossAccuracy`
allows. (With reordering it may be above the packets that were given up: 8 packets
that all come before they are given up can leave it at 2. That is why its upper
bound is what purges passed, `timedOut`, and not `skipped`.) The handshake orders
both sides as intended, however many runs of the client there are: the server ends
up with a run that got past the data socket, and a run that was killed before it
did can do no harm. One that was killed after it can: its delayed HOLE-PUNCH may
leave the server with its id. (The single ACK-ACK also makes a lost datagram block
the server, which is why `DataFlows` is stated of a network without losses.) The
reports of the servo are exact for what its receiver has read; what waits in the
socket is missing until it is read. Its active purge is about silence of the
handler, not of the network: after a stall of more than `SilenceLimit` it may
pass packets that wait in the socket, even ones that have just arrived, if nothing was read since (`PurgeOnlyInSilence` says that all
others are long past), and they count as lost until they are read. The back-off is at
the mercy of the clocks: a sender that is behind by `d` backs off for packets that
took `LatencyLimit - d`. The windows of the sender are counted exactly while its
loop stays within the packets sent, which only timeouts that come first can break.
A link keeps its counters, order and rate, whatever aggregation and interpolation
make of a trace; a late tick makes a schedule late by at most the ticks that were
missed. A queued frame is sent with the content of the frame read last, since all
packets point into one buffer.

`SelfSenders` says what the three counters mean. That of `controlled-delay.cc`
is exact until it is first reset; packets that come back after that take it
below zero, and the next pass always repairs that. The buffer of
`buffer-setpoint.cc` shrinks by each loss, for good. Its histogram adds up
as long as gaps fit an int. The assertions fail only when the clock was set back
or a gap did not fit. The smoothed transit time of `ethernetToLte.cc` is
credible although its threads share everything without a lock: a number is sent
after its time is noted; the exceptions are packets of an earlier run and a
clock set back. `ManyPorts` shows that a lost hello is the only reason for both
sides to wait, and that sockets are read although `select()` forgets them after
the first pass. The server of `udp-fixed-srtt` never gets to its rate control:
its receiver thread aborts. The camera programs and the latency tools do what
they should, under the conditions their properties name; `OnTime` holds of a
sender that always runs, since a sender that misses the end of a second waits
for most of the next one.

Some properties are conjunctions of named parts, and a run checks them through
one definition: `LossCounts` (its three bounds on the loss count), `HandshakeProgress`
(`ClientGetsAnswer` and `DataFlows`), `StateBounded` (types and `PurgeBudget`),
`CountersConsistent` (types and what relates the counters, in `OneWaySender`,
`Interceptor` and `SelfSenders`), `FollowsFile` (`BehindSchedule` and
`EndsWithTrace`), `DriverAgrees` and `EndsClean` (`VideoCapture`),
`StreamsSetUp` (`PortStreams`), `TransitTimesHeeded` (`SelfSenders`),
`StateConsistent`, `SchedulesKept` and `ToolsProgress` (`LatencyTools`). Several
mutants break different parts of them, each part being a named definition with a
comment of its own.

**Deadlock.** It is checked in `HandshakeOneRun`. The other models stop when
their bounds are used up or their programs end, and some programs really block
when nothing is in flight, so their cfgs turn the check off.

**Fairness.** In every module that states it: the programs run, and `select()`
or `poll()` returns when something is there or its time has come (weak fairness
on their steps). Nothing is assumed of restarts, losses, clocks, users and
failing calls.
`NatHandshake!Fairness` adds that a datagram that is sent again and again is at
some time delivered (strong fairness on the handlers). `OneWaySender`: `SendsAll`
is claimed of a network without losses. `PortStreams` adds that of a stream that
goes on for ever to one connection something arrives. `SelfSenders`: a
packet that is in the network for ever is taken. `VideoCapture`: `select()`
returns within its two seconds and is not interrupted for ever. `LatencyTools`:
the three programs run; the clock need not.

**Findings.** PROJECT.json lists the three disagreements between code and text
that the violation runs show, each with the line it quotes.
Four more are behaviours of the models that no run singles out. The in-order
branch of the history never skips numbers it has buffered, so that the invariant
at `history.cc:26` fails when 1 comes before 0. A lost ACK-ACK blocks the server
in `get_nat_addr` (`codel-client.cc:40`). The timeout loop of `send1way.cc:121`
goes past the packets sent, and takes entries never sent for timed out (the case
`OverrunNeedsTimeout` delimits). Nothing limits the tokens of an idle link to
`BURST_SIZE`, which `token-bucket.cc:34` calls one packet.

## 5. Proofs

`LossAccountingProofs` proves, for every number of packets, set of reorder
windows, purge step and network, from the assumptions on the constants that
`LossAccounting` names:

* `Invariance`: `IInv` is an invariant;
* `TypeCorrect`, `WindowCorrect`, `NothingForgottenCorrect`, `OutstandingCorrect`:
  the invariants of that name of `LossNetworks`;
* `NeverBackwardsCorrect`: the action property;
* `LossInvariance`: `Losses` is an invariant on top of `IInv`;
  `LossCountsCorrect`: the loss count is as good as `LossCounts` says.

`IInv` is the conjunction of the type invariant, `ReceivedWindow`,
`NothingForgotten` and the equation `num_outstanding_rx` was computed by. None
of the three is inductive alone. The type invariant needs the buffer to be
finite; the window of the buffer needs the types; that nothing is forgotten
needs to know that what a purge takes out is not beyond the new next number.
Both handlers end in the same tail, so the induction goes through one lemma,
`PurgeTail`, about a buffer that lies between the number expected and the
highest number: the lemmas for `Receive` and `PurgeOnSilence` establish its
hypotheses and derive the rest. `OutstandingCorrect` then counts: the holes up to
the highest number are the numbers the buffer does not have, with or without
the next number expected (`HolesOfBuffer`).

`LossCounts` is not inductive either. A purge expects the numbers below
`purge_seq` and takes off what it finds up to `purge_seq`, so it counts one too
few when that number has arrived; the number is then the next one expected and
the following purge counts it again. `Losses` follows this state (`Pending`): over a
network without duplicates the numbers skipped are at most the count, or one more
while the next number expected has arrived; over one that keeps the order exactly
that many. `PurgedCount` counts what is purged and what is left between two
numbers, `NothingPassed` and `SomePassed` treat the two kinds of purge. The
attempt showed `LossAccuracy` as it was stated before, of the numbers that
purges passed instead of those given up, to be false: after a purge on silence,
the number it went up to may arrive in order, and each such arrival adds one to
the difference. The bounds of the run, with a purge beyond all packets, had hidden it.

`WindowCorrect` is why the assertion `new_size==0` of `active_purge` cannot fail.

`NatHandshakeProofs` proves, for any number of restarts, with or without
duplication, from the assumptions `NatHandshake` names:

* `Invariance`: `IInv` is an invariant;
* `HandshakeTypes`: `TypeOK`; `HandshakeAgrees`: `AgreementPastData`;
  `HandshakeServesKnownRun`: `ServedRunPassedData`;
* `HandshakeImplementsExchange`: the handshake implements `IdExchange`
  (`ExchangesIds`), by a step simulation: each handler is a step of the exchange
  or none, with the runs of the client together as its one side.

Agreement is not inductive: it rests on what a program concludes from a datagram.
`InFlight` states that for each kind: a HOLE-PUNCH is of a run there has been,
which got to the socket it was sent over; an ACK-NAT on a socket means that the
server has taken a HOLE-PUNCH there; an ACK-ACK that some run of the client is
done with that socket. None of these is undone by a restart or a copy, since
`reached` remembers how far each run got, so the invariant holds of any number of
runs. `Held` states what each side holds at its stage; with it, an id the server
has taken on the feedback socket is of a run that got past the data socket. If
that can only be the present one, the two sides agree: `AgreementPastData` needs
no more, and the behaviour of `HandshakeZombie` is the case it leaves out. There
is one lemma for each handler, one for the steps that only change the network and
one for restarts. In the refinement the client's side is `Furthest`, which only a
run that gets further than all before it moves (`FurthestPrime`).

`OneWaySenderProofs`: for any number of interfaces and packets, any windows,
timeout and period, `CountersCorrect`, `PrefixCorrect` and `WindowBounded` from
`Invariance`, and `OverrunOnlyAfterTimeout`, that the loop on `next_unacked` leaves the
packets sent only after a timeout. The exact count needs to know that an entry
never sent is untouched and that the loop has passed only what was sent
(`UnsentUntouched`, `NextWithinSent`), else the loop could settle a packet twice; a
window exceeds its size by the probes sent, at most one in each unit of time
(`ProbedBound`). The fourth theorem has an invariant of its own, `WindowZeroFull`:
between two settlings the window of the first destination is open by at most one
packet. It needs `MaxOutstanding >= 2`: with windows of one packet, the only packet
of it may be taken by the poll and the loop then meets entries never sent.

`InterceptorProofs`: for all rates, schedules, traces, frames and buffers.
`CountersCorrect` and `FifoCorrect` rest on `IInv`: per link, its occupancies are
those of its queue, what it accepted is what it forwarded followed by its
queue (`QueueInv`), and the entries taken off its list are those that were due at
its last tick, or fewer for a schedule (`PlanInv`). `RateCorrect`, `DelayCorrect`
and `FileFollowed` rest on `EarnInv`: what a link has sent and the tokens it has are
covered by its plan (`CoverInv`), a schedule is behind by no more than the ticks
missed (`BehindInv`), and for every packet in the queue nothing that was earned
since it came has been lost (`NothingLost`). `TraceFacts` proves that
aggregation and interpolation never make a trace give more by any time than the
lines of its file. These three assume `SchedulesStrict`, that the times of
a schedule increase strictly: `check_current_rate` takes one line at a tick, so that
a schedule with two lines for one time is, for one tick, not followed, and the
properties say it is (the run has such files only for traces).

`DelayServoProofs`: for all rates, periods, limits and any time, `BoundsCorrect`,
`PurgesJustified` and `BackoffsJustified`, the last two action properties, and the
refinement `ServoReportsWindow`. `IInv` says of the packets in the link and in the
socket that they are in order, ahead of what was read and stamped no earlier
(`QueueInv`, `TakenInv`); of the window that it agrees with the exact one of the
arrival times *now and at every later time* (`WindowInv`, `Agrees`, which is why
`housekeeping` may be called late and packets may be read late); of feedback in
flight that it was true or empty when sent (`FeedbackInv`), so that a back-off
needs a latency that was measured, however old the feedback; and of the numbers
made up that there are `PurgeStep` for each silence (`BudgetInv`). A measured
latency is the transit less `skew`, which bounds the back-off for clocks that
disagree either way. For `PurgeOnlyInSilence`, `TakenInv` says that what was read,
and the first `left` packets of the socket, arrived no later than `last_stat`. The
assumption `BackoffRate < MinimumTxRate` is that of `delay-servo.hh:26`, 5 packets
per second against 50: it is how a back-off can be told by the rate.

`VideoCaptureProofs`: for any number of buffers, frames and widths,
`BuffersAgreed`, `CleanEnds`, and `OrderKept`, that every frame processed is the one
stored after the last. `Phases` states who has each buffer at each `pc`; the order
needs `InOrder`: with n buffers filled, these hold the n frames stored last, one
each, and the frame before them is the one being processed or shown last.

`NativeProofs`, of `PortStreams`: for any number of connections, packets and
starts of the client, `SetUpCorrect` and `WaitsExplained`. Before the server
sends, the client can read nothing but errors (`NothingToRead`), and the hellos
neither refused nor lost are with the server (`HellosCounted`); of a client
started once each comes from another socket (`HellosOnce`), so that as many hellos
as connections are one from each (`AllNoted`, by counting).

`NativeProofs`, of `LatencyTools`: for any number of ticks in a second, intervals,
slots, sizes of the ring and of the socket, `ToolsConsistent` and `ToolsScheduled`,
from `ToolsInvariance`. The assumption is that a program starts before the clock of
the model stops.

* `SendInv` says that `nextTx` is `Time(start + repeatMs * transmitted)`, one interval
  less before it is advanced. That the carry in `Advance`, which treats seconds
  and microseconds apart, keeps this is `LaterTime`. `OnTime` needs
  `DueTimes`: the comparison of the two fields, one by one, that `Due` makes is true of
  the time a datagram is due and of none before it. It may be false of later times,
  so the invariant follows `looked` and `starved`: a process that reads the clock at
  every tick never gets past the one at which the comparison is true.
* `RingInv` says that the sample k is at (k - 1) modulo `NumLatencies` until another
  one takes its place, that the rest of the ring is zero, and that the rolling sum
  is the total less the samples taken off. A new sample goes where the oldest one
  is (`WholeTurn`) and disturbs no other (`ApartInRing`: fewer than `NumLatencies`
  samples apart are never at one place); `RollingIsRecent` turns the difference of
  two sums into the sum of the last samples.
* `MarkInv` says that the next packet is due one slot later for each packet sent,
  and that the last one sent was due. `Multiples` counts the multiples of a
  slot in an interval.

The proof changed the model in four places. The bound that the type invariant had
on `nextTx.sec` held of the run's intervals only, and its type of `waiting` needed
the assumption on `Starts`; that an interval is at least `MIN_REPEAT`, which
`Options` enforces, had to be said. `OnTime` turned out to hold after SIGINT, too,
and no longer excepts it.

`SelfSendersProofs`: for any number of packets, set-point, interval and
threshold, with losses, a packet of an earlier run and a clock set back,
`CountersCorrect`, `AssertionsJustified`, `TransitTimesCorrect` and
`HistogramCorrect`. `Flying` is the
balance they need: own packets in the network, lost and received are those sent.
`Steered` adds that before a pass the counter may be at most one below zero, because
a pass resets it and only one packet is taken between two; with
`2 * MaxSteered < Wrap` (`Wrap` is 2^32, `MaxSteered` a bound of the model) the pass
cannot take the huge number for room. `Threads` says that every number that can be
looked up has its time, which no step of the sender undoes, and that the smoothed
time is between two samples (`Smoothing`, with the division of integers).
`HistogramCorrect` goes by arrivals: each adds one gap to one bin (`OneGapMore`), whose
middle is at most half a bin away from the gap (`BinNearest`), while the time from
the first arrival grows by the gap itself; `Arrivals` says that the first one, which
has no gap, is the one that finds no time of a last.

Induction over data. Where a proof needs the value of a recursive function, such
as the sum of a window, of a histogram or of the credits of a trace, the lemma is
proved by the least number it fails for (`LeastNumber`, from the well- foundedness
of `<`). `UpTo` states this once for sets of numbers: one that contains 0, and n +
1 with each n it contains, contains all. With it `PartialSums` proves what the sum
of a sequence is of its parts.

Only model-checked: liveness under fairness, in every module (`HandshakeProgress`,
`SendsAll`, `Terminates`, `StreamsRead`, `Ends`, `ToolsProgress`), which is out of reach
of the prover.

## 6. Not modelled

Sequence numbers beyond 2^31. Clocks that are set back, but for `SelfSenders`.
Byte layout of datagrams, addresses and MAC addresses, the printed statistics.
Sockets that fail: every such error ends the program. In `OneWaySender` duplicates
from the network and the write past `packetstats` by the last burst. In the
saturator, the choice of the main loops between their two sockets (`DelayServo`
has one direction: its sender may tick and take feedback at any time, and its
receiver may find nothing to read in any pass, so it has more behaviours than the
program), and in `NatHandshake` the data and the feedback the server sends, with
the filters of the client for them. In `Interceptor` the rounding of
floating-point credits (the traces of the run divide evenly), and the end of the
16-bit times of a schedule, whose largest value, 65535 seconds,
`schedule-link.cc:20` also uses for "no more switches". The control messages
`timestamping.c` prints, the socket set-up of `ku-latency.c`, pixel data of the
camera programs, and in `udp-fixed-srtt` the rate control behind the assertion
that ends the server. The components listed as not modelled in PROJECT.json, with
the reason there: batch programs, single system calls, scripts, and the moving
average that only the statistics line of the link emulator prints.
