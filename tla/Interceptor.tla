---------------------------- MODULE Interceptor ----------------------------
(***************************************************************************)
(* The link emulator of TrafficShaping: the loop of traffic-shaping.cc     *)
(* between the ingress and the egress interface, and for each direction a  *)
(* Link (tail-drop queue) that is drained by the credit of a constant      *)
(* rate (CbrLink), of a schedule of rates (ScheduleLink) or of a trace     *)
(* (TraceLink), or not queued at all (UnrestrainedLink).                   *)
(*                                                                         *)
(* The loop has one buffer, ether_frame, that every frame is read into; a  *)
(* Payload holds a pointer to it and the size of the frame.  Frames are    *)
(* numbered in the order they are read, and the number stands for the      *)
(* content.  Time is in units of the 1 ms timer, rates in bytes per unit;  *)
(* the signals of a stalled loop merge, so a tick may come late.           *)
(* Schedules and traces are sequences of pairs <<time, rate or bytes>>.    *)
(***************************************************************************)
EXTENDS Integers, Sequences, SequencesExt, FiniteSets

CONSTANTS
    Rates,       \* rates the program may be given, negative: unrestrained
    Schedules,   \* contents of a schedule file
    Traces,      \* contents of a trace file
    Outage,      \* a gap of a trace longer than this, 100 ms, is left a gap
    FrameSizes,  \* sizes of the frames on the wire
    BufferSize,  \* BUFFER_SIZE_BYTES of a link
    MaxFrames,   \* bound: frames read
    MaxTime      \* bound: how far the clock runs

Links == {"uplink", "downlink"}

\* The constructors assert two entries at least, of a trace for two times;
\* times do not decrease.
WellFormed(file) ==
    /\ file \in Seq(Nat \X Nat)
    /\ Len(file) >= 2
    /\ \A i \in 2 .. Len(file) : file[i - 1][1] <= file[i][1]

ASSUME InterceptorAssumption ==
    /\ Rates \subseteq Int
    /\ \A file \in Schedules \union Traces : WellFormed(file)
    /\ \A file \in Traces : file[1][1] < file[Len(file)][1]
    /\ FrameSizes \subseteq Nat \ {0}
    /\ {Outage, BufferSize, MaxFrames, MaxTime} \subseteq Nat

VARIABLES
    plan,                  \* per link, what the program was started with
    running,               \* the process has not exited
    now,
    frames,                \* frames read so far
    ether_frame,           \* what the buffer holds
    link_rate,             \* of a link with a rate or a schedule of rates
    used,                  \* the entries of its schedule or trace taken off the list
    pkt_queue,             \* per link, with what DelayBound remembers of the arrival
    byte_queue_occupancy,
    pkt_queue_occupancy,
    token_count,
    last_token_update,
    total_bytes,
    accepted,              \* history: per link, the frames it took, in order
    forwarded,             \* history: per link, the frames it sent, and their contents
    missed                 \* history: timer signals that merged with a later one

queueVars == <<pkt_queue, byte_queue_occupancy, pkt_queue_occupancy, total_bytes, accepted,
               forwarded>>
tickVars  == <<running, link_rate, used, token_count, last_token_update, missed>>
vars      == <<plan, now, frames, ether_frame, queueVars, tickVars>>

-----------------------------------------------------------------------------
(* What a link is started with: its first rate or credit, and the rest.    *)

\* f[1] + ... + f[n].
Total(f, n) == LET sum[k \in Nat] == IF k = 0 THEN 0 ELSE sum[k - 1] + f[k] IN sum[n]

\* A line for the same time as the line before it adds to the credit of that one.
WithLine(list, e) ==
    IF list # <<>> /\ list[Len(list)][1] = e[1]
    THEN [list EXCEPT ![Len(list)] = <<e[1], @[2] + e[2]>>]
    ELSE Append(list, e)

\* DeliverySchedule: the credits of the lines, one for each time.
Aggregated(file) ==
    LET list[k \in 0 .. Len(file)] == IF k = 0 THEN <<>> ELSE WithLine(list[k - 1], file[k])
    IN  list[Len(file)]

\* Bug: the credit is repeated in every unit of the gap, not divided.
SpreadWhole(e, d) == [k \in 1 .. d |-> <<e[1] + k - 1, e[2]>>]

\* A credit spread over the d units until the next one.  The code divides in
\* floating point; the credits of a gap are multiples of it, where both agree.
Spread(e, d) == [k \in 1 .. d |-> <<e[1] + k - 1, e[2] \div d>>]

\* What interpolate() makes of an entry: every credit but the last is spread over
\* the gap after it, unless that is an outage.
Piece(list, i) ==
    LET gap == list[i + 1][1] - list[i][1]
    IN  IF i < Len(list) /\ gap \in 2 .. Outage THEN Spread(list[i], gap) ELSE <<list[i]>>

Interpolated(list) == FlattenSeq([i \in 1 .. Len(list) |-> Piece(list, i)])

RatePlan(r) == [kind |-> IF r < 0 THEN "unrestrained" ELSE "rate", file |-> <<>>,
                rate |-> r, credit |-> 0, list |-> <<>>]

SchedulePlan(file) == [kind |-> "schedule", file |-> file,
                       rate |-> file[1][2], credit |-> 0, list |-> Tail(file)]

TracePlan(file) == LET list == Interpolated(Aggregated(file))
                   IN  [kind |-> "trace", file |-> file,
                        rate |-> 0, credit |-> list[1][2], list |-> Tail(list)]

\* Both links get rates, or both schedules, or both traces.
Plans ==
    UNION { [Links -> {RatePlan(r) : r \in Rates}],
            [Links -> {SchedulePlan(file) : file \in Schedules}],
            [Links -> {TracePlan(file) : file \in Traces}] }

Init ==
    /\ plan \in Plans
    /\ running = TRUE
    /\ now = 0
    /\ frames = 0
    /\ ether_frame = 0
    /\ link_rate = [l \in Links |-> plan[l].rate]
    /\ used = [l \in Links |-> 0]
    /\ pkt_queue = [l \in Links |-> <<>>]
    /\ byte_queue_occupancy = [l \in Links |-> 0]
    /\ pkt_queue_occupancy = [l \in Links |-> 0]
    /\ token_count = [l \in Links |-> plan[l].credit]
    /\ last_token_update = [l \in Links |-> 0]
    /\ total_bytes = [l \in Links |-> 0]
    /\ accepted = [l \in Links |-> <<>>]
    /\ forwarded = [l \in Links |-> <<>>]
    /\ missed = 0

Pass ==
    /\ now < MaxTime
    /\ now' = now + 1
    /\ UNCHANGED <<plan, frames, ether_frame, queueVars, tickVars>>

-----------------------------------------------------------------------------
(* The credit of a link at a tick.                                         *)

Shaped(l) == plan[l].kind # "unrestrained"

\* How many entries of a list are due at time t: the first ones, as the times
\* do not decrease.
DueBy(list, t) == Cardinality({i \in 1 .. Len(list) : list[i][1] <= t})

\* Bug: the list is looked at before the entries that are due are taken off it.
ExhaustedBefore(l) == plan[l].kind = "trace" /\ used[l] = Len(plan[l].list)

\* A trace that is used up ends the program.
Exhausted(l) == plan[l].kind = "trace" /\ DueBy(plan[l].list, now) = Len(plan[l].list)

Switches(l) == plan[l].kind = "schedule" /\ used[l] < DueBy(plan[l].list, now)

\* ScheduleLink::check_current_rate takes one entry, however many are due.
RateNow(l) == IF Switches(l) THEN plan[l].list[used[l] + 1][2] ELSE link_rate[l]

\* Bug: the switch that was made is not taken off the list.
UsedAfterUnpopped(l) == IF plan[l].kind = "trace" THEN DueBy(plan[l].list, now) ELSE used[l]

UsedAfter(l) ==
    CASE Switches(l) -> used[l] + 1
      [] plan[l].kind = "trace" -> DueBy(plan[l].list, now)
      [] OTHER -> used[l]

\* The credit of the first n entries of a trace.
Credit(list, n) == Total([i \in 1 .. Len(list) |-> list[i][2]], n)

\* TraceLink::update_token_count adds the credit of every entry that is due.
TraceTokens(l) ==
    token_count[l] + Credit(plan[l].list, DueBy(plan[l].list, now)) - Credit(plan[l].list, used[l])

\* update_token_count of CbrLink and of ScheduleLink.
RateTokens(l) == token_count[l] + (now - last_token_update[l]) * RateNow(l)

Tokens(l) == IF plan[l].kind = "trace" THEN TraceTokens(l) ELSE RateTokens(l)

-----------------------------------------------------------------------------
(* Draining a link, tick() of TokenBucketLink and of TraceLink.            *)

Bytes(q) == Total([i \in 1 .. Len(q) |-> q[i].size], Len(q))

\* How many packets from the head of q the tokens pay for.
Drainable(q, tokens) == {k \in 0 .. Len(q) : Bytes(SubSeq(q, 1, k)) <= tokens}

Drained(l) ==
    IF Shaped(l) THEN Max(Drainable(pkt_queue[l], Tokens(l))) ELSE 0

\* Link::send_pkt writes what the buffer holds when the packet is sent.
Transmit(q) == [i \in 1 .. Len(q) |-> [frame |-> q[i].frame, content |-> ether_frame]]

Sent(l) == SubSeq(pkt_queue[l], 1, Drained(l))

\* Bug: one packet too many is dequeued.
KeptSkipping(l) == SubSeq(pkt_queue[l], Drained(l) + 2, Len(pkt_queue[l]))

Kept(l) == SubSeq(pkt_queue[l], Drained(l) + 1, Len(pkt_queue[l]))

\* Bug: the tokens are discarded by every tick that finds packets.
TokensLeftNone(l) == IF pkt_queue[l] = <<>> THEN Tokens(l) ELSE 0

\* Tokens left over are discarded when the tick has emptied the queue.
TokensLeft(l) ==
    IF pkt_queue[l] # <<>> /\ Kept(l) = <<>> THEN 0 ELSE Tokens(l) - Bytes(Sent(l))

\* First the uplink ticks, then the downlink; exit() in the first tick leaves
\* none for the second.
Ticking ==
    IF Exhausted("uplink") THEN {}
    ELSE IF Exhausted("downlink") THEN {"uplink"} ELSE Links

\* What the ticks make of a field of the links.
AfterTick(field, value(_)) == [l \in Links |-> IF l \in Ticking THEN value(l) ELSE field[l]]

\* The timer.
TimerTick ==
    /\ running
    /\ last_token_update["uplink"] < now
    /\ running' = (Ticking = Links)
    /\ pkt_queue' = AfterTick(pkt_queue, Kept)
    /\ byte_queue_occupancy' =
           AfterTick(byte_queue_occupancy, LAMBDA l : byte_queue_occupancy[l] - Bytes(Sent(l)))
    /\ pkt_queue_occupancy' =
           AfterTick(pkt_queue_occupancy, LAMBDA l : pkt_queue_occupancy[l] - Drained(l))
    /\ total_bytes' = AfterTick(total_bytes, LAMBDA l : total_bytes[l] + Bytes(Sent(l)))
    /\ forwarded' = AfterTick(forwarded, LAMBDA l : forwarded[l] \o Transmit(Sent(l)))
    /\ token_count' =
           AfterTick(token_count, LAMBDA l : IF Shaped(l) THEN TokensLeft(l) ELSE 0)
    /\ link_rate' = AfterTick(link_rate, RateNow)
    /\ used' = AfterTick(used, UsedAfter)
    /\ last_token_update' = AfterTick(last_token_update, LAMBDA l : now)
    /\ missed' = missed + now - last_token_update["uplink"] - 1
    /\ UNCHANGED <<plan, now, frames, ether_frame, accepted>>

-----------------------------------------------------------------------------
(* A frame comes in.                                                       *)

\* Bug: the bytes in the queue are left out of the test.
FullForFrame(l, size) == size > BufferSize

\* The buffer has no room for the frame.
Full(l, size) == byte_queue_occupancy[l] + size > BufferSize

\* Link::enqueue: the tail is dropped when the buffer is full.
Enqueue(l, size) ==
    IF Full(l, size)
    THEN UNCHANGED <<pkt_queue, pkt_queue_occupancy, byte_queue_occupancy, accepted>>
    ELSE /\ pkt_queue' = [pkt_queue EXCEPT ![l] = Append(@,
                [frame |-> frames', size |-> size, since |-> last_token_update[l],
                 ahead |-> byte_queue_occupancy[l]])]
         /\ pkt_queue_occupancy' = [pkt_queue_occupancy EXCEPT ![l] = @ + 1]
         /\ byte_queue_occupancy' = [byte_queue_occupancy EXCEPT ![l] = @ + size]
         /\ accepted' = [accepted EXCEPT ![l] = Append(@, frames')]

\* TokenBucketLink::recv queues the frame, UnrestrainedLink::recv sends it.
Recv(l, size) ==
    IF Shaped(l)
    THEN Enqueue(l, size) /\ UNCHANGED <<total_bytes, forwarded>>
    ELSE /\ total_bytes' = [total_bytes EXCEPT ![l] = @ + size]
         /\ forwarded' = [forwarded EXCEPT ![l] =
                Append(@, [frame |-> frames', content |-> ether_frame'])]
         /\ accepted' = [accepted EXCEPT ![l] = Append(@, frames')]
         /\ UNCHANGED <<pkt_queue, pkt_queue_occupancy, byte_queue_occupancy>>

\* recv_packet() reads any frame into the one buffer.
ReadFrame ==
    /\ running
    /\ frames < MaxFrames
    /\ frames' = frames + 1
    /\ ether_frame' = frames'

\* A frame from the client on the ingress interface, or one for it or for
\* everybody on the egress interface.
FrameFor(l, size) ==
    /\ ReadFrame
    /\ Recv(l, size)
    /\ UNCHANGED <<plan, now, tickVars>>

\* Any other frame on either interface is read and left alone.
FrameIgnored ==
    /\ ReadFrame
    /\ UNCHANGED <<plan, now, queueVars, tickVars>>

Next ==
    \/ Pass
    \/ TimerTick
    \/ \E l \in Links, size \in FrameSizes : FrameFor(l, size)
    \/ FrameIgnored

Spec == Init /\ [][Next]_vars
-----------------------------------------------------------------------------
(* What a link should have earned, from its command line or file.          *)

\* The credit of the lines of a trace up to t.  The first credit is given at the
\* start, whatever its time.
FileCredit(file, t) ==
    Total([i \in 1 .. Len(file) |->
              IF file[i][1] <= t \/ file[i][1] = file[1][1] THEN file[i][2] ELSE 0],
          Len(file))

\* The rate the schedule has for the unit of time that ends at t.
PlannedRate(file, t) ==
    LET i == CHOOSE i \in 1 .. Len(file) :
                 /\ i = 1 \/ file[i][1] <= t
                 /\ \A j \in i + 1 .. Len(file) : file[j][1] > t
    IN  file[i][2]

HighestRate(file) == Max({file[i][2] : i \in 1 .. Len(file)})

\* What a link with the plan p earns up to t, on top of its first credit.
Planned(p, t) ==
    CASE p.kind = "rate" -> p.rate * t
      [] p.kind = "schedule" -> Total([u \in 1 .. MaxTime |-> PlannedRate(p.file, u)], t)
      [] OTHER -> Credit(p.list, DueBy(p.list, t))

-----------------------------------------------------------------------------
TypeOK ==
    /\ plan \in Plans
    /\ running \in BOOLEAN
    /\ now \in 0 .. MaxTime
    /\ frames \in 0 .. MaxFrames /\ ether_frame = frames
    /\ used \in [Links -> Nat] /\ \A l \in Links : used[l] <= Len(plan[l].list)
    /\ byte_queue_occupancy \in [Links -> 0 .. BufferSize]
    /\ pkt_queue_occupancy \in [Links -> 0 .. MaxFrames]
    /\ token_count \in [Links -> Nat]
    /\ last_token_update \in [Links -> 0 .. now]
    /\ total_bytes \in [Links -> Nat]
    /\ missed \in 0 .. MaxTime

\* The occupancies kept by enqueue() and dequeue() are those of the queue, and
\* a tail-drop queue never holds more than its buffer.
OccupancyExact ==
    \A l \in Links :
        /\ pkt_queue_occupancy[l] = Len(pkt_queue[l])
        /\ byte_queue_occupancy[l] = Bytes(pkt_queue[l])
        /\ byte_queue_occupancy[l] <= BufferSize

\* The types, and the counters that are kept beside the queue.
CountersConsistent == TypeOK /\ OccupancyExact

\* A shaped link never forwards more than it was told to: what it has sent and
\* what it may still send at once are covered by the rate and the time that
\* has passed, by the lines of the trace file up to now whatever aggregation
\* and interpolation make of them, or by the rates of the schedule file.  A
\* schedule is followed to the unit while no tick is late; a late tick charges
\* the time before a switch at the rate after it.
RateNeverExceeded ==
    \A l \in Links : Shaped(l) =>
        total_bytes[l] + token_count[l] <=
            CASE plan[l].kind = "trace" -> FileCredit(plan[l].file, last_token_update[l])
              [] plan[l].kind = "schedule" /\ missed > 0 ->
                     HighestRate(plan[l].file) * last_token_update[l]
              [] OTHER -> Planned(plan[l], last_token_update[l])

\* Each link forwards the frames it accepted once each and in order.
FifoForwarding ==
    \A l \in Links :
        accepted[l] = [i \in 1 .. Len(forwarded[l]) |-> forwarded[l][i].frame]
                      \o [i \in 1 .. Len(pkt_queue[l]) |-> pkt_queue[l][i].frame]

\* A queued packet is served at the rate of the link: it is gone once what the
\* link has earned since it came pays for it and for what was queued ahead of
\* it.  No token a backlogged link has earned is lost.
DelayBound ==
    \A l \in Links : \A i \in 1 .. Len(pkt_queue[l]) :
        LET p == pkt_queue[l][i]
        IN  (last_token_update[l] > p.since /\ (plan[l].kind = "schedule" => missed = 0)) =>
                Planned(plan[l], last_token_update[l]) - Planned(plan[l], p.since) < p.ahead + p.size

\* check_current_rate switches once in a tick: after a stall the link may be
\* behind its schedule, but never by more switches than timer signals it missed.
BehindSchedule ==
    \A l \in Links : plan[l].kind = "schedule" =>
        DueBy(plan[l].list, last_token_update[l]) - used[l] <= missed

\* update_token_count of a TraceLink exits: the emulator runs in both directions
\* up to the end of the shorter trace and in neither beyond it.
EndsWithTrace ==
    LET end(l) == Last(plan[l].list)[1]
    IN  \A l \in Links : plan[l].kind = "trace" =>
            /\ last_token_update[l] < end(l)
            /\ ~running => \E k \in Links : end(k) <= now

\* What a stalled loop makes of a schedule, and where a trace ends.
FollowsFile == BehindSchedule /\ EndsWithTrace

\* TrafficShaping/README:27, "eth2.pcap should look exactly like eth0.pcap for
\* transparent forwarding": what is sent for a frame is that frame.
Transparent ==
    \A l \in Links : \A i \in 1 .. Len(forwarded[l]) :
        forwarded[l][i].content = forwarded[l][i].frame
=============================================================================
