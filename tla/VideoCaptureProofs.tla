------------------------- MODULE VideoCaptureProofs -------------------------
(***************************************************************************)
(* Proofs about VideoCapture for any number of buffers wanted and granted, *)
(* of frames, and of widths, and any numbering of frames that tells apart  *)
(* those the buffers can hold: who has the buffers, in which order frames  *)
(* are processed, and what is left when the programs end.                  *)
(***************************************************************************)
EXTENDS VideoCapture, FiniteSetTheorems, TLAPS

-----------------------------------------------------------------------------
(* Frame numbers, which wrap at Cycle.                                     *)

Frames == 0 .. Cycle - 1

Following(f) == IF f = Cycle - 1 THEN 0 ELSE f + 1

\* How many frames after g the frame f was stored.
Distance(f, g) == IF f >= g THEN f - g ELSE f - g + Cycle

\* A number that is off by one turn.
LEMMA Turn ==
    ASSUME NEW c \in Nat \ {0}, NEW x \in Int, NEW r \in 0 .. c - 1, x = r \/ x = r + c \/ x = r - c
    PROVE  x % c = r
  OBVIOUS

\* What the driver does to a frame number, and Age of a buffer.
LEMMA FrameArithmetic ==
    ASSUME NEW f \in Frames, NEW g \in Frames
    PROVE  /\ (f + 1) % Cycle = Following(f) /\ Following(f) \in Frames
           /\ (f - g) % Cycle = Distance(f, g) /\ Distance(f, g) \in Frames
  <1>1. Cycle \in Nat \ {0}
    BY VideoAssumption
  <1>2. (f + 1) % Cycle = Following(f) /\ Following(f) \in Frames
    <2>1. Following(f) \in 0 .. Cycle - 1 /\ (f + 1 = Following(f) \/ f + 1 = Following(f) + Cycle)
      BY <1>1 DEF Following, Frames
    <2>2. f + 1 \in Int
      BY DEF Frames
    <2> QED
      BY <1>1, <2>1, <2>2, Turn DEF Frames
  <1>3. (f - g) % Cycle = Distance(f, g) /\ Distance(f, g) \in Frames
    <2>1. /\ Distance(f, g) \in 0 .. Cycle - 1
          /\ f - g = Distance(f, g) \/ f - g = Distance(f, g) - Cycle
      BY <1>1 DEF Distance, Frames
    <2>2. f - g \in Int
      BY DEF Frames
    <2> QED
      BY <1>1, <2>1, <2>2, Turn DEF Frames
  <1> QED
    BY <1>2, <1>3

-----------------------------------------------------------------------------
(* The inductive invariant.                                                *)

\* Who has the buffers, by where the program is.
Phases ==
    /\ pc \in {"open", "init", "request"} =>
           /\ granted = 0 /\ n_buffers = 0 /\ ~streaming
           /\ \A b \in Buffers : owner[b] = "none"
    /\ pc = "map" =>
           /\ granted >= 2 /\ n_buffers < granted /\ ~streaming
           /\ \A b \in Buffers : owner[b] = IF b < n_buffers THEN "app" ELSE "none"
    /\ pc = "queue" =>
           /\ granted >= 2 /\ n_buffers < granted /\ ~streaming
           /\ \A b \in Buffers : owner[b] = IF b < n_buffers THEN "driver"
                                            ELSE IF b < granted THEN "app" ELSE "none"
    /\ pc \in Loop \union {"stop"} =>
           /\ granted >= 2 /\ n_buffers = granted /\ streaming
           /\ \A b \in Buffers :
                  IF b >= granted THEN owner[b] = "none"
                  ELSE IF pc = "process" /\ b = held THEN owner[b] = "app"
                  ELSE owner[b] \in {"driver", "filled"}
    /\ pc = "process" => held < granted
    /\ pc = "unmap" =>
           /\ n_buffers = granted /\ ~streaming
           /\ \A b \in Buffers : owner[b] = IF b < granted THEN "app" ELSE "none"
    /\ pc \in {"close", "done"} => ~streaming /\ \A b \in Buffers : owner[b] = "none"

\* The viewer has taken over the width once its device is set up.
WidthTaken == program = "viewer" /\ pc \notin {"open", "init", "failed"} => width = format

\* What capture.c has taken and has still to take are its frames.
Counts ==
    /\ pc \in Setup => count = FrameCount /\ processed = 0 /\ captured = 0 /\ shown = 0
    /\ program = "capture" =>
           /\ pc = "top" => processed + count = FrameCount
           /\ pc \in {"select", "process"} => processed + count + 1 = FrameCount
           /\ pc \in Ending \union {"done"} => processed = FrameCount

\* Nothing is processed after quit before the program is back at the top.
Quits ==
    /\ afterQuit <= 1
    /\ ~quit => afterQuit = 0
    /\ program = "capture" => ~quit
    /\ pc \in {"select", "process"} => afterQuit = 0

Filled == {b \in Buffers : owner[b] = "filled"}

AgeOf(b) == Distance(captured, content[b])

\* The filled buffers hold the last frames stored, one each; before them come
\* the frame that is being processed and the last one that was.
InOrder ==
    LET n == Cardinality(Filled)
    IN  pc \in Loop =>
            /\ \A b \in Filled : AgeOf(b) < n
            /\ \A b, c \in Filled : b # c => AgeOf(b) # AgeOf(c)
            /\ \A k \in 0 .. n - 1 : \E b \in Filled : AgeOf(b) = k
            /\ pc = "process" => AgeOf(held) = n
            /\ Distance(captured, shown) = IF pc = "process" THEN n + 1 ELSE n

IInv == TypeOK /\ Phases /\ WidthTaken /\ Counts /\ Quits /\ InOrder

\* What the assumption says of each constant, and that buffers can be counted.
LEMMA Constants ==
    /\ Width \in Widths /\ Wanted \in Nat \ {0} /\ FrameCount \in Nat
    /\ Cycle \in Nat /\ Cycle > Wanted + 1
    /\ IsFiniteSet(Buffers) /\ Cardinality(Buffers) = Wanted
    /\ 0 \in Buffers /\ 0 \in Frames
  <1>1. Wanted - 1 \in Int /\ 0 \in Int /\ ~(0 > Wanted - 1) /\ Wanted - 1 - 0 + 1 = Wanted
    BY VideoAssumption
  <1>2. IsFiniteSet(Buffers) /\ Cardinality(Buffers) = Wanted
    BY <1>1, FS_Interval DEF Buffers
  <1> QED
    BY <1>2, VideoAssumption DEF Buffers, Frames

\* The filled buffers can be counted.
LEMMA FilledFinite ==
    ASSUME TypeOK
    PROVE  IsFiniteSet(Filled) /\ Cardinality(Filled) \in Nat /\ Cardinality(Filled) <= Wanted
  <1>1. IsFiniteSet(Filled) /\ Cardinality(Filled) <= Cardinality(Buffers)
    BY Constants, FS_Subset DEF Filled
  <1> QED
    BY <1>1, Constants, FS_CardinalityType

LEMMA InitIInv == Init => IInv
  <1> SUFFICES ASSUME Init PROVE IInv
    OBVIOUS
  <1>1. TypeOK
    <2>1. features \subseteq Features
      BY DEF Init
    <2>2. /\ Cycle - 1 \in Nat /\ 0 \in 0 .. Cycle - 1 /\ 0 \in 0 .. Wanted
          /\ 0 \in 0 .. 0 /\ FrameCount \in 0 .. FrameCount /\ 0 \in 0 .. FrameCount + 1
      BY Constants
    <2>3. /\ owner \in [Buffers -> {"none", "app", "driver", "filled"}]
          /\ content \in [Buffers -> 0 .. Cycle - 1]
      BY <2>2 DEF Init
    <2>4. {captured, shown} \subseteq 0 .. Cycle - 1
      BY <2>2 DEF Init
    <2>5. /\ program \in {"capture", "viewer"} /\ format \in Widths /\ width \in Widths
          /\ pc \in Setup /\ held \in Buffers /\ streaming \in BOOLEAN /\ quit \in BOOLEAN
      BY Constants DEF Init, Setup
    <2>6. /\ granted \in 0 .. Wanted /\ n_buffers \in 0 .. granted
          /\ count \in 0 .. FrameCount /\ processed \in 0 .. FrameCount + 1 /\ afterQuit \in 0 .. 2
      BY <2>2 DEF Init
    <2> QED
      BY <2>1, <2>3, <2>4, <2>5, <2>6 DEF TypeOK
  <1>2. Phases /\ WidthTaken /\ Counts /\ Quits /\ InOrder
    BY Constants DEF Init, Phases, WidthTaken, Counts, Quits, InOrder, Setup, Loop, Ending
  <1> QED
    BY <1>1, <1>2 DEF IInv

-----------------------------------------------------------------------------
(* Every action preserves the invariant.                                   *)

\* A step that leaves buffers and frames alone, and neither starts nor ends the
\* processing of a frame.
LEMMA InOrderKept ==
    ASSUME InOrder, UNCHANGED <<buffers, shown>>,
           pc' \in Loop => pc \in Loop /\ (pc' = "process" <=> pc = "process")
    PROVE  InOrder'
  <1>1. Filled' = Filled
    BY DEF Filled, buffers
  <1>2. \A b : AgeOf(b)' = AgeOf(b)
    BY DEF AgeOf, Distance, buffers
  <1>3. CASE pc' \in Loop
    BY <1>1, <1>2, <1>3 DEF InOrder, buffers, Distance
  <1> QED
    BY <1>3 DEF InOrder

\* Steps that change little but pc.
LEMMA OpenDeviceIInv == IInv /\ OpenDevice => IInv'
  <1> SUFFICES ASSUME IInv, OpenDevice PROVE IInv'
    OBVIOUS
  <1> USE DEF OpenDevice, IInv, setup, buffers, history, Setup, Loop, Ending
  <1>1. TypeOK'
    BY DEF TypeOK
  <1>2. Phases' /\ WidthTaken' /\ Counts' /\ Quits'
    BY DEF Phases, WidthTaken, Counts, Quits
  <1>3. InOrder'
    BY InOrderKept
  <1> QED
    BY <1>1, <1>2, <1>3

LEMMA InitDeviceIInv == IInv /\ (CaptureInit \/ ViewerInit) => IInv'
  <1> SUFFICES ASSUME IInv, CaptureInit \/ ViewerInit PROVE IInv'
    OBVIOUS
  <1> USE DEF CaptureInit, ViewerInit, InitDevice, IInv, setup, buffers, history, Setup, Loop, Ending
  <1>1. TypeOK'
    BY DEF TypeOK
  <1>2. Phases' /\ WidthTaken' /\ Counts' /\ Quits'
    <2>1. pc' \in {"request", "failed"}
      BY DEF Required
    <2> QED
      BY <2>1 DEF Phases, WidthTaken, Counts, Quits
  <1>3. InOrder'
    BY InOrderKept
  <1> QED
    BY <1>1, <1>2, <1>3

LEMMA RequestBuffersIInv == IInv /\ RequestBuffers => IInv'
  <1> SUFFICES ASSUME IInv, RequestBuffers PROVE IInv'
    OBVIOUS
  <1> USE DEF RequestBuffers, IInv, setup, buffers, history, Setup, Loop, Ending
  <1>1. TypeOK'
    BY Constants DEF TypeOK, Phases
  <1>2. Phases'
    BY Constants DEF Phases, Enough, TypeOK, Buffers
  <1>3. WidthTaken' /\ Counts' /\ Quits'
    BY DEF WidthTaken, Counts, Quits
  <1>4. InOrder'
    BY InOrderKept
  <1> QED
    BY <1>1, <1>2, <1>3, <1>4

LEMMA MapBufferIInv == IInv /\ MapBuffer => IInv'
  <1> SUFFICES ASSUME IInv, MapBuffer PROVE IInv'
    OBVIOUS
  <1> USE DEF MapBuffer, IInv, setup, history, Setup, Loop, Ending
  <1>1. /\ granted \in 2 .. Wanted /\ n_buffers \in 0 .. granted - 1
        /\ \A b \in Buffers : b \in Nat /\ owner[b] = IF b < n_buffers THEN "app" ELSE "none"
    BY Constants DEF TypeOK, Phases, Buffers
  <1>2. \A b \in Buffers : owner'[b] = IF b <= n_buffers THEN "app" ELSE "none"
    BY <1>1 DEF TypeOK
  <1>3. TypeOK'
    <2>1. n_buffers' \in 0 .. granted
      BY <1>1
    <2>2. owner' \in [Buffers -> {"none", "app", "driver", "filled"}]
      BY DEF TypeOK
    <2> QED
      BY <2>1, <2>2 DEF TypeOK
  <1>4. Phases'
    <2>1. CASE n_buffers + 1 < granted
      BY <1>1, <1>2, <2>1 DEF Phases
    <2>2. CASE ~(n_buffers + 1 < granted)
      <3>1. n_buffers' = 0 /\ pc' = "queue" /\ n_buffers = granted - 1
        BY <1>1, <2>2
      <3>2. \A b \in Buffers : owner'[b] = IF b < 0 THEN "driver"
                                            ELSE IF b < granted THEN "app" ELSE "none"
        BY <1>1, <1>2, <3>1
      <3> QED
        BY <1>1, <3>1, <3>2 DEF Phases
    <2> QED
      BY <2>1, <2>2
  <1>5. WidthTaken' /\ Counts' /\ Quits'
    BY DEF WidthTaken, Counts, Quits
  <1>6. InOrder'
    BY DEF InOrder
  <1> QED
    BY <1>3, <1>4, <1>5, <1>6

\* The main loop begins with no frame stored.
LEMMA QueueBufferIInv == IInv /\ QueueBuffer => IInv'
  <1> SUFFICES ASSUME IInv, QueueBuffer PROVE IInv'
    OBVIOUS
  <1> USE DEF QueueBuffer, IInv, setup, history, Setup, Loop, Ending
  <1>1. /\ granted \in 2 .. Wanted /\ n_buffers \in 0 .. granted - 1
        /\ \A b \in Buffers : b \in Nat /\ owner[b] = IF b < n_buffers THEN "driver"
                                                    ELSE IF b < granted THEN "app" ELSE "none"
    BY Constants DEF TypeOK, Phases, Buffers
  <1>2. \A b \in Buffers : owner'[b] = IF b <= n_buffers THEN "driver"
                                        ELSE IF b < granted THEN "app" ELSE "none"
    BY <1>1 DEF TypeOK
  <1>3. TypeOK'
    <2>1. n_buffers' \in 0 .. granted
      BY <1>1
    <2>2. owner' \in [Buffers -> {"none", "app", "driver", "filled"}]
      BY DEF TypeOK
    <2> QED
      BY <2>1, <2>2 DEF TypeOK
  <1>4. Phases'
    <2>1. CASE n_buffers + 1 = granted
      <3>1. n_buffers' = granted /\ pc' = "top" /\ streaming'
        BY <1>1, <2>1
      <3>2. \A b \in Buffers : IF b >= granted THEN owner'[b] = "none" ELSE owner'[b] = "driver"
        BY <1>1, <1>2, <2>1
      <3> QED
        BY <1>1, <3>1, <3>2 DEF Phases
    <2>2. CASE n_buffers + 1 # granted
      <3>1. n_buffers' = n_buffers + 1 /\ n_buffers' < granted /\ pc' = "queue" /\ ~streaming'
        <4>1. n_buffers' = n_buffers + 1 /\ n_buffers' < granted /\ n_buffers' # granted
          BY <1>1, <2>2
        <4>2. ~streaming'
          BY <4>1
        <4> QED
          BY <4>1, <4>2
      <3>2. \A b \in Buffers : owner'[b] = IF b < n_buffers' THEN "driver"
                                            ELSE IF b < granted THEN "app" ELSE "none"
        BY <1>1, <1>2, <3>1
      <3> QED
        BY <1>1, <3>1, <3>2 DEF Phases
    <2> QED
      BY <2>1, <2>2
  <1>5. WidthTaken'
    BY DEF WidthTaken
  <1>6. Counts'
    BY Constants DEF Counts
  <1>7. Quits'
    BY DEF Quits
  <1>8. InOrder'
    <2>1. Filled' = {}
      BY <1>2 DEF Filled
    <2>2. Cardinality(Filled)' = 0
      BY <2>1, FS_EmptySet
    <2>3. Distance(captured, shown)' = 0
      BY DEF Counts, Distance
    <2> QED
      BY <2>1, <2>2, <2>3 DEF InOrder
  <1> QED
    BY <1>3, <1>4, <1>5, <1>6, <1>7, <1>8

LEMMA TopIInv == IInv /\ Top => IInv'
  <1> SUFFICES ASSUME IInv, Top PROVE IInv'
    OBVIOUS
  <1> USE DEF Top, CaptureTop, ViewerTop, IInv, setup, buffers, history, Setup, Loop, Ending
  <1>1. TypeOK'
    BY Constants DEF TypeOK
  <1>2. Phases'
    BY DEF Phases
  <1>3. WidthTaken'
    BY DEF WidthTaken
  <1>4. Counts'
    BY Constants DEF TypeOK, Counts
  <1>5. Quits'
    BY DEF Quits
  <1>6. InOrder'
    BY InOrderKept
  <1> QED
    BY <1>1, <1>2, <1>3, <1>4, <1>5, <1>6

\* Ends that leave everything as it is.
LEMMA FailIInv == IInv /\ (SelectTimeout \/ ErrnoExit) => IInv'
  <1> SUFFICES ASSUME IInv, SelectTimeout \/ ErrnoExit PROVE IInv'
    OBVIOUS
  <1> USE DEF SelectTimeout, ErrnoExit, IInv, setup, buffers, history, Setup, Loop, Ending
  <1>1. TypeOK'
    BY DEF TypeOK
  <1>2. Phases' /\ WidthTaken' /\ Counts' /\ Quits'
    BY DEF Phases, WidthTaken, Counts, Quits
  <1>3. InOrder'
    BY InOrderKept
  <1> QED
    BY <1>1, <1>2, <1>3

LEMMA CloseWindowIInv == IInv /\ CloseWindow => IInv'
  <1> SUFFICES ASSUME IInv, CloseWindow PROVE IInv'
    OBVIOUS
  <1> USE DEF CloseWindow, IInv, setup, buffers, history, Setup, Loop, Ending
  <1>1. TypeOK'
    BY DEF TypeOK
  <1>2. Phases' /\ WidthTaken' /\ Counts' /\ Quits'
    BY DEF Phases, WidthTaken, Counts, Quits
  <1>3. InOrder'
    BY InOrderKept
  <1> QED
    BY <1>1, <1>2, <1>3

LEMMA FinishIInv == IInv /\ Finish => IInv'
  <1> SUFFICES ASSUME IInv, Finish PROVE IInv'
    OBVIOUS
  <1> USE DEF Finish, IInv, setup, buffers, history, Setup, Loop, Ending
  <1>1. CASE StopCapturing
    <2> USE <1>1 DEF StopCapturing
    <2>1. TypeOK'
      BY DEF TypeOK
    <2>2. Phases'
      BY Constants DEF TypeOK, Phases, Buffers
    <2>3. WidthTaken' /\ Counts' /\ Quits' /\ InOrder'
      BY DEF WidthTaken, Counts, Quits, InOrder
    <2> QED
      BY <2>1, <2>2, <2>3
  <1>2. CASE UninitDevice
    <2> USE <1>2 DEF UninitDevice, Unmapped
    <2>1. TypeOK'
      BY DEF TypeOK
    <2>2. Phases'
      BY Constants DEF TypeOK, Phases, Buffers
    <2>3. WidthTaken' /\ Counts' /\ Quits' /\ InOrder'
      BY DEF WidthTaken, Counts, Quits, InOrder
    <2> QED
      BY <2>1, <2>2, <2>3
  <1>3. CASE CloseDevice
    <2> USE <1>3 DEF CloseDevice
    <2>1. TypeOK'
      BY DEF TypeOK
    <2>2. Phases' /\ WidthTaken' /\ Counts' /\ Quits' /\ InOrder'
      BY DEF Phases, WidthTaken, Counts, Quits, InOrder
    <2> QED
      BY <2>1, <2>2
  <1> QED
    BY <1>1, <1>2, <1>3

\* Frame numbers when one more is stored.
LEMMA Later ==
    ASSUME NEW f \in Frames, NEW g \in Frames
    PROVE  /\ Distance(f, f) = 0
           /\ Distance(f, g) < Cycle - 1 => Distance(Following(f), g) = Distance(f, g) + 1
  BY Constants DEF Frames, Distance, Following

\* Of two frames stored before f, the one that is one nearer is the next.
LEMMA Successive ==
    ASSUME NEW f \in Frames, NEW g \in Frames, NEW h \in Frames,
           Distance(f, h) = Distance(f, g) + 1
    PROVE  g = Following(h)
  BY Constants DEF Frames, Distance, Following

\* A buffer the driver has is filled: the ages of the others grow by one.
LEMMA FillIInv == IInv /\ Fill => IInv'
  <1> SUFFICES ASSUME IInv, Fill PROVE IInv'
    OBVIOUS
  <1> USE DEF IInv, setup, history
  <1> PICK b \in Buffers :
               /\ owner[b] = "driver"
               /\ owner' = [owner EXCEPT ![b] = "filled"]
               /\ content' = [content EXCEPT ![b] = captured']
    BY DEF Fill
  <1>1. captured' = Following(captured) /\ captured' \in Frames /\ captured \in Frames
    BY FrameArithmetic DEF Fill, TypeOK, Frames
  <1>2. TypeOK'
    BY <1>1 DEF TypeOK, Fill, Frames
  <1>3. pc \in Loop \union {"stop"}
    BY DEF Fill, Phases, TypeOK, Setup, Loop, Ending, Stopped
  <1>4. Phases'
    BY <1>3 DEF Phases, Fill, Setup, Loop, Ending, TypeOK
  <1>5. WidthTaken' /\ Counts' /\ Quits'
    BY <1>3 DEF WidthTaken, Counts, Quits, Fill, Setup, Loop, Ending
  <1>6. InOrder'
    <2> SUFFICES ASSUME pc \in Loop PROVE InOrder'
      BY DEF InOrder, Fill
    <2> DEFINE n == Cardinality(Filled)
    <2>1. Filled' = Filled \union {b} /\ b \notin Filled
      BY DEF Filled, TypeOK
    <2>2. IsFiniteSet(Filled) /\ n \in Nat
      BY FilledFinite
    <2>3. Cardinality(Filled)' = n + 1
      BY <2>1, <2>2, FS_AddElement
    <2>4. n + 1 <= Wanted
      <3>1. Filled \union {b} \subseteq Buffers
        BY DEF Filled
      <3> QED
        BY <2>1, <2>2, <3>1, FS_AddElement, FS_Subset, Constants
    <2>5. \A c \in Buffers : content[c] \in Frames
      BY DEF TypeOK, Frames
    <2>5a. \A c \in Buffers : AgeOf(c) \in Frames
      BY <1>1, <2>5, FrameArithmetic DEF AgeOf
    <2> HIDE DEF n
    <2>6. \A c \in Buffers : c # b /\ AgeOf(c) <= n => AgeOf(c)' = AgeOf(c) + 1
      <3> SUFFICES ASSUME NEW c \in Buffers, c # b, AgeOf(c) <= n PROVE AgeOf(c)' = AgeOf(c) + 1
        OBVIOUS
      <3>1. content'[c] = content[c]
        BY DEF TypeOK
      <3>2. AgeOf(c) < Cycle - 1
        BY <2>2, <2>4, <2>5a, Constants DEF Frames
      <3> QED
        BY <1>1, <2>5, <3>1, <3>2, Later DEF AgeOf
    <2>7. AgeOf(b)' = 0
      BY <1>1, Later DEF AgeOf, TypeOK
    <2> DEFINE m == n + 1
    <2>8. \A c \in Filled' : c = b \/ (c \in Filled /\ c # b /\ c \in Buffers)
      BY <2>1 DEF Filled
    <2>9. \A c \in Filled : AgeOf(c) \in Nat /\ AgeOf(c) < n /\ AgeOf(c)' = AgeOf(c) + 1
      <3> SUFFICES ASSUME NEW c \in Filled
                   PROVE  AgeOf(c) \in Nat /\ AgeOf(c) < n /\ AgeOf(c)' = AgeOf(c) + 1
        OBVIOUS
      <3>1. c \in Buffers /\ c # b
        BY <2>1 DEF Filled
      <3>2. AgeOf(c) \in Nat
        BY <2>5a, <3>1, Constants DEF Frames
      <3>3. AgeOf(c) < n
        BY DEF InOrder, n
      <3> QED
        BY <2>2, <2>6, <3>1, <3>2, <3>3
    <2>10. /\ \A c \in Filled' : AgeOf(c)' < m
           /\ \A c, d \in Filled' : c # d => AgeOf(c)' # AgeOf(d)'
      <3>1. \A c, d \in Filled : c # d => AgeOf(c) # AgeOf(d)
        BY DEF InOrder
      <3> QED
        BY <2>2, <2>7, <2>8, <2>9, <3>1
    <2>11. \A k \in 0 .. m - 1 : \E c \in Filled' : AgeOf(c)' = k
      <3> SUFFICES ASSUME NEW k \in 0 .. m - 1 PROVE \E c \in Filled' : AgeOf(c)' = k
        OBVIOUS
      <3>1. CASE k = 0
        BY <2>1, <2>7, <3>1
      <3>2. CASE k # 0
        <4>1. k - 1 \in 0 .. n - 1
          BY <2>2, <3>2
        <4>2. PICK c \in Filled : AgeOf(c) = k - 1
          BY <4>1 DEF InOrder, n
        <4> QED
          BY <2>1, <2>9, <4>2
      <3> QED
        BY <3>1, <3>2
    <2>12. pc' = "process" => AgeOf(held)' = m
      <3> SUFFICES ASSUME pc = "process" PROVE AgeOf(held)' = m
        BY DEF Fill
      <3>1. held \in Buffers /\ held # b /\ AgeOf(held) = n /\ held' = held
        BY DEF Phases, InOrder, Loop, TypeOK, Fill, n
      <3>2. AgeOf(held)' = Distance(captured', content'[held])
        BY <3>1 DEF AgeOf
      <3> QED
        BY <2>2, <2>6, <3>1, <3>2 DEF AgeOf
    <2>13. Distance(captured, shown)' = IF pc' = "process" THEN m + 1 ELSE m
      <3>1. shown \in Frames /\ shown' = shown /\ pc' = pc
        BY DEF TypeOK, Frames, Fill
      <3>2. Distance(captured, shown) = IF pc = "process" THEN n + 1 ELSE n
        BY DEF InOrder, n
      <3>3. Distance(captured, shown) < Cycle - 1
        BY <2>2, <2>4, <3>2, Constants
      <3>4. Distance(captured', shown) = Distance(captured, shown) + 1
        BY <1>1, <3>1, <3>3, Later
      <3> QED
        BY <2>2, <3>1, <3>2, <3>4 DEF Distance
    <2>14. Cardinality(Filled)' = m
      BY <2>3
    <2> HIDE DEF m
    <2> QED
      BY <2>10, <2>11, <2>12, <2>13, <2>14 DEF InOrder
  <1> QED
    BY <1>2, <1>4, <1>5, <1>6

\* The frame that is taken is the oldest one that is filled.
LEMMA TakeFrameIInv == IInv /\ TakeFrame => IInv'
  <1> SUFFICES ASSUME IInv, TakeFrame PROVE IInv'
    OBVIOUS
  <1> USE DEF IInv, setup, history, Loop
  <1> PICK b \in Buffers :
               /\ owner[b] = "filled"
               /\ \A c \in Buffers : owner[c] = "filled" => Age(b) >= Age(c)
               /\ held' = b
               /\ owner' = [owner EXCEPT ![b] = "app"]
    BY DEF TakeFrame, Taken
  <1>1. TypeOK'
    BY DEF TypeOK, TakeFrame
  <1>2. Phases'
    <2>1. b < granted /\ b \in Nat /\ granted \in Nat
      BY Constants DEF Phases, TakeFrame, Buffers, TypeOK
    <2> QED
      BY <2>1 DEF Phases, TakeFrame, Setup, Ending, TypeOK
  <1>3. WidthTaken' /\ Counts' /\ Quits'
    BY DEF WidthTaken, Counts, Quits, TakeFrame, Setup, Ending
  <1>4. InOrder'
    <2> DEFINE n == Cardinality(Filled)
               m == n - 1
    <2>1. Filled' = Filled \ {b} /\ b \in Filled
      BY DEF Filled, TypeOK
    <2>2. IsFiniteSet(Filled) /\ n \in Nat
      BY FilledFinite
    <2>3. Cardinality(Filled)' = m
      BY <2>1, <2>2, FS_RemoveElement
    <2>4. n \in Nat \ {0}
      BY <2>1, <2>2, FS_EmptySet
    <2>5. \A c : AgeOf(c)' = AgeOf(c)
      BY DEF AgeOf, Distance, TakeFrame
    <2>6. \A c \in Buffers : AgeOf(c) \in Frames /\ AgeOf(c) = Age(c)
      BY FrameArithmetic DEF AgeOf, Age, TypeOK, Frames
    <2>7. /\ \A c \in Filled : AgeOf(c) < n
          /\ \A c, d \in Filled : c # d => AgeOf(c) # AgeOf(d)
          /\ \A k \in 0 .. n - 1 : \E c \in Filled : AgeOf(c) = k
          /\ Distance(captured, shown) = n
      BY DEF InOrder, TakeFrame
    <2> HIDE DEF n
    <2>8. \A c \in Filled : c \in Buffers /\ AgeOf(c) \in Nat
      BY <2>6, Constants DEF Filled, Frames
    <2>9. AgeOf(b) = m
      <3>1. m \in 0 .. n - 1
        BY <2>4
      <3>2. PICK c \in Filled : AgeOf(c) = m
        BY <2>7, <3>1
      <3>3. AgeOf(b) >= AgeOf(c)
        BY <2>6, <2>8 DEF Filled
      <3>4. AgeOf(b) < n /\ AgeOf(b) \in Nat
        BY <2>1, <2>7, <2>8
      <3> QED
        BY <2>4, <3>2, <3>3, <3>4
    <2>10. \A c \in Filled' : AgeOf(c)' < m
      <3> SUFFICES ASSUME NEW c \in Filled, c # b PROVE AgeOf(c) < m
        BY <2>1, <2>5
      <3>1. AgeOf(c) < n /\ AgeOf(c) # m /\ AgeOf(c) \in Nat
        BY <2>1, <2>7, <2>8, <2>9
      <3> QED
        BY <2>4, <3>1
    <2>11. \A c, d \in Filled' : c # d => AgeOf(c)' # AgeOf(d)'
      BY <2>1, <2>5, <2>7
    <2>12. \A k \in 0 .. m - 1 : \E c \in Filled' : AgeOf(c)' = k
      <3> SUFFICES ASSUME NEW k \in 0 .. m - 1 PROVE \E c \in Filled' : AgeOf(c) = k
        BY <2>5
      <3>1. k \in 0 .. n - 1 /\ k # m
        BY <2>4
      <3>2. PICK c \in Filled : AgeOf(c) = k
        BY <2>7, <3>1
      <3> QED
        BY <2>1, <2>9, <3>1, <3>2
    <2>13. AgeOf(held)' = m
      BY <2>9 DEF AgeOf, TakeFrame
    <2>14. Distance(captured, shown)' = m + 1
      BY <2>4, <2>7 DEF TakeFrame, Distance
    <2>15. pc' = "process"
      BY DEF TakeFrame
    <2> HIDE DEF m
    <2> QED
      BY <2>3, <2>10, <2>11, <2>12, <2>13, <2>14, <2>15 DEF InOrder
  <1> QED
    BY <1>1, <1>2, <1>3, <1>4

\* The buffer goes back to the driver, the frame that was in it is the last one.
LEMMA ProcessFrameIInv ==
    ASSUME IInv, ProcessFrame
    PROVE  IInv' /\ shown' = Following(shown)
  <1> USE DEF IInv, setup, Loop
  <1>1. /\ held \in Buffers /\ owner[held] = "app" /\ content' = content /\ captured' = captured
        /\ owner' = [owner EXCEPT ![held] = "driver"] /\ shown' = content[held] /\ held' = held
        /\ pc = "process" /\ pc' = "top"
    <2>1. held \in Buffers /\ held \in Nat /\ granted \in Nat /\ pc = "process"
      BY Constants DEF ProcessFrame, TypeOK, Buffers
    <2>2. owner[held] = "app"
      BY <2>1 DEF Phases
    <2> QED
      BY <2>1, <2>2 DEF ProcessFrame, Requeued
  <1>2. TypeOK'
    <2>1. processed' \in 0 .. FrameCount + 1
      BY Constants DEF TypeOK, ProcessFrame
    <2>2. afterQuit' \in 0 .. 2
      BY DEF TypeOK, ProcessFrame
    <2>3. {captured', shown'} \subseteq 0 .. Cycle - 1
      BY <1>1 DEF TypeOK
    <2>4. owner' \in [Buffers -> {"none", "app", "driver", "filled"}]
      BY <1>1 DEF TypeOK
    <2> QED
      BY <2>1, <2>2, <2>3, <2>4 DEF TypeOK, ProcessFrame
  <1>3. Phases'
    BY <1>1 DEF Phases, ProcessFrame, Setup, Ending, TypeOK
  <1>4. WidthTaken'
    BY DEF WidthTaken, ProcessFrame
  <1>5. Counts'
    BY Constants DEF Counts, ProcessFrame, Setup, Ending, TypeOK
  <1>6. Quits'
    BY DEF Quits, ProcessFrame
  <1>7. InOrder' /\ shown' = Following(shown)
    <2> DEFINE n == Cardinality(Filled)
    <2>1. Filled' = Filled
      BY <1>1 DEF Filled, TypeOK
    <2>2. \A c : AgeOf(c)' = AgeOf(c)
      BY <1>1 DEF AgeOf, Distance
    <2>3. /\ AgeOf(held) = n /\ Distance(captured, shown) = n + 1
      BY <1>1 DEF InOrder
    <2>4. Distance(captured, shown)' = n
      BY <1>1, <2>3 DEF AgeOf, Distance
    <2>5. InOrder'
      BY <1>1, <2>1, <2>2, <2>4 DEF InOrder
    <2>6. captured \in Frames /\ content[held] \in Frames /\ shown \in Frames
      BY <1>1 DEF TypeOK, Frames
    <2>7. n \in Nat
      BY FilledFinite
    <2> HIDE DEF n
    <2>8. content[held] = Following(shown)
      BY <2>3, <2>6, <2>7, Successive DEF AgeOf
    <2> QED
      BY <1>1, <2>5, <2>8
  <1> QED
    BY <1>2, <1>3, <1>4, <1>5, <1>6, <1>7

LEMMA NextIInv == IInv /\ [Next]_vars => IInv'
  <1> SUFFICES ASSUME IInv, [Next]_vars PROVE IInv'
    OBVIOUS
  <1>1. CASE Starting
    BY <1>1, OpenDeviceIInv, InitDeviceIInv, RequestBuffersIInv, MapBufferIInv, QueueBufferIInv
       DEF Starting
  <1>2. CASE Running
    BY <1>2, TopIInv, TakeFrameIInv, FailIInv, ProcessFrameIInv DEF Running
  <1>3. CASE Finish \/ ErrnoExit \/ Fill \/ CloseWindow
    BY <1>3, FinishIInv, FailIInv, FillIInv, CloseWindowIInv
  <1>4. CASE UNCHANGED vars
    <2> USE <1>4 DEF vars, setup, buffers, history, IInv
    <2>1. TypeOK' /\ Phases' /\ WidthTaken' /\ Counts' /\ Quits'
      BY DEF TypeOK, Phases, WidthTaken, Counts, Quits
    <2>2. InOrder'
      BY InOrderKept
    <2> QED
      BY <2>1, <2>2
  <1> QED
    BY <1>1, <1>2, <1>3, <1>4 DEF Next, Program

\* The inductive invariant is an invariant of the specification.
THEOREM Invariance == Spec => []IInv
  BY InitIInv, NextIInv, PTL DEF Spec

-----------------------------------------------------------------------------
(* What follows from it.                                                   *)

\* Program and driver agree on who has the buffers and on the format: while
\* frames are taken the driver has every buffer but the one being processed and
\* so always one to fill, and the viewer draws with the width it was given.
THEOREM BuffersAgreed == Spec => []DriverAgrees
  <1>1. IInv => DriverAgrees
    <2> SUFFICES ASSUME IInv PROVE DriverAgrees
      OBVIOUS
    <2> USE DEF IInv
    <2>1. DriverHasBuffers
      <3> SUFFICES ASSUME pc \in Loop PROVE DriverHasBuffers
        BY DEF DriverHasBuffers
      <3>1. granted \in 2 .. Wanted
        BY Constants DEF Phases, TypeOK
      <3>2. \A b \in 0 .. granted - 1 :
                /\ b \in Buffers
                /\ owner[b] \in {"driver", "filled"} \/ (pc = "process" /\ b = held)
        BY <3>1, Constants DEF Phases, Buffers
      <3>3. {0, 1} \subseteq 0 .. granted - 1
        BY <3>1
      <3>4. \E b \in {0, 1} : b # held
        OBVIOUS
      <3> QED
        BY <3>2, <3>3, <3>4 DEF DriverHasBuffers
    <2>2. WidthAgreed
      BY DEF WidthTaken, WidthAgreed, Loop
    <2> QED
      BY <2>1, <2>2 DEF DriverAgrees
  <1> QED
    BY <1>1, Invariance, PTL

\* A regular end leaves the stream off and no buffer mapped, capture.c has then
\* processed as many frames as it was to take, and at most one frame is shown
\* after the viewer's window is closed.
THEOREM CleanEnds == Spec => []EndsClean
  <1>1. IInv => EndsClean
    BY DEF IInv, Phases, Counts, Quits, EndsClean, CleanEnd, QuitPrompt, Ending
  <1> QED
    BY <1>1, Invariance, PTL

\* Every frame that is processed is the one stored next after the frame
\* processed before it, whichever buffers the driver fills.
THEOREM OrderKept == Spec => FramesInOrder
  <1> DEFINE InTurn == pc = "process" /\ pc' = "top" => shown' = (shown + 1) % Cycle
  <1>1. IInv /\ [Next]_vars => [InTurn]_vars
    <2> SUFFICES ASSUME IInv, Next, pc = "process", pc' = "top"
                 PROVE  shown' = (shown + 1) % Cycle
      OBVIOUS
    <2>1. ProcessFrame
      BY DEF Next, Program, Starting, Running, Finish, ErrnoExit, Fill, CloseWindow, OpenDevice,
             CaptureInit, ViewerInit, InitDevice, RequestBuffers, MapBuffer, QueueBuffer, Top,
             TakeFrame, SelectTimeout, StopCapturing, UninitDevice, CloseDevice
    <2>2. shown \in Frames
      BY DEF IInv, TypeOK, Frames
    <2> QED
      BY <2>1, <2>2, ProcessFrameIInv, FrameArithmetic
  <1> HIDE DEF InTurn
  <1>2. [][InTurn]_vars => FramesInOrder
    BY DEF InTurn, FramesInOrder
  <1> QED
    BY <1>1, <1>2, Invariance, PTL DEF Spec
=============================================================================
