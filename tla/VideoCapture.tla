---------------------------- MODULE VideoCapture ----------------------------
(***************************************************************************)
(* v4l-snippets: capture.c writes a number of camera frames to a file,     *)
(* sdlvideoviewer.c shows frames until its window is closed.  Both lead a  *)
(* V4L2 device through the same life, opened, configured, mapped,          *)
(* streaming, unmapped, closed, and pass its buffers back and forth with   *)
(* the driver while it streams; their functions have the same names.       *)
(*                                                                         *)
(* The frames the driver stores are numbered modulo Cycle.  A frame that   *)
(* finds no buffer is lost, select() interrupted by a signal and a         *)
(* VIDIOC_DQBUF that says EAGAIN lead back to select(): these are steps    *)
(* that change nothing.                                                    *)
(***************************************************************************)
EXTENDS Integers

CONSTANTS
    Widths,      \* widths a driver may set
    Width,       \* the width that is asked for, 640
    Wanted,      \* buffers asked for, 4
    FrameCount,  \* frame_count of capture.c, 1000
    Cycle        \* bound: the frame numbers that are told apart

ASSUME VideoAssumption ==
    /\ Width \in Widths
    /\ Wanted \in Nat \ {0}
    /\ FrameCount \in Nat
    /\ Cycle \in Nat /\ Cycle > Wanted + 1

VARIABLES
    program,    \* "capture" or "viewer"
    features,   \* what the device can do
    format,     \* the width the driver sets when it is asked for Width
    pc,
    width,      \* what the program takes the width to be
    granted,    \* buffers the driver grants
    n_buffers,  \* buffers mapped, or queued by start_capturing()
    owner,      \* buffer -> who has it
    content,    \* buffer -> the frame in it
    held,       \* the buffer read_frame() has
    streaming,
    count,      \* frames mainloop() of capture.c has still to take
    quit,       \* the viewer's window has been closed
    captured,   \* the last frame stored
    shown,      \* history: the last frame processed
    processed,  \* history: how many were processed, up to FrameCount + 1,
    afterQuit   \* history: and how many of them after quit, up to 2

setup   == <<program, features, format>>
buffers == <<owner, content, held, captured>>
history == <<shown, processed, afterQuit>>
vars    == <<setup, pc, width, granted, n_buffers, buffers, streaming, count, quit, history>>

Buffers  == 0 .. Wanted - 1
Required == {"v4l2", "capture", "streaming", "format"}
Features == Required \union {"crop"}
Setup    == {"open", "init", "request", "map", "queue"}
Loop     == {"top", "select", "process"}
Ending   == {"stop", "unmap", "close"}
Stopped  == pc \in {"done", "failed"}

Init ==
    /\ program \in {"capture", "viewer"}
    /\ features \in {Features \ lacking : lacking \in {{}} \union {{f} : f \in Features}}
    /\ format \in Widths
    /\ pc = "open"
    /\ width = Width
    /\ granted = 0 /\ n_buffers = 0
    /\ owner = [b \in Buffers |-> "none"]
    /\ content = [b \in Buffers |-> 0]
    /\ held = 0
    /\ streaming = FALSE
    /\ count = FrameCount
    /\ quit = FALSE
    /\ captured = 0
    /\ shown = 0 /\ processed = 0 /\ afterQuit = 0

-----------------------------------------------------------------------------
(* The driver and the user.                                                *)

\* The driver fills one of its buffers, in the code the first it was given.
Fill ==
    /\ streaming /\ ~Stopped
    /\ captured' = (captured + 1) % Cycle
    /\ \E b \in Buffers :
           /\ owner[b] = "driver"
           /\ owner' = [owner EXCEPT ![b] = "filled"]
           /\ content' = [content EXCEPT ![b] = captured']
    /\ UNCHANGED <<setup, pc, width, granted, n_buffers, held, streaming, count, quit, history>>

\* The window is closed or the user types control-C.
CloseWindow ==
    /\ program = "viewer" /\ pc \in Loop
    /\ quit' = TRUE
    /\ UNCHANGED <<setup, pc, width, granted, n_buffers, buffers, streaming, count, history>>

-----------------------------------------------------------------------------
(* From open_device() to VIDIOC_STREAMON.                                  *)

OpenDevice ==
    /\ pc = "open"
    /\ pc' = "init"
    /\ UNCHANGED <<setup, width, granted, n_buffers, buffers, streaming, count, quit, history>>

\* init_device() insists on the four features; cropping is tried and any error
\* of it ignored.
InitDevice(width_set) ==
    /\ pc = "init"
    /\ pc' = IF Required \subseteq features THEN "request" ELSE "failed"
    /\ width' = width_set
    /\ UNCHANGED <<setup, granted, n_buffers, buffers, streaming, count, quit, history>>

\* capture.c does not ask what became of the format: a frame has the size that
\* comes with it.
CaptureInit == program = "capture" /\ InitDevice(width)

\* Bug: the width the driver has set is not looked at.
ViewerInitAsked == program = "viewer" /\ InitDevice(width)

\* The viewer takes over the width the driver has set.
ViewerInit == program = "viewer" /\ InitDevice(format)

\* Bug: a single buffer will do.
EnoughOne(n) == n >= 1

Enough(n) == n >= 2

\* VIDIOC_REQBUFS: the driver may grant fewer buffers.
RequestBuffers ==
    /\ pc = "request"
    /\ \E n \in 0 .. Wanted :
           /\ granted' = n
           /\ pc' = IF Enough(n) THEN "map" ELSE "failed"
    /\ UNCHANGED <<setup, width, n_buffers, buffers, streaming, count, quit, history>>

\* The loop of init_mmap(); after it the viewer sets up its window.
MapBuffer ==
    /\ pc = "map"
    /\ owner' = [owner EXCEPT ![n_buffers] = "app"]
    /\ IF n_buffers + 1 < granted
       THEN n_buffers' = n_buffers + 1 /\ pc' = "map"
       ELSE n_buffers' = 0 /\ pc' = "queue"
    /\ UNCHANGED <<setup, width, granted, content, held, streaming, count, quit, captured, history>>

\* The loop of start_capturing(), and VIDIOC_STREAMON after the last buffer.
QueueBuffer ==
    /\ pc = "queue"
    /\ owner' = [owner EXCEPT ![n_buffers] = "driver"]
    /\ n_buffers' = n_buffers + 1
    /\ streaming' = (n_buffers' = granted)
    /\ pc' = IF streaming' THEN "top" ELSE "queue"
    /\ UNCHANGED <<setup, width, granted, content, held, count, quit, captured, history>>

-----------------------------------------------------------------------------
(* The main loops.                                                         *)

\* Bug: the loop never counts its frames.
CaptureTopUncounted ==
    /\ program = "capture"
    /\ pc' = "select" /\ count' = count

\* Bug: one frame too many.
CaptureTopLong ==
    /\ program = "capture"
    /\ IF count >= 0 THEN pc' = "select" /\ count' = count - 1
                     ELSE pc' = "stop" /\ count' = count

\* mainloop() of capture.c: while (count-- > 0).
CaptureTop ==
    /\ program = "capture"
    /\ IF count > 0 THEN pc' = "select" /\ count' = count - 1
                    ELSE pc' = "stop" /\ count' = count

\* Bug: the event is looked for only until streaming has begun.
ViewerTopOnce ==
    /\ program = "viewer"
    /\ pc' = IF quit /\ processed = 0 THEN "stop" ELSE "select"
    /\ count' = count

\* mainloop() of sdlvideoviewer.c: all events are taken before each frame.
ViewerTop ==
    /\ program = "viewer"
    /\ pc' = IF quit THEN "stop" ELSE "select"
    /\ count' = count

Top ==
    /\ pc = "top"
    /\ CaptureTop \/ ViewerTop
    /\ UNCHANGED <<setup, width, granted, n_buffers, buffers, streaming, quit, history>>

\* Bug: the buffer is queued again before the frame in it is processed.
TakenQueued(b) == [owner EXCEPT ![b] = "driver"]

Taken(b) == [owner EXCEPT ![b] = "app"]

\* How many frames ago b's was stored.
Age(b) == (captured - content[b]) % Cycle

\* read_frame() up to VIDIOC_DQBUF, which gives the buffer filled first.
TakeFrame ==
    /\ pc = "select"
    /\ \E b \in Buffers :
           /\ owner[b] = "filled"
           /\ \A c \in Buffers : owner[c] = "filled" => Age(b) >= Age(c)
           /\ held' = b
           /\ owner' = Taken(b)
    /\ pc' = "process"
    /\ UNCHANGED <<setup, width, granted, n_buffers, content, streaming, count, quit, captured,
                   history>>

\* Two seconds without a frame.
SelectTimeout ==
    /\ pc = "select"
    /\ \A b \in Buffers : owner[b] # "filled"
    /\ pc' = "failed"
    /\ UNCHANGED <<setup, width, granted, n_buffers, buffers, streaming, count, quit, history>>

Requeued == [owner EXCEPT ![held] = "driver"]

\* process_image() of either program, then VIDIOC_QBUF.
ProcessFrame ==
    /\ pc = "process"
    /\ shown' = content[held]
    /\ processed' = IF processed <= FrameCount THEN processed + 1 ELSE processed
    /\ afterQuit' = IF quit /\ afterQuit < 2 THEN afterQuit + 1 ELSE afterQuit
    /\ owner' = Requeued
    /\ pc' = "top"
    /\ UNCHANGED <<setup, width, granted, n_buffers, content, held, streaming, count, quit, captured>>

-----------------------------------------------------------------------------
(* The end.                                                                *)

\* VIDIOC_STREAMOFF takes all buffers off the driver's queues.
StopCapturing ==
    /\ pc = "stop"
    /\ streaming' = FALSE
    /\ owner' = [b \in Buffers |-> IF b < granted THEN "app" ELSE owner[b]]
    /\ pc' = "unmap"
    /\ UNCHANGED <<setup, width, granted, n_buffers, content, held, count, quit, captured, history>>

\* Bug: one buffer stays mapped.
UnmappedBut == [b \in Buffers |-> IF b < n_buffers - 1 THEN "none" ELSE owner[b]]

Unmapped == [b \in Buffers |-> IF b < n_buffers THEN "none" ELSE owner[b]]

UninitDevice ==
    /\ pc = "unmap"
    /\ owner' = Unmapped
    /\ pc' = "close"
    /\ UNCHANGED <<setup, width, granted, n_buffers, content, held, streaming, count, quit, captured,
                   history>>

CloseDevice ==
    /\ pc = "close"
    /\ pc' = "done"
    /\ UNCHANGED <<setup, width, granted, n_buffers, buffers, streaming, count, quit, history>>

\* errno_exit(): any call to the device may fail and end the program.
ErrnoExit ==
    /\ pc \in Setup \union {"select", "process"} \union Ending
    /\ pc' = "failed"
    /\ UNCHANGED <<setup, width, granted, n_buffers, buffers, streaming, count, quit, history>>

Starting == OpenDevice \/ CaptureInit \/ ViewerInit \/ RequestBuffers \/ MapBuffer \/ QueueBuffer
Running  == Top \/ TakeFrame \/ SelectTimeout \/ ProcessFrame
Finish   == StopCapturing \/ UninitDevice \/ CloseDevice

\* main() of both programs.
Program == Starting \/ Running \/ Finish

Next == Program \/ ErrnoExit \/ Fill \/ CloseWindow

Spec == Init /\ [][Next]_vars

\* The program runs: select() returns within two seconds, and is not
\* interrupted for ever.
Fairness == WF_vars(Program)
FairSpec == Spec /\ Fairness
-----------------------------------------------------------------------------
TypeOK ==
    /\ program \in {"capture", "viewer"}
    /\ features \subseteq Features
    /\ format \in Widths /\ width \in Widths
    /\ pc \in Setup \union Loop \union Ending \union {"done", "failed"}
    /\ granted \in 0 .. Wanted
    /\ n_buffers \in 0 .. granted
    /\ owner \in [Buffers -> {"none", "app", "driver", "filled"}]
    /\ content \in [Buffers -> 0 .. Cycle - 1]
    /\ held \in Buffers
    /\ streaming \in BOOLEAN /\ quit \in BOOLEAN
    /\ count \in 0 .. FrameCount
    /\ {captured, shown} \subseteq 0 .. Cycle - 1
    /\ processed \in 0 .. FrameCount + 1
    /\ afterQuit \in 0 .. 2

\* While frames are taken every buffer but the one being processed is with the
\* driver, so that it always has one to fill: neither program can starve the
\* camera and then wait for it.
DriverHasBuffers ==
    pc \in Loop =>
        /\ \A b \in 0 .. granted - 1 :
               owner[b] \in {"driver", "filled"} \/ (pc = "process" /\ b = held)
        /\ \E b \in Buffers : owner[b] \in {"driver", "filled"}

\* Every frame the driver has stored is processed once and in order: none is
\* skipped when buffers change hands, and none overwritten while it is processed.
FramesInOrder == [][pc = "process" /\ pc' = "top" => shown' = (shown + 1) % Cycle]_vars

\* The viewer draws with the width of the frames it gets.
WidthAgreed == program = "viewer" /\ pc \in Loop => width = format

\* Program and driver agree on who has the buffers and on the format.
DriverAgrees == TypeOK /\ DriverHasBuffers /\ WidthAgreed

\* A program that ends in the regular way has switched the stream off and
\* unmapped every buffer; capture.c has processed all frames it was to take.
CleanEnd ==
    pc = "done" =>
        /\ ~streaming
        /\ \A b \in Buffers : owner[b] = "none"
        /\ program = "capture" => processed = FrameCount

\* The viewer looks for the closed window between frames only: at most the
\* frame it was waiting for is shown after that.
QuitPrompt == afterQuit <= 1

\* How both programs end: with everything given back, and soon.
EndsClean == CleanEnd /\ QuitPrompt

\* capture.c ends, and the viewer ends when its window is closed.
Terminates ==
    /\ program = "capture" ~> Stopped
    /\ quit ~> Stopped
=============================================================================
