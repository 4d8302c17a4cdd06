------------------------------ MODULE CameraQueue ------------------------------
(***************************************************************************)
(* drivers/video/camera_hpmicro.c behind drivers/video/video_hpmicro.c: the   *)
(* buffers of the application, the two queues, the frame buffer register    *)
(* and the interrupt.  buffer2 is never set, so the second frame buffer     *)
(* register and its interrupt are not in use.                               *)
(***************************************************************************)
EXTENDS Naturals, Sequences, SequencesExt

CONSTANTS VideoBufs, OwnBuf     \* the application's buffers, the one the driver allocates

VARIABLES
  camIn, camOut,    \* fifo_in, fifo_out
  camUser, camHeld, \* with the application; between the queues in flush
  camBuffer,        \* data->cam_buffer is allocated
  fb1,              \* DMASA_FB1
  camIrq,           \* status bits: start of frame, transfer done
  frame,            \* the camera writes a frame
  filled,           \* buffers with a frame written since they were enqueued
  video,            \* camera and sensor run, formats agree, the last call's result
  camOdd            \* history: what the properties excuse, and what went wrong

camVars == <<camIn, camOut, camUser, camHeld, camBuffer, fb1, camIrq, frame, filled, video, camOdd>>
queues  == <<camIn, camOut, camUser, camHeld>>
camera  == <<camBuffer, fb1>>

TypeOK ==
    /\ camIn \in Seq(VideoBufs) /\ camOut \in Seq(VideoBufs)
    /\ camUser \subseteq VideoBufs /\ camHeld \subseteq VideoBufs /\ filled \subseteq VideoBufs
    /\ camBuffer \in BOOLEAN /\ fb1 \in VideoBufs \cup {OwnBuf, "none"}
    /\ camIrq \subseteq {"sof", "done"} /\ frame \in BOOLEAN
    /\ video \in [cam : BOOLEAN, sensor : BOOLEAN, same : BOOLEAN, last : {"none", "start", "stop", "format"}]
    /\ camOdd \subseteq {"late", "starved", "cancelled", "format", "refused", "unfilled", "notQueued"}

Init ==
    /\ camIn = <<>> /\ camOut = <<>> /\ camUser = VideoBufs /\ camHeld = {} /\ filled = {}
    /\ camBuffer = FALSE /\ fb1 = "none" /\ camIrq = {} /\ frame = FALSE /\ camOdd = {}
    /\ video = [cam |-> FALSE, sensor |-> FALSE, same |-> FALSE, last |-> "none"]

Calm == camOdd \subseteq {"refused"}   \* bound: after another excuse only dequeue and flush are called
Queued == ToSet(camIn)
Turn(q) == IF q = <<>> THEN q ELSE Append(Tail(q), Head(q))
Turned(q, n) == SubSeq(q, n + 1, Len(q)) \o SubSeq(q, 1, n)      \* n <= Len(q) turns
-------------------------------------------------------------------------------
(* The composite device: camera first, then sensor; a refusal of the second *)
(* leaves the first as it is now.                                           *)
SetFormat ==            \* also get_format; the buffer is allocated when there is none
    /\ camBuffer' = TRUE /\ fb1' = OwnBuf /\ Calm
    /\ \E ok \in BOOLEAN :
         video' = [video EXCEPT !.same = ok, !.last = IF ok THEN "format" ELSE "none"]
    /\ camOdd' = camOdd \cup (IF video.cam THEN {"format"} ELSE {})
    /\ UNCHANGED <<queues, camIrq, frame, filled>>

FormatRefused ==        \* at once, or by the MIPI bridge or cam_init with the buffer allocated
    /\ Calm /\ \E allocated, same \in BOOLEAN :
         /\ camBuffer' = (camBuffer \/ allocated)
         /\ video' = [video EXCEPT !.same = same, !.last = "none"]
    /\ camOdd' = camOdd \cup (IF camBuffer' /\ fb1 \in VideoBufs THEN {"refused"} ELSE {})
    /\ UNCHANGED <<queues, fb1, camIrq, frame, filled>>

StreamStart ==          \* after a format the camera took
    /\ fb1 # "none" /\ Calm
    /\ \E ok \in BOOLEAN : video' = [video EXCEPT !.cam = TRUE, !.sensor = ok \/ @,
                                                  !.last = IF ok THEN "start" ELSE "none"]
    /\ UNCHANGED <<queues, camera, camIrq, frame, filled, camOdd>>

StreamStop ==           \* sensor first; cam_stop_safely waits for the end of the frame
    /\ Calm
    /\ \/ video' = [video EXCEPT !.last = "none"]
       \/ /\ ~frame
          /\ video' = [video EXCEPT !.sensor = FALSE, !.cam = FALSE, !.last = "stop"]
    /\ UNCHANGED <<queues, camera, camIrq, frame, filled, camOdd>>

Enqueue(b) ==
    /\ b \in camUser /\ Calm
    /\ camIn' = Append(camIn, b) /\ camUser' = camUser \ {b} /\ filled' = filled \ {b}
    /\ UNCHANGED <<camOut, camHeld, camera, camIrq, frame, video, camOdd>>

Dequeue ==
    /\ camOut # <<>>
    /\ camUser' = camUser \cup {Head(camOut)} /\ camOut' = Tail(camOut)
    /\ UNCHANGED <<camIn, camHeld, camera, camIrq, frame, filled, video, camOdd>>

FlushTakes ==           \* flush with cancel; the interrupt may come before the put
    /\ camIn # <<>> /\ camHeld = {}
    /\ camHeld' = {Head(camIn)} /\ camIn' = Tail(camIn)
    /\ camOdd' = camOdd \cup {"cancelled"}
    /\ UNCHANGED <<camOut, camUser, camera, camIrq, frame, filled, video>>

FlushPuts(b) ==
    /\ camHeld = {b} /\ camHeld' = {} /\ camOut' = Append(camOut, b)
    /\ UNCHANGED <<camIn, camUser, camera, camIrq, frame, filled, video, camOdd>>
-------------------------------------------------------------------------------
(* hpmicro_cam_isr.  At a start of frame without the driver's buffer the    *)
(* first queued buffer other than the current one becomes the frame buffer; *)
(* a search that fails turns the queue once more than its length.           *)
Others == {i \in DOMAIN camIn : camIn[i] # fb1}
First(S) == CHOOSE i \in S : \A j \in S : i <= j

BugAfterStart ==        \* the frame buffer's own queue entry counts as another
    IF "sof" \notin camIrq \/ camBuffer \/ camIn = <<>> THEN <<camIn, fb1>>
    ELSE <<Tail(camIn), Head(camIn)>>
AfterStart ==           \* <<queue, frame buffer>>
    IF "sof" \notin camIrq \/ camBuffer THEN <<camIn, fb1>>
    ELSE IF Others = {} THEN <<Turn(camIn), fb1>>
    ELSE <<Turned(camIn, First(Others)), camIn[First(Others)]>>

Taken(q, b) ==          \* the queue without b, and b if it was there
    LET at == {i \in DOMAIN q : q[i] = b} IN
    IF at = {} THEN <<Turn(q), <<>>>> ELSE <<Tail(Turned(q, First(at) - 1)), <<b>>>>

(* The driver's own frame is dropped and its buffer freed.  Once it is, the *)
(* test reads through the null pointer: taken as no buffer's address.       *)
Isr ==
    LET start == AfterStart
        found == Taken(start[1], IF "done" \in camIrq THEN start[2] ELSE "none")
        own   == "done" \in camIrq /\ camBuffer /\ start[2] = OwnBuf
    IN /\ camIrq # {} /\ camIrq' = {}
       /\ fb1' = start[2]
       /\ IF own THEN camBuffer' = FALSE /\ camIn' = start[1] /\ UNCHANGED camOut
          ELSE camIn' = found[1] /\ camOut' = camOut \o found[2] /\ UNCHANGED camBuffer
       /\ camOdd' = camOdd
            \cup (IF camIrq = {"sof", "done"} THEN {"late"} ELSE {})
            \cup (IF "sof" \in camIrq /\ ~camBuffer /\ Others = {} /\ fb1 \notin Queued THEN {"starved"} ELSE {})
            \cup (IF ~own /\ ~(ToSet(found[2]) \subseteq filled) THEN {"unfilled"} ELSE {})
       /\ UNCHANGED <<camUser, camHeld, frame, filled, video>>

FrameStarts ==
    /\ video.cam /\ video.sensor /\ ~frame
    /\ frame' = TRUE /\ camIrq' = camIrq \cup {"sof"}
    /\ UNCHANGED <<queues, camera, filled, video, camOdd>>

FrameEnds ==            \* the frame is where the interrupt at its start put it
    /\ frame /\ frame' = FALSE
    /\ camIrq' = camIrq \cup {"done"} /\ filled' = filled \cup ({fb1} \cap VideoBufs)
    /\ camOdd' = camOdd
         \cup (IF "sof" \in camIrq THEN {"late"} ELSE {})
         \cup (IF fb1 \in Queued \/ (fb1 = OwnBuf /\ camBuffer) THEN {} ELSE {"notQueued"})
    /\ UNCHANGED <<queues, camera, video>>

Next ==
    \/ \E b \in VideoBufs : Enqueue(b) \/ FlushPuts(b)
    \/ SetFormat \/ FormatRefused \/ StreamStart \/ StreamStop \/ Dequeue \/ FlushTakes \/ Isr \/ FrameStarts \/ FrameEnds

Spec == Init /\ [][Next]_camVars
-------------------------------------------------------------------------------
(* No buffer of the application is lost or in two places.                   *)
CamBufferHasOnePlace ==
    /\ Queued \cup ToSet(camOut) \cup camUser \cup camHeld = VideoBufs
    /\ IsInjective(camIn) /\ IsInjective(camOut)
    /\ Queued \cap (ToSet(camOut) \cup camUser \cup camHeld) = {}
    /\ ToSet(camOut) \cap (camUser \cup camHeld) = {} /\ camUser \cap camHeld = {}

(* The camera writes into queued buffers only, and what it delivers is a    *)
(* buffer it wrote, unless the interrupt was so late that the frame had     *)
(* ended or the next begun, no buffer was queued at the start of a frame,   *)
(* the queue was cancelled, the format set while the stream ran, or a       *)
(* format refused after the driver's buffer was freed: the refusal leaves a *)
(* new one that is not the frame buffer, and the interrupt that sees it no  *)
(* longer moves on from the application's buffer it wrote last.             *)
CamFramesAreOwn ==
    camOdd \cap {"unfilled", "notQueued"} # {} => camOdd \cap {"late", "starved", "cancelled", "format", "refused"} # {}

(* A call on camera and sensor that returned 0 left both as asked.          *)
CamOkMeansBoth ==
    /\ video.last = "start" => video.cam /\ video.sensor
    /\ video.last = "stop" => ~video.cam /\ ~video.sensor
    /\ video.last = "format" => video.same
===============================================================================
