----------------------------- MODULE MotionEngine -----------------------------
(***************************************************************************)
(* r_motion_engine: one worker thread serves the frames of all cameras.    *)
(*                                                                         *)
(* The recording contexts post frames, the stream keeper posts a removal   *)
(* request (a work item with ts == -1) when it stops a stream.  The worker *)
(* keeps a work context per camera: the decoder, the last frames' motion,  *)
(* whether an event is going on, and the camera's motion ring.  An event   *)
(* starts when Confirm key frames in a row show motion that moved far      *)
(* enough, and ends at the second key frame without motion; only then its  *)
(* seconds are written to the ring.  A key frame takes several calls of    *)
(* decode(); an exception throws the context away, in an event or not.     *)
(*                                                                         *)
(* What a frame shows is chosen when it is decoded: no result (warm-up or  *)
(* a change of light), or whether the motion is significant and where.     *)
(* Frames carry the time of their post; one time unit is one second.       *)
(***************************************************************************)
EXTENDS RingFile, Sequences, SequencesExt, FiniteSets

CONSTANTS
  Cameras,
  Confirm,      \* DEFAULT_MOTION_CONFIRM_FRAMES
  HoldOff,      \* seconds after its first frame a context writes no zeros (60)
  MaxAttempts,  \* calls of decode() a key frame may take (10)
  MaxNow,       \* bound on the clock
  MaxBacklog,   \* bound on the work items that wait
  MaxSteps      \* bound on the frames posted and the changes to streams

ASSUME ConfirmAssumption == Confirm \in Nat \ {0}
ASSUME HoldOffAssumption == HoldOff \in Nat
ASSUME MaxAttemptsAssumption == MaxAttempts \in Nat \ {0}
ASSUME BoundsAssumption == MaxNow \in Nat /\ MaxSteps \in Nat

NoCtx == [alive |-> FALSE]
Idle == [cam |-> "none"]

VARIABLES
  now,       \* the clock
  stream,    \* stream[c]: "on", "dead", or "removed" by the stream keeper
  known,     \* cameras in r_devices
  queue,     \* _work
  steps,     \* frames posted and streams changed so far
  item,      \* the key frame the worker is decoding, Idle in between
  attempts,  \* max_decode_attempts left
  wc,        \* _work_contexts: wc[c], or NoCtx
  file,      \* file[c]: the motion file, and the history of its use
  view       \* view[c]: the events of c as the plugins were told

vars == <<now, stream, known, queue, steps, item, attempts, wc, file, view>>
env == <<now, stream, known, steps>>

Ring(c) == INSTANCE MotionRing WITH
  cells <- file[c].cells, last <- file[c].last, latest <- file[c].latest,
  motion <- file[c].motion, covered <- file[c].covered, Fractions <- {}

FreshCtx ==
  [alive |-> TRUE, inEvent |-> FALSE, start |-> None, firstTs |-> None,
   lastSecond |-> None, quiet |-> 0, buffer |-> <<>>]

Init ==
  /\ now = 0
  /\ stream = [c \in Cameras |-> "on"]
  /\ known = Cameras
  /\ queue = <<>> /\ steps = 0
  /\ item = Idle /\ attempts = 0
  /\ wc = [c \in Cameras |-> NoCtx]
  /\ file = [c \in Cameras |->
               [cells |-> [i \in Indexes |-> 0], last |-> None, latest |-> None,
                motion |-> {}, covered |-> {}]]
  /\ view = [c \in Cameras |-> [active |-> FALSE, start |-> None, latest |-> None,
                                ended |-> {}]]

-----------------------------------------------------------------------------
(* The environment: time, streams and r_devices.                           *)

worker == <<item, attempts, wc, file, view>>

Tick == now < MaxNow /\ now' = now + 1 /\ UNCHANGED <<stream, known, queue, steps, worker>>

Step == steps < MaxSteps /\ steps' = steps + 1

StreamStarts(c) ==
  /\ Step
  /\ stream[c] # "on" /\ c \in known
  /\ stream' = [stream EXCEPT ![c] = "on"]
  /\ UNCHANGED <<now, known, queue, worker>>

\* A stream that dies is dropped by the stream keeper, and nobody tells the
\* motion engine.
StreamDies(c) ==
  /\ Step
  /\ stream[c] = "on"
  /\ stream' = [stream EXCEPT ![c] = "dead"]
  /\ UNCHANGED <<now, known, queue, worker>>

CameraForgotten(c) ==
  /\ Step
  /\ c \in known
  /\ known' = known \ {c}
  /\ UNCHANGED <<now, stream, queue, worker>>

\* post_frame
PostFrame(c, key) ==
  /\ Step
  /\ stream[c] = "on" /\ now > 0       \* timestamps are positive
  /\ Len(queue) < MaxBacklog
  /\ queue' = Append(queue, [cam |-> c, ts |-> now, key |-> key])
  /\ UNCHANGED <<now, stream, known, worker>>

\* The request overtakes the frames that wait.
MutantRemovalOvertakes(c) ==
  /\ Step
  /\ stream[c] = "on"
  /\ stream' = [stream EXCEPT ![c] = "removed"]
  /\ queue' = <<[cam |-> c, ts |-> None, key |-> FALSE]>> \o queue
  /\ UNCHANGED <<now, known, worker>>

\* r_stream_keeper::_stop: the recording context stops, then remove_work_context.
RemoveStream(c) ==
  /\ Step
  /\ stream[c] = "on"
  /\ stream' = [stream EXCEPT ![c] = "removed"]
  /\ queue' = Append(queue, [cam |-> c, ts |-> None, key |-> FALSE])
  /\ UNCHANGED <<now, known, worker>>

-----------------------------------------------------------------------------
(* The worker between two key frames.                                      *)

Work == Head(queue)

Dequeue == item = Idle /\ queue # <<>> /\ queue' = Tail(queue)

DoRemoval ==
  /\ Dequeue /\ Work.ts = None
  /\ wc' = [wc EXCEPT ![Work.cam] = NoCtx]
  /\ UNCHANGED <<env, item, attempts, file, view>>

\* A ring object is opened with the context and knows of no earlier write.
Reopened(c) == [file EXCEPT ![c].last = None]

\* The context is found or created; a key frame goes on to be decoded.
TakeFrame ==
  /\ Dequeue /\ Work.ts # None
  /\ \/ /\ wc[Work.cam].alive
        /\ UNCHANGED <<wc, file>>
     \/ /\ ~wc[Work.cam].alive /\ Work.cam \in known
        /\ wc' = [wc EXCEPT ![Work.cam] = FreshCtx]
        /\ file' = Reopened(Work.cam)
  /\ IF Work.key THEN item' = Work /\ attempts' = MaxAttempts
     ELSE UNCHANGED <<item, attempts>>
  /\ UNCHANGED <<env, view>>

\* _create_work_context throws: no such camera, or its ring does not open.
CreateFails ==
  /\ Dequeue /\ Work.ts # None /\ ~wc[Work.cam].alive
  /\ UNCHANGED <<env, item, attempts, wc, file, view>>

-----------------------------------------------------------------------------
(* The worker inside the decode loop, with the context of its key frame.   *)

Busy == item # Idle
Cam == item.cam
Ctx == wc[Cam]

\* The catch block: the work context goes, whatever it was in the middle of.
DecodeFails ==
  /\ Busy
  /\ wc' = [wc EXCEPT ![Cam] = NoCtx]
  /\ item' = Idle /\ attempts' = 0
  /\ UNCHANGED <<env, queue, file, view>>

\* decode() has no output yet; when the attempts are used up the next turn of
\* the loop throws.
DecodeMore ==
  /\ Busy /\ attempts > 0
  /\ attempts' = attempts - 1
  /\ UNCHANGED <<env, queue, item, wc, file, view>>

\* One call of decode() with output.  HAS_OUTPUT ends the loop,
\* AGAIN_HAS_OUTPUT repeats it, for another picture of the same work item.
Output ==
  /\ Busy /\ attempts > 0
  /\ \/ item' = Idle /\ attempts' = 0
     \/ attempts' = attempts - 1 /\ UNCHANGED item
  /\ UNCHANGED <<env, queue>>

\* The buffer gives up its oldest entry one push late.
MutantPushedLate(buf, e) ==
  LET b == Append(buf, e) IN IF Len(b) > Confirm + 1 THEN Tail(b) ELSE b

\* The buffer keeps the Confirm latest results.
Pushed(buf, e) == LET b == Append(buf, e) IN IF Len(b) > Confirm THEN Tail(b) ELSE b

\* Only the last frame has to show motion.
MutantConfirmedByLast(buf) ==
  Len(buf) = Confirm /\ buf[Confirm].motion /\ buf[1].pos # buf[Confirm].pos

\* last_n_match_with_displacement over the whole buffer; a displacement below
\* the minimum is modelled as none.
Confirmed(buf) ==
  /\ Len(buf) = Confirm
  /\ \A i \in 1 .. Confirm : buf[i].motion
  /\ buf[1].pos # buf[Confirm].pos

NoResult == Output /\ UNCHANGED <<wc, file, view>>

\* The guard against a second write in the same second left out.
MutantWritesZeroAgain(w) ==
  /\ w.firstTs # None
  /\ item.ts - w.firstTs > HoldOff

\* The ring write at the end of a turn of the loop, outside events.
WritesZero(w) ==
  /\ w.firstTs # None
  /\ item.ts - w.firstTs > HoldOff
  /\ item.ts # w.lastSecond

WithFirst(w) == IF w.firstTs = None THEN [w EXCEPT !.firstTs = item.ts] ELSE w

RingWrite(c, t) ==
  file' = [file EXCEPT ![c] =
    [cells |-> AfterWrite(@.cells, @.last, t, 0), last |-> t, latest |-> t,
     motion |-> @.motion \ {t}, covered |-> @.covered \cup Ring(c)!Passed(t)]]

\* write_range leaves _last_write_idx alone.
MutantRangeForgetsLast(c, s, e) ==
  file' = [file EXCEPT ![c] =
    [cells |-> AfterWriteRange(@.cells, s, e, 1), last |-> @.last, latest |-> e,
     motion |-> @.motion \cup s .. e, covered |-> @.covered \cup s .. e]]

RingWriteRange(c, s, e) ==
  file' = [file EXCEPT ![c] =
    [cells |-> AfterWriteRange(@.cells, s, e, 1), last |-> e, latest |-> e,
     motion |-> @.motion \cup s .. e, covered |-> @.covered \cup s .. e]]

\* No event, and none starts: the second is quiet.
StaysQuiet(e) ==
  /\ Output /\ ~Ctx.inEvent
  /\ LET buf == Pushed(Ctx.buffer, e)
         w == WithFirst([Ctx EXCEPT !.buffer = buf])
     IN  /\ ~Confirmed(buf)
         /\ IF WritesZero(Ctx)
            THEN /\ RingWrite(Cam, item.ts)
                 /\ wc' = [wc EXCEPT ![Cam] = [w EXCEPT !.lastSecond = item.ts]]
            ELSE /\ wc' = [wc EXCEPT ![Cam] = w]
                 /\ UNCHANGED file
  /\ UNCHANGED view

\* set_event_start_ts: the time of the first of the frames that confirmed it.
EventStart(buf) == buf[1].ts

\* The event starts with the oldest frame of the buffer; the plugins get that
\* frame as START and the later ones as UPDATEs.
StartEvent(e) ==
  /\ Output /\ ~Ctx.inEvent
  /\ LET buf == Pushed(Ctx.buffer, e)
     IN  /\ Confirmed(buf)
         /\ wc' = [wc EXCEPT ![Cam] =
                     WithFirst([Ctx EXCEPT !.buffer = buf, !.inEvent = TRUE,
                                           !.start = EventStart(buf), !.quiet = 0])]
         /\ view' = [view EXCEPT ![Cam] =
                       [@ EXCEPT !.active = TRUE, !.start = buf[1].ts,
                                 !.latest = item.ts]]
  /\ UNCHANGED file

EventFrame(e) ==
  /\ Output /\ Ctx.inEvent /\ e.motion
  /\ wc' = [wc EXCEPT ![Cam] = [Ctx EXCEPT !.buffer = Pushed(@, e), !.quiet = 0]]
  /\ view' = [view EXCEPT ![Cam].latest = item.ts]
  /\ UNCHANGED file

\* The first key frame without motion.
QuietFrame(e) ==
  /\ Output /\ Ctx.inEvent /\ ~e.motion /\ Ctx.quiet + 1 < 2
  /\ wc' = [wc EXCEPT ![Cam] = [Ctx EXCEPT !.buffer = Pushed(@, e), !.quiet = @ + 1]]
  /\ UNCHANGED <<file, view>>

\* The second: the ring gets the whole event, the plugins an END.  (The start
\* of an event and first_ts, which the code tests here, are valid in every
\* event: TypeOK.)
EndEvent(e) ==
  /\ Output /\ Ctx.inEvent /\ ~e.motion /\ Ctx.quiet + 1 >= 2
  /\ RingWriteRange(Cam, Ctx.start, item.ts)
  /\ wc' = [wc EXCEPT ![Cam] =
              [Ctx EXCEPT !.buffer = Pushed(@, e), !.inEvent = FALSE,
                          !.start = None, !.quiet = 0, !.lastSecond = item.ts]]
  /\ view' = [view EXCEPT ![Cam] =
                [view[Cam] EXCEPT !.active = FALSE, !.latest = item.ts,
                                  !.ended = @ \cup Ctx.start .. item.ts]]

\* The result of the motion detector: where significant motion is matters for
\* the distance it moved between two frames, and nothing else.
Entries == [ts : {item.ts}, motion : {TRUE}, pos : {0, 1}]
             \cup [ts : {item.ts}, motion : {FALSE}, pos : {0}]

Analyze(e) ==
  StaysQuiet(e) \/ StartEvent(e) \/ EventFrame(e) \/ QuietFrame(e) \/ EndEvent(e)

-----------------------------------------------------------------------------
Worker ==
  \/ DoRemoval \/ TakeFrame \/ CreateFails
  \/ DecodeFails \/ DecodeMore \/ NoResult
  \/ Busy /\ \E e \in Entries : Analyze(e)

Next ==
  \/ Tick
  \/ \E c \in Cameras : \/ StreamStarts(c) \/ StreamDies(c) \/ CameraForgotten(c)
                         \/ RemoveStream(c)
                         \/ \E key \in BOOLEAN : PostFrame(c, key)
  \/ Worker

Spec == Init /\ [][Next]_vars

\* The worker's loop polls for work with a timeout and runs on its own thread.
FairSpec == Spec /\ WF_vars(Worker)

-----------------------------------------------------------------------------
(* Properties                                                              *)

\* Type correctness; in an event the fields its end relies on are valid.
TypeOK ==
  /\ now \in 0 .. MaxNow /\ steps \in 0 .. MaxSteps /\ attempts \in 0 .. MaxAttempts
  /\ stream \in [Cameras -> {"on", "dead", "removed"}]
  /\ known \subseteq Cameras
  /\ \A i \in DOMAIN queue : queue[i].cam \in Cameras /\ queue[i].ts \in 0 .. now \cup {None}
  /\ Busy => Cam \in Cameras /\ item.ts \in 1 .. now /\ Ctx.alive
  /\ \A c \in Cameras :
       /\ file[c].cells \in Cells
       /\ wc[c].alive => /\ wc[c].quiet \in 0 .. 1
                         /\ Len(wc[c].buffer) <= Confirm
                         /\ wc[c].inEvent => wc[c].start > 0 /\ wc[c].firstTs # None

\* Worker, plugins and ring agree about the events.  One the worker is in is the
\* one the plugins were last told of, however contexts were lost, removed and
\* recreated since; the seconds of those that ended are flagged in the ring for
\* as long as it reaches back: no later frame, context or event clears them.
EventsAgree ==
  \A c \in Cameras :
    /\ wc[c].alive /\ wc[c].inEvent =>
         view[c].active /\ view[c].start = wc[c].start /\ view[c].latest >= wc[c].start
    /\ \A t \in view[c].ended : t > now - N => file[c].cells[t % N] = 1

\* The events of a camera do not overlap: none starts before the time of the
\* last frame of the one before, also when that one never ended.
EventsDoNotOverlap ==
  [][\A c \in Cameras :
       view'[c].start # view[c].start => view'[c].start >= view[c].latest]_vars

\* The worker uses the motion file of each camera as MotionRing assumes: in
\* order and never ahead of the clock.
RingUsed ==
  /\ \A c \in Cameras : Ring(c)!Init
  /\ [][\A c \in Cameras : [Ring(c)!Next]_<<now, file[c]>>]_vars

\* A context of a stream that was removed does not stay behind: the removal
\* request comes after the last frame and is not lost.
RemovedContextsGo ==
  \A c \in Cameras : stream[c] = "removed" ~> (~wc[c].alive \/ stream[c] # "removed")
=============================================================================
