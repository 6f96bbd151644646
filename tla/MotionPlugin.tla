----------------------------- MODULE MotionPlugin -----------------------------
(***************************************************************************)
(* yolov8_person_plugin: object detection in the frames of motion events,  *)
(* on a thread of its own.                                                 *)
(*                                                                         *)
(* The motion engine's thread posts START, UPDATE and END of each camera.  *)
(* START and END are queued unless MaxDepth messages wait; of the UPDATEs  *)
(* the latest is kept in a buffer beside the queue, and one is queued for  *)
(* every Interval that an event lasts.  At END the worker detects in the   *)
(* buffered frame and in the last one, and writes what it found since      *)
(* START.  The buffer, under a mutex, is shared by the two threads.        *)
(* Events may lack their END: the engine loses its context and starts anew.*)
(*                                                                         *)
(* A detection is known by its frame; ev, the event a frame belongs to,    *)
(* is there for the properties and unknown to the code.                    *)
(***************************************************************************)
EXTENDS Integers, Sequences, SequencesExt

CONSTANTS
  Cameras,
  MaxDepth,   \* MAX_QUEUE_DEPTH
  Interval,   \* LONG_EVENT_INTERVAL_MS, in ticks of the clock of the model
  MaxTs       \* bound on the clock, which ticks with every message

ASSUME PluginConstants ==
  MaxDepth \in Nat \ {0} /\ Interval \in Nat /\ MaxTs \in Nat

None == -1
NoMsg == [evt |-> "none"]

VARIABLES
  ts,            \* timestamp of the latest message
  event,         \* event[c]: number of the latest event of c
  active,        \* cameras the engine has an event for
  epc, emsg,     \* the poster: "idle", "check" or "post", and its message
  behind,        \* history: the worker was once not done when a message came
  running,       \* _running
  stopper,       \* the caller of stop(): "idle", "wake", "join", "returned"
  queue, asleep, \* _event_queue
  wpc, wmsg,     \* the worker: "loop", "poll", "wait", "work", "done"
  buffered,      \* _camera_buffered_update, NoMsg where there is none
  lastPeriodic,  \* _camera_last_periodic_ts, None where there is none
  lastProcessed, \* _camera_last_processed_ts, likewise
  detections,    \* _camera_detections
  written,       \* written[c]: what was written, per END: its frames
  threw          \* history: writing once threw

engine == <<ts, event, active, epc, emsg, behind>>
local == <<lastProcessed, detections, written, threw>>
vars == <<engine, running, stopper, queue, asleep, wpc, wmsg, buffered,
          lastPeriodic, local>>

Each(x) == [c \in Cameras |-> x]

Init ==
  /\ ts = 0 /\ event = Each(0) /\ active = {} /\ epc = "idle" /\ emsg = NoMsg
  /\ behind = FALSE
  /\ running = TRUE /\ stopper = "idle"
  /\ queue = <<>> /\ asleep = FALSE
  /\ wpc = "loop" /\ wmsg = NoMsg
  /\ buffered = Each(NoMsg) /\ lastPeriodic = Each(None)
  /\ lastProcessed = Each(None) /\ detections = Each(<<>>) /\ written = Each(<<>>)
  /\ threw = FALSE

-----------------------------------------------------------------------------
(* post_motion_event, on the thread of the motion engine.                  *)

CaughtUp == queue = <<>> /\ wpc \in {"loop", "poll", "wait"}

\* The next message; nothing is kept of it once the plugin stops.
Message(c, evt) ==
  /\ epc = "idle" /\ ts < MaxTs
  /\ behind' = (behind \/ ~CaughtUp)
  /\ ts' = ts + 1
  /\ event' = IF evt = "start" THEN [event EXCEPT ![c] = @ + 1] ELSE event
  /\ active' = IF evt = "end" THEN active \ {c} ELSE active \cup {c}
  /\ emsg' = [evt |-> evt, cam |-> c, ts |-> ts', ev |-> event'[c]]

plugin == <<running, stopper, queue, asleep, wpc, wmsg, local>>

PostStopped(c, evt) ==
  /\ Message(c, evt) /\ ~running
  /\ UNCHANGED <<epc, plugin, buffered, lastPeriodic>>

PostStart(c) ==
  /\ Message(c, "start") /\ running
  /\ epc' = "check"
  /\ UNCHANGED <<plugin, buffered, lastPeriodic>>

PostEnd(c) ==
  /\ c \in active /\ Message(c, "end") /\ running
  /\ epc' = "check"
  /\ UNCHANGED <<plugin, buffered, lastPeriodic>>

PostUpdate(c) ==
  /\ c \in active /\ Message(c, "update") /\ running
  /\ buffered' = [buffered EXCEPT ![c] = emsg']
  /\ IF lastPeriodic[c] > 0 /\ ts' - lastPeriodic[c] >= Interval
     THEN epc' = "check" /\ lastPeriodic' = [lastPeriodic EXCEPT ![c] = ts']
     ELSE UNCHANGED <<epc, lastPeriodic>>
  /\ UNCHANGED plugin

\* One message too many is let in.
MutantHasRoom == Len(queue) <= MaxDepth

HasRoom == Len(queue) < MaxDepth

\* size() and post() take the lock of the queue one after the other.
CheckRoom ==
  /\ epc = "check"
  /\ epc' = IF HasRoom THEN "post" ELSE "idle"
  /\ UNCHANGED <<ts, event, active, emsg, behind, plugin, buffered, lastPeriodic>>

Enqueue ==
  /\ epc = "post" /\ epc' = "idle"
  /\ queue' = Append(queue, emsg)
  /\ UNCHANGED <<ts, event, active, emsg, behind, running, stopper, asleep, wpc, wmsg,
                 local, buffered, lastPeriodic>>

-----------------------------------------------------------------------------
(* stop(), called by the plugin host.                                      *)

shared == <<engine, queue, wpc, wmsg, buffered, lastPeriodic, local>>

ClearRunning ==
  /\ stopper = "idle" /\ stopper' = "wake" /\ running' = FALSE
  /\ UNCHANGED <<shared, asleep>>

WakeQueue ==
  /\ stopper = "wake" /\ stopper' = "join" /\ asleep' = FALSE
  /\ UNCHANGED <<shared, running>>

Join ==
  /\ stopper = "join" /\ wpc = "done" /\ stopper' = "returned"
  /\ UNCHANGED <<shared, running, asleep>>

-----------------------------------------------------------------------------
(* The worker.                                                             *)

others == <<engine, running, stopper>>
memory == <<buffered, lastPeriodic, local>>

LoopTest ==
  /\ wpc = "loop"
  /\ wpc' = IF running THEN "poll" ELSE "done"
  /\ UNCHANGED <<others, queue, asleep, wmsg, memory>>

\* poll() without a timeout finds the queue empty and waits ...
PollWaits ==
  /\ wpc = "poll" /\ queue = <<>>
  /\ asleep' = TRUE /\ wpc' = "wait"
  /\ UNCHANGED <<others, queue, wmsg, memory>>

\* ... or returns a message, or nothing when it was woken; _running is tested.
PollReturns ==
  /\ \/ wpc = "poll" /\ queue # <<>>
     \/ wpc = "wait" /\ (queue # <<>> \/ ~asleep)
  /\ IF queue = <<>> THEN wmsg' = NoMsg /\ UNCHANGED queue
     ELSE wmsg' = Head(queue) /\ queue' = Tail(queue)
  /\ wpc' = IF ~running THEN "done" ELSE IF queue = <<>> THEN "loop" ELSE "work"
  /\ UNCHANGED <<others, asleep, memory>>

Working(evt) == wpc = "work" /\ wmsg.evt = evt /\ wpc' = "loop"

\* What an event before left behind is kept.
MutantStartsAnew(c) == detections[c] \o <<wmsg>>

StartsAnew(c) == <<wmsg>>

\* What is kept of the event before is forgotten first, in case its END is missing.
ProcessStart ==
  /\ Working("start")
  /\ LET c == wmsg.cam
     IN  /\ buffered' = [buffered EXCEPT ![c] = NoMsg]
         /\ lastPeriodic' = [lastPeriodic EXCEPT ![c] = wmsg.ts]
         /\ lastProcessed' = [lastProcessed EXCEPT ![c] = wmsg.ts]
         /\ detections' = [detections EXCEPT ![c] = StartsAnew(c)]
  /\ UNCHANGED <<others, queue, asleep, wmsg, written, threw>>

ProcessPeriodic ==
  /\ Working("update")
  /\ LET c == wmsg.cam
     IN  /\ lastProcessed' = [lastProcessed EXCEPT ![c] = wmsg.ts]
         /\ detections' = [detections EXCEPT ![c] = Append(@, wmsg)]
  /\ UNCHANGED <<others, queue, asleep, wmsg, buffered, lastPeriodic, written,
                 threw>>

\* The buffered frame, unless a periodic frame as late was processed.
Middle(c) ==
  IF buffered[c] # NoMsg /\ buffered[c].ts > lastProcessed[c]
  THEN <<buffered[c]>> ELSE <<>>

\* The detections stay when they have been written.
MutantForgotten(c) == detections[c] \o Middle(c) \o <<wmsg>>

Forgotten(c) == <<>>

\* The detections are written and forgotten; when writing throws they stay,
\* and so does the time of the last processed frame.
ProcessEnd ==
  /\ Working("end")
  /\ LET c == wmsg.cam
         all == detections[c] \o Middle(c) \o <<wmsg>>
     IN  /\ buffered' = [buffered EXCEPT ![c] = NoMsg]
         /\ lastPeriodic' = [lastPeriodic EXCEPT ![c] = None]
         /\ \/ /\ written' = [written EXCEPT ![c] = Append(@, all)]
               /\ detections' = [detections EXCEPT ![c] = Forgotten(c)]
               /\ lastProcessed' = [lastProcessed EXCEPT ![c] = None]
               /\ UNCHANGED threw
            \/ /\ threw' = TRUE
               /\ detections' = [detections EXCEPT ![c] = all]
               /\ UNCHANGED <<written, lastProcessed>>
  /\ UNCHANGED <<others, queue, asleep, wmsg>>

-----------------------------------------------------------------------------
Worker ==
  LoopTest \/ PollWaits \/ PollReturns \/ ProcessStart \/ ProcessPeriodic \/ ProcessEnd

Next ==
  \/ \E c \in Cameras : \/ PostStart(c) \/ PostUpdate(c) \/ PostEnd(c)
                        \/ \E evt \in {"start", "update"} : PostStopped(c, evt)
  \/ CheckRoom \/ Enqueue
  \/ ClearRunning \/ WakeQueue \/ Join
  \/ Worker

Spec == Init /\ [][Next]_vars

\* The worker and the caller of stop run on threads of their own.
FairSpec == Spec /\ WF_vars(Worker) /\ WF_vars(WakeQueue) /\ WF_vars(Join)

-----------------------------------------------------------------------------
(* Properties                                                              *)

\* Type correctness; the queue is never deeper than MaxDepth although its
\* size is read before, and apart from, the post.
TypeOK ==
  /\ ts \in 0 .. MaxTs /\ active \subseteq Cameras
  /\ Len(queue) <= MaxDepth
  /\ epc \in {"idle", "check", "post"}
  /\ stopper \in {"idle", "wake", "join", "returned"}
  /\ wpc \in {"loop", "poll", "wait", "work", "done"}
  /\ lastPeriodic \in [Cameras -> 0 .. ts \cup {None}]
  /\ lastProcessed \in [Cameras -> 0 .. ts \cup {None}]

\* However far behind the worker is and whichever messages were dropped, no
\* frame counts twice in what is written at an END, as long as every write
\* succeeds; and nothing is written of frames that are older than an END whose
\* detections were written before, whichever writes fail.
EachFrameWrittenOnce ==
  \A c \in Cameras :
    /\ ~threw => \A i \in DOMAIN written[c] : IsInjective(written[c][i])
    /\ \A i, j \in DOMAIN written[c] :
         i < j => \A f \in ToSet(written[c][j]) : f.ts > Last(written[c][i]).ts

\* yolov8_person_plugin.cpp: "Analyze all detections for this motion sequence".
\* While the worker keeps up, what is written at an END is of frames of the event
\* that ended, also when an earlier write threw or an END was missing.
OwnFramesOnly ==
  ~behind => \A c \in Cameras : \A i \in DOMAIN written[c] :
               \A f \in ToSet(written[c][i]) : f.ev = Last(written[c][i]).ev

\* r_motion_plugin.h: stop_plugin waits for the threads to finish: it returns.
StopReturns == stopper = "wake" ~> stopper = "returned"
=============================================================================
