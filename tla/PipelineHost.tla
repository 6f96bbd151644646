---------------------------- MODULE PipelineHost ----------------------------
(***************************************************************************)
(* The viewer (apps/vision): pipeline_host and the pipeline_states it owns.*)
(*                                                                         *)
(* A slot of the layout that has a camera gets a pipeline when the user    *)
(* interface looks its picture up.  GStreamer's threads post samples to    *)
(* the queue of the pipeline; the pipeline's own thread decodes them and   *)
(* calls post_video_frame of the host, which takes _internals_lok.  The    *)
(* user interface draws the frames, and replaces, disconnects, stops and   *)
(* plays pipelines.  A thread of the host looks for dead pipelines every   *)
(* ten seconds, holding _internals_lok, and removes them; a removed        *)
(* pipeline is created again by the next look up.                          *)
(*                                                                         *)
(* Destroying a pipeline joins its thread.  Where the code destroys one    *)
(* outside of the lock, another step follows the critical section.         *)
(***************************************************************************)
EXTENDS Integers, FiniteSets

CONSTANTS
  Slots,       \* names of the layout's streams
  Cameras,
  MaxPipes,    \* bound: pipelines created
  MaxSamples   \* bound: samples in a pipeline's queue

ASSUME PipelineHostConstants ==
  /\ {MaxPipes, MaxSamples} \subseteq Nat \ {0}
  /\ "none" \notin Cameras /\ "none" \notin Slots

Pipes == 1 .. MaxPipes
NoPipe == 0

VARIABLES
  infos,      \* _stream_infos: the camera of each slot, or "none"
  pipes,      \* _pipes: the pipeline of each slot, or NoPipe
  pipe,       \* every pipeline_state ever created
  frames,     \* _video_frames: the camera whose frame waits to be drawn, or "none"
  shown,      \* _render_contexts: the camera whose picture the slot has, or "none"
  tracking,   \* slots in _playback_start_positions and _playback_start_pts
  validated,  \* _cameras_validated
  lock,       \* _internals_lok: "free" or "host", whose thread keeps it for long
  main,       \* the main thread, and the pipelines it is about to destroy
  host        \* the thread of the host

view == <<infos, frames, shown, tracking, validated>>
vars == <<view, pipes, pipe, lock, main, host>>

\* pipeline_state: its source ("stopped", "live", "playback"), its thread with
\* _running, samples waiting, whether it decoded one (_last_video_sample), the
\* fifteen seconds after play (settled), what arrived since the last dead check.
NotCreated ==
  [slot |-> "none", cam |-> "none", source |-> "stopped", thread |-> "none",
   alive |-> FALSE, samples |-> 0, last |-> FALSE, settled |-> FALSE,
   video |-> FALSE, audio |-> "none", doomed |-> FALSE]

\* What is left of a pipeline whose thread has ended.
Ended == [NotCreated EXCEPT !.thread = "ended", !.doomed = TRUE]

Init ==
  /\ infos = [n \in Slots |-> "none"] /\ pipes = [n \in Slots |-> NoPipe]
  /\ pipe = [p \in Pipes |-> NotCreated]
  /\ frames = [n \in Slots |-> "none"] /\ shown = [n \in Slots |-> "none"]
  /\ tracking = {} /\ validated = FALSE
  /\ lock = "free"
  /\ main = [at |-> "loop", old |-> {}]
  /\ host = [at |-> "asleep", todo |-> {}, victim |-> NoPipe]

Looping == main.at = "loop" /\ lock = "free"
Owned == {pipes[n] : n \in Slots} \ {NoPipe}

-----------------------------------------------------------------------------
(* The user interface: one call of the main thread each.                   *)

\* The pipelines of P are left to be destroyed after the lock is released.
DestroyLater(P) ==
  main' = IF P = {} THEN main ELSE [at |-> "destroying", old |-> P]

\* change_layout: the new layout has other streams.
ChangeLayout(new) ==
  /\ Looping
  /\ infos' = new /\ pipes' = [n \in Slots |-> NoPipe]
  /\ frames' = [n \in Slots |-> "none"] /\ shown' = [n \in Slots |-> "none"]
  /\ DestroyLater(Owned)
  /\ UNCHANGED <<pipe, tracking, validated, lock, host>>

\* update_stream and, without a camera, disconnect_stream: the frame that waits
\* to be drawn stays.
Replace(n, cam) ==
  /\ Looping
  /\ infos' = [infos EXCEPT ![n] = cam] /\ shown' = [shown EXCEPT ![n] = "none"]
  /\ pipes' = [pipes EXCEPT ![n] = NoPipe]
  /\ DestroyLater({pipes[n]} \ {NoPipe})
  /\ UNCHANGED <<pipe, frames, tracking, validated, lock, host>>

\* A camera is dragged to a slot.
UpdateStream(n, cam) == Replace(n, cam)

\* The user disconnects a stream, or its camera no longer exists.
DisconnectStream(n) == infos[n] # "none" /\ Replace(n, "none")

\* The first list of cameras has arrived from revere.
Validate ==
  /\ Looping /\ ~validated /\ validated' = TRUE
  /\ UNCHANGED <<infos, frames, shown, tracking, pipes, pipe, lock, main, host>>

\* What ~pipeline_state and stop do to a pipeline before its thread is joined.
Doom(p) == [pipe[p] EXCEPT !.source = "stopped", !.alive = FALSE, !.doomed = TRUE]

\* The pipelines of main.old are destroyed one after the other, on a change of
\* the user and in the destructor of the host.
Destroying == main.at \in {"destroying", "closing"}

DestroyNext(p) ==
  /\ Destroying /\ p \in main.old
  /\ \A q \in main.old : ~pipe[q].doomed
  /\ pipe' = [pipe EXCEPT ![p] = Doom(p)]
  /\ UNCHANGED <<view, pipes, lock, main, host>>

Destroyed(p) ==
  /\ Destroying /\ p \in main.old
  /\ pipe[p].doomed /\ pipe[p].thread = "ended"
  /\ main' =
       IF main.old # {p} THEN [main EXCEPT !.old = @ \ {p}]
       ELSE [at |-> IF main.at = "closing" THEN "ended" ELSE "loop", old |-> {}]
  /\ UNCHANGED <<view, pipes, pipe, lock, host>>

\* lookup_render_context: the slot's pipeline is created, or its picture resized:
\* the last sample is posted again.
CreatePipe(n) ==
  /\ Looping /\ validated /\ infos[n] # "none" /\ pipes[n] = NoPipe
  /\ \E p \in Pipes :
       /\ p = 1 + Cardinality({q \in Pipes : pipe[q] # NotCreated})
       /\ pipes' = [pipes EXCEPT ![n] = p]
       /\ pipe' = [pipe EXCEPT ![p] =
            [NotCreated EXCEPT !.slot = n, !.cam = infos[n], !.source = "live",
                               !.thread = "starting"]]
  /\ UNCHANGED <<view, lock, main, host>>

Resize(n) ==
  /\ Looping /\ validated /\ infos[n] # "none" /\ pipes[n] # NoPipe
  /\ pipe[pipes[n]].last /\ pipe[pipes[n]].samples < MaxSamples
  /\ pipe' = [pipe EXCEPT ![pipes[n]].samples = @ + 1]
  /\ UNCHANGED <<view, pipes, lock, main, host>>

\* load_video_textures, at the end of every turn.
LoadTextures ==
  /\ Looping /\ \E n \in Slots : frames[n] # "none"
  /\ shown' = [n \in Slots |-> IF frames[n] = "none" THEN shown[n] ELSE frames[n]]
  /\ frames' = [n \in Slots |-> "none"]
  /\ UNCHANGED <<infos, tracking, validated, pipes, pipe, lock, main, host>>

\* control_bar_cb: the user drags the play head; a still is asked for and shown
\* when revere answers and there is a decoder.
ControlBar(n) ==
  /\ Looping /\ pipes[n] # NoPipe
  /\ LET p == pipes[n]
         decoder == pipe[p].last \/ pipe[p].samples > 0
     IN \E still \in {0, 1} :
          /\ still = 1 => decoder /\ pipe[p].samples < MaxSamples
          /\ pipe' = [pipe EXCEPT ![p].source = "stopped", ![p].samples = @ + still]
  /\ tracking' = tracking \ {n}
  /\ UNCHANGED <<infos, frames, shown, validated, pipes, lock, main, host>>

\* control_bar_button_cb: live or play, of a source that is stopped.
PlayButton(n, source) ==
  /\ Looping /\ pipes[n] # NoPipe /\ pipe[pipes[n]].source = "stopped"
  /\ pipe' = [pipe EXCEPT ![pipes[n]].source = source, ![pipes[n]].settled = FALSE]
  /\ tracking' = IF source = "playback" THEN tracking \cup {n} ELSE tracking \ {n}
  /\ UNCHANGED <<infos, frames, shown, validated, pipes, lock, main, host>>

\* The main loop ends: pipeline_host::stop joins the host's thread, then the
\* destructor takes the pipelines and destroys them.
Quit ==
  /\ main.at = "loop" /\ main' = [main EXCEPT !.at = "stopping"]
  /\ UNCHANGED <<view, pipes, pipe, lock, host>>

HostJoined ==
  /\ main.at = "stopping" /\ host.at = "ended"
  /\ pipes' = [n \in Slots |-> NoPipe]
  /\ main' = [at |-> IF Owned = {} THEN "ended" ELSE "closing", old |-> Owned]
  /\ UNCHANGED <<view, pipe, lock, host>>

-----------------------------------------------------------------------------
(* GStreamer's threads (external) and the passing of time.                 *)

\* A sample of video arrives.
VideoSample(p) ==
  /\ pipe[p].source # "stopped" /\ pipe[p].samples < MaxSamples
  /\ pipe' = [pipe EXCEPT ![p].samples = @ + 1, ![p].video = TRUE]
  /\ UNCHANGED <<view, pipes, lock, main, host>>

\* A sample of audio arrives; the pipeline's thread only takes it from the queue.
AudioSample(p) ==
  /\ pipe[p].source # "stopped" /\ pipe[p].audio # "new"
  /\ pipe' = [pipe EXCEPT ![p].audio = "new"]
  /\ UNCHANGED <<view, pipes, lock, main, host>>

\* Fifteen seconds since play; the thread has long started.
Settle(p) ==
  /\ pipe[p].source # "stopped" /\ ~pipe[p].settled /\ pipe[p].thread # "starting"
  /\ pipe' = [pipe EXCEPT ![p].settled = TRUE]
  /\ UNCHANGED <<view, pipes, lock, main, host>>

-----------------------------------------------------------------------------
(* pipeline_state::_entry_point, the thread of a pipeline.                 *)

\* The thread itself sets _running: an end before that is lost.
ThreadStarts(p) ==
  /\ pipe[p].thread = "starting"
  /\ pipe' = [pipe EXCEPT ![p].thread = "loop", ![p].alive = TRUE]
  /\ UNCHANGED <<view, pipes, lock, main, host>>

\* A sample is decoded; there may be no output, or the thread is late and drops it.
Decode(p) ==
  /\ pipe[p].thread = "loop" /\ pipe[p].alive /\ pipe[p].samples > 0
  /\ \E next \in {"loop", "posting"} :
       pipe' = [pipe EXCEPT ![p].samples = @ - 1, ![p].last = TRUE, ![p].thread = next]
  /\ UNCHANGED <<view, pipes, lock, main, host>>

\* The lock is kept while pipelines are destroyed.
MutantLockFree == lock = "free" /\ ~Destroying

LockFree == lock = "free"

\* post_video_frame: a frame that waits already is not replaced.
PostVideoFrame(p) ==
  /\ pipe[p].thread = "posting" /\ LockFree
  /\ frames' = [frames EXCEPT ![pipe[p].slot] = IF @ = "none" THEN pipe[p].cam ELSE @]
  /\ pipe' = [pipe EXCEPT ![p].thread = "loop"]
  /\ UNCHANGED <<infos, shown, tracking, validated, pipes, lock, main, host>>

ThreadEnds(p) ==
  /\ pipe[p].thread = "loop" /\ ~pipe[p].alive
  /\ pipe' = [pipe EXCEPT ![p] = Ended]
  /\ UNCHANGED <<view, pipes, lock, main, host>>

-----------------------------------------------------------------------------
(* pipeline_host::_entry_point, the thread of the host.                    *)

HostRuns == main.at \in {"loop", "destroying"}

\* _running is looked at after every second of sleep.
HostEnds ==
  /\ host.at = "asleep" /\ ~HostRuns
  /\ host' = [host EXCEPT !.at = "ended"]
  /\ UNCHANGED <<view, pipes, pipe, lock, main>>

\* Ten seconds since the last check.
DeadCheck ==
  /\ host.at = "asleep" /\ HostRuns /\ LockFree
  /\ lock' = "host"
  /\ host' = [host EXCEPT !.at = "checking", !.todo = {n \in Slots : pipes[n] # NoPipe}]
  /\ UNCHANGED <<view, pipes, pipe, main>>

\* Only a pipeline that has audio and lost it is found dead.
MutantDead(p) ==
  /\ pipe[p].settled /\ pipe[p].source # "stopped"
  /\ ~pipe[p].video /\ pipe[p].audio = "old"

\* ready_for_dead_check, and no video or, of a stream that ever had audio, no
\* audio since the last check.
Dead(p) ==
  /\ pipe[p].settled /\ pipe[p].source # "stopped"
  /\ ~pipe[p].video \/ pipe[p].audio = "old"

\* A pipeline that is alive is compared with itself again at the next check.
CheckAlive(n) ==
  /\ host.at = "checking" /\ n \in host.todo /\ ~Dead(pipes[n])
  /\ pipe' = [pipe EXCEPT ![pipes[n]].video = FALSE,
                           ![pipes[n]].audio = IF @ = "none" THEN @ ELSE "old"]
  /\ host' = [host EXCEPT !.todo = @ \ {n}]
  /\ UNCHANGED <<view, pipes, lock, main>>

\* A dead one is closed and stays in the map.
MutantCheckDead(n) ==
  /\ host.at = "checking" /\ n \in host.todo /\ Dead(pipes[n])
  /\ pipe' = [pipe EXCEPT ![pipes[n]] = Doom(pipes[n])]
  /\ host' = [at |-> "joining", todo |-> host.todo \ {n}, victim |-> pipes[n]]
  /\ UNCHANGED <<view, pipes, lock, main>>

\* A dead one is erased, that is destroyed, under the lock.
CheckDead(n) ==
  /\ host.at = "checking" /\ n \in host.todo /\ Dead(pipes[n])
  /\ pipe' = [pipe EXCEPT ![pipes[n]] = Doom(pipes[n])]
  /\ pipes' = [pipes EXCEPT ![n] = NoPipe]
  /\ host' = [at |-> "joining", todo |-> host.todo \ {n}, victim |-> pipes[n]]
  /\ UNCHANGED <<view, lock, main>>

Joined ==
  /\ host.at = "joining" /\ pipe[host.victim].thread = "ended"
  /\ host' = [host EXCEPT !.at = "checking", !.victim = NoPipe]
  /\ UNCHANGED <<view, pipes, pipe, lock, main>>

CheckDone ==
  /\ host.at = "checking" /\ host.todo = {}
  /\ host' = [host EXCEPT !.at = "asleep"] /\ lock' = "free"
  /\ UNCHANGED <<view, pipes, pipe, main>>

-----------------------------------------------------------------------------
Host ==
  \/ HostEnds \/ DeadCheck \/ Joined \/ CheckDone
  \/ \E n \in Slots : CheckAlive(n) \/ CheckDead(n)

Thread(p) == ThreadStarts(p) \/ Decode(p) \/ ThreadEnds(p)

Destroy == HostJoined \/ \E p \in Pipes : DestroyNext(p) \/ Destroyed(p)

Next ==
  \/ \E new \in [Slots -> Cameras \cup {"none"}] : ChangeLayout(new)
  \/ \E n \in Slots :
       \/ \E cam \in Cameras : UpdateStream(n, cam)
       \/ DisconnectStream(n) \/ CreatePipe(n) \/ Resize(n) \/ ControlBar(n)
       \/ \E source \in {"live", "playback"} : PlayButton(n, source)
  \/ Validate \/ LoadTextures \/ Quit
  \/ \E p \in Pipes :
       \/ VideoSample(p) \/ AudioSample(p) \/ Settle(p)
       \/ Thread(p) \/ PostVideoFrame(p)
  \/ Destroy
  \/ Host

Spec == Init /\ [][Next]_vars

\* Threads run, time passes, and a thread that waits for the lock gets it: it
\* is taken every ten seconds, and the system's mutex does not starve a waiter.
FairSpec ==
  /\ Spec
  /\ WF_vars(Host) /\ SF_vars(DeadCheck) /\ WF_vars(Destroy)
  /\ \A p \in Pipes :
       WF_vars(Thread(p)) /\ SF_vars(PostVideoFrame(p)) /\ WF_vars(Settle(p))

-----------------------------------------------------------------------------
(* Properties                                                              *)

\* Type correctness; a pipeline in the map is of its slot and not destroyed.
TypeOK ==
  /\ infos \in [Slots -> Cameras \cup {"none"}]
  /\ frames \in [Slots -> Cameras \cup {"none"}]
  /\ shown \in [Slots -> Cameras \cup {"none"}]
  /\ tracking \subseteq Slots
  /\ \A n \in Slots : pipes[n] # NoPipe =>
       pipe[pipes[n]].slot = n /\ ~pipe[pipes[n]].doomed
  /\ \A p \in Pipes : pipe[p].samples \in 0 .. MaxSamples
  /\ main.at \in {"loop", "destroying", "stopping", "closing", "ended"}
  /\ lock = (IF host.at \in {"checking", "joining"} THEN "host" ELSE "free")

\* No pipeline is destroyed before its thread has begun to run.
StartsInTime == \A p \in Pipes : pipe[p].doomed => pipe[p].thread # "starting"

\* The host's thread does not wait for ever for a pipeline it destroys.
HostGoesOn == []<>(host.at # "joining")

\* update_stream, disconnect_stream, change_layout and the end of the viewer
\* join threads that may be posting a frame: they return all the same, because
\* the lock is free by then ("DEADLOCK FIX").
UiReturns ==
  HostGoesOn /\ []StartsInTime =>
    main.at # "loop" ~> main.at \in {"loop", "ended"}

\* A pipeline whose camera is silent for ever does not stay: the dead check
\* takes it out of the map.
DeadStreamsGo ==
  HostGoesOn /\ []StartsInTime /\ []HostRuns =>
    \A p \in Pipes :
      []<>~(p \in Owned /\ pipe[p].source # "stopped" /\ ~pipe[p].video)

\* pipeline_host.cpp: "If we destroy the pipeline while holding the lock, we get
\* a deadlock".  The dead check goes on after it found a dead pipeline.
DeadCheckReturns == host.at = "joining" ~> host.at # "joining"

\* A picture is of the camera its slot has; without a camera there is none.
PicturesOfSlots == \A n \in Slots : shown[n] \in {"none", infos[n]}

\* "Clear playback tracking when going live": the frames of a live pipeline are
\* not shown with the times of an earlier playback.
LiveHasNoTracking ==
  \A n \in tracking : pipes[n] # NoPipe => pipe[pipes[n]].source # "live"
=============================================================================
