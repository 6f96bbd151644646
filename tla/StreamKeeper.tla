---------------------------- MODULE StreamKeeper ----------------------------
(***************************************************************************)
(* r_stream_keeper: which cameras are recorded.                            *)
(*                                                                         *)
(* One thread owns the map of streams.  In every turn of its loop, under   *)
(* _streams_mutex, it drops the streams that are dead, asks the camera     *)
(* database which cameras were modified, unassigned and assigned, stops    *)
(* and creates recording contexts accordingly, and then serves one command *)
(* of its work queue (r_work_q): is_recording, which is asked before a     *)
(* camera is interrogated, stop, with which the user interface bounces a   *)
(* stream whose settings it saved, or the playback mount a viewer needs.   *)
(* The user interface waits for its answer without a timeout, the server   *)
(* that asks for a mount one second.  An exception in a turn skips the     *)
(* rest of the turn, the commands too.                                     *)
(*                                                                         *)
(* The plugins' threads write metadata through a shared pointer to the     *)
(* context they find in the map.  The main thread is the user interface,   *)
(* and stops the keeper at the end; of stop the joins after the keeper's   *)
(* own, of the RTSP server, the pruning and the system plugins, are left   *)
(* out.                                                                    *)
(***************************************************************************)
EXTENDS Integers, Sequences, FiniteSets

CONSTANTS
  Cameras,
  Watched,      \* cameras with motion detection, whose metadata plugins write
  MaxChanges,   \* bound: changes of the camera database
  MaxFaults,    \* bound: queries that fail, contexts that cannot be created,
                \* cameras that fall silent
  MaxMounts     \* bound: playback mounts waiting to be created

ASSUME StreamKeeperConstants ==
  Watched \subseteq Cameras /\ {MaxChanges, MaxFaults, MaxMounts} \subseteq Nat

NoStream == [stopped |-> FALSE]
NoRef == [cam |-> "none"]

VARIABLES
  db,        \* the database: state, url (in the hash, which may become again
             \* what it was) and settings (not in it)
  changes,   \* changes of it so far
  streams,   \* _streams: streams[c], or NoStream
  faults,    \* failures so far
  mutex,     \* who holds _streams_mutex: "free", "keeper" or "main"
  kpc,       \* the keeper: next step of its loop
  cmdq,      \* _cmd_q
  cmd,       \* the command the keeper serves
  main,      \* the main thread
  running,   \* _running
  writer     \* the camera for which a plugin's thread writes metadata, and the
             \* context it writes to: "sought", "mapped" or, when the map does not
             \* have it any more, "erased"; or NoRef

database == <<db, changes>>
keeper == <<streams, faults, mutex, kpc, cmdq, cmd>>
callers == <<main, running>>
vars == <<database, keeper, callers, writer>>

Init ==
  /\ db = [c \in Cameras |-> [assigned |-> TRUE, url |-> 0, setting |-> 0]]
  /\ changes = 0
  /\ streams = [c \in Cameras |-> NoStream]
  /\ faults = 0
  /\ mutex = "free" /\ kpc = "top" /\ cmdq = <<>> /\ cmd = NoRef
  /\ main = "idle" /\ running = TRUE /\ writer = NoRef

IsMount(command) == command.cmd = "mount"

\* The places of mounts in a queue of commands.
Mounts(q) == {i \in DOMAIN q : IsMount(q[i])}

-----------------------------------------------------------------------------
(* The database and its writers.                                           *)

Change(c, rec) ==
  /\ changes < MaxChanges
  /\ changes' = changes + 1
  /\ db' = [db EXCEPT ![c] = rec]

\* assign_camera, unassign_camera; a camera that was removed is like one that
\* is not assigned.
Assign(c) ==
  /\ main = "idle"
  /\ Change(c, [db[c] EXCEPT !.assigned = ~@])
  /\ UNCHANGED <<keeper, callers, writer>>

\* The agent reports a camera that changed: its hash changes.
Rediscovered(c) ==
  /\ Change(c, [db[c] EXCEPT !.url = 1 - @])
  /\ UNCHANGED <<keeper, callers, writer>>

\* A command of the main thread, which waits for its answer.
Ask(command) ==
  /\ main = "idle" /\ main' = "waiting"
  /\ cmdq' = Append(cmdq, command)
  /\ UNCHANGED <<streams, faults, mutex, kpc, cmd, running, writer>>

\* The properties dialogue of a camera that is recorded: save_camera, then
\* bounce.  save_camera computes the hash from the whole record, the agent from
\* what discovery told it: the hash may change although the camera did not.
SaveSettings(c) ==
  /\ db[c].assigned
  /\ \E url \in {0, 1} :
       Change(c, [db[c] EXCEPT !.setting = @ + 1, !.url = url])
  /\ Ask([cmd |-> "stop", cam |-> c])

\* is_recording, before a camera is interrogated; for which camera makes no
\* difference here.
AskRecording ==
  /\ Ask([cmd |-> "is_recording"])
  /\ UNCHANGED database

\* _options_cb: a viewer asks the RTSP server for a recording.  The server goes
\* on after a second, with or without the mount.
AskMount ==
  /\ Cardinality(Mounts(cmdq)) < MaxMounts
  /\ cmdq' = Append(cmdq, [cmd |-> "mount"])
  /\ UNCHANGED <<database, streams, faults, mutex, kpc, cmd, callers, writer>>

-----------------------------------------------------------------------------
(* Recording contexts.                                                     *)

Present(S) == {c \in Cameras : S[c] # NoStream}
Assigned == {c \in Cameras : db[c].assigned}

\* No frame for 20 seconds: a fault of the camera, unless the stream was stopped.
Silence(c) ==
  /\ c \in Present(streams) /\ ~streams[c].silent
  /\ streams' = [streams EXCEPT ![c].silent = TRUE]
  /\ \/ streams[c].stopped /\ UNCHANGED faults
     \/ ~streams[c].stopped /\ faults < MaxFaults /\ faults' = faults + 1
  /\ UNCHANGED <<database, mutex, kpc, cmdq, cmd, callers, writer>>

\* Frames come again before the keeper notices.
FramesAgain(c) ==
  /\ c \in Present(streams) /\ streams[c].silent /\ ~streams[c].stopped
  /\ streams' = [streams EXCEPT ![c].silent = FALSE]
  /\ UNCHANGED <<database, faults, mutex, kpc, cmdq, cmd, callers, writer>>

-----------------------------------------------------------------------------
(* The keeper: one turn of _entry_point.                                   *)

\* The streams of C leave the map; a context somebody writes to lives on.
Erase(C) ==
  /\ streams' = [c \in Cameras |-> IF c \in C THEN NoStream ELSE streams[c]]
  /\ writer' = IF writer.cam \in C /\ writer.context = "mapped"
               THEN [writer EXCEPT !.context = "erased"] ELSE writer

\* The loop ignores the end of the keeper.
MutantTop ==
  /\ kpc = "top" /\ mutex = "free"
  /\ mutex' = "keeper"
  /\ Erase({c \in Present(streams) : streams[c].silent})
  /\ kpc' = IF Present(streams') = {} THEN "all" ELSE "modified"
  /\ UNCHANGED <<database, faults, cmdq, cmd, callers>>

\* The loop's condition; dead streams go first.
Top ==
  /\ kpc = "top"
  /\ \/ /\ ~running
        /\ kpc' = "done"
        /\ UNCHANGED <<streams, mutex, writer>>
     \/ /\ running /\ mutex = "free"
        /\ mutex' = "keeper"
        /\ Erase({c \in Present(streams) : streams[c].silent})
        /\ kpc' = IF Present(streams') = {} THEN "all" ELSE "modified"
  /\ UNCHANGED <<database, faults, cmdq, cmd, callers>>

\* A query of r_devices: an exception is logged and the answer is empty.
Query(answer, C) ==
  \/ C = answer /\ UNCHANGED faults
  \/ C = {} /\ faults < MaxFaults /\ faults' = faults + 1

\* get_modified_cameras compares the hashes.
Modified == {c \in Present(streams) : db[c].url # streams[c].rec.url}

\* Modified streams are stopped and erased, to be added again.
RemoveModified ==
  /\ kpc = "modified" /\ kpc' = "removed"
  /\ \E C \in SUBSET Cameras : Query(Modified, C) /\ Erase(C)
  /\ UNCHANGED <<database, mutex, cmdq, cmd, callers>>

\* get_assigned_cameras_removed
RemoveUnassigned ==
  /\ kpc = "removed" /\ kpc' = "all"
  /\ \E C \in SUBSET Cameras : Query(Present(streams) \ Assigned, C) /\ Erase(C)
  /\ UNCHANGED <<database, mutex, cmdq, cmd, callers>>

\* _add_recording_contexts: a context copies the record of its camera.
Added(C) ==
  [c \in Cameras |->
    IF c \in C THEN [rec |-> db[c], stopped |-> FALSE, silent |-> FALSE]
    ELSE streams[c]]

Missing == Assigned \ Present(streams)

\* The exception leaves with the mutex held.
MutantAdd ==
  /\ kpc = "all"
  /\ \E C \in SUBSET Missing :
       /\ \/ Query(Missing, C) /\ kpc' = "poll" /\ mutex' = "free"
          \/ /\ C # Missing
             /\ faults < MaxFaults /\ faults' = faults + 1
             /\ kpc' = "top" /\ UNCHANGED mutex
       /\ streams' = Added(C)
  /\ UNCHANGED <<database, cmdq, cmd, callers, writer>>

\* get_assigned_cameras or get_assigned_cameras_added; when the constructor of
\* a context throws, the contexts before it stay and the turn ends.
Add ==
  /\ kpc = "all" /\ mutex' = "free"
  /\ \E C \in SUBSET Missing :
       /\ \/ Query(Missing, C) /\ kpc' = "poll"
          \/ /\ C # Missing
             /\ faults < MaxFaults /\ faults' = faults + 1
             /\ kpc' = "top"
       /\ streams' = Added(C)
  /\ UNCHANGED <<database, cmdq, cmd, callers, writer>>

\* poll with its timeout of two seconds.
Poll ==
  /\ kpc = "poll"
  /\ IF cmdq = <<>>
     THEN kpc' = "top" /\ UNCHANGED <<cmdq, cmd>>
     ELSE kpc' = "serve" /\ cmd' = Head(cmdq) /\ cmdq' = Tail(cmdq)
  /\ UNCHANGED <<database, streams, faults, mutex, callers, writer>>

\* Nobody is answered while nothing is recorded.
MutantServeRecording ==
  /\ kpc = "serve" /\ cmd.cmd = "is_recording" /\ mutex = "free"
  /\ main' = IF Present(streams) = {} THEN main ELSE "idle"
  /\ kpc' = "top" /\ cmd' = NoRef
  /\ UNCHANGED <<database, streams, faults, mutex, cmdq, running, writer>>

ServeRecording ==
  /\ kpc = "serve" /\ cmd.cmd = "is_recording" /\ mutex = "free"
  /\ main' = "idle"
  /\ kpc' = "top" /\ cmd' = NoRef
  /\ UNCHANGED <<database, streams, faults, mutex, cmdq, running, writer>>

\* The command is answered and not executed.
MutantStopped(c) == streams[c]

\* A context is stopped and stays in the map.
Stopped(c) ==
  IF streams[c] = NoStream THEN NoStream ELSE [streams[c] EXCEPT !.stopped = TRUE]

\* The context is looked up under the mutex and stopped outside of it; only
\* the keeper's thread changes the map.
ServeStop ==
  /\ kpc = "serve" /\ cmd.cmd = "stop" /\ mutex = "free"
  /\ streams' = [streams EXCEPT ![cmd.cam] = Stopped(cmd.cam)]
  /\ main' = "idle"
  /\ kpc' = "top" /\ cmd' = NoRef
  /\ UNCHANGED <<database, faults, mutex, cmdq, running, writer>>

\* _create_playback_mount, under the mutex; an exception ends the turn as well.
ServeMount ==
  /\ kpc = "serve" /\ IsMount(cmd) /\ mutex = "free"
  /\ kpc' = "top" /\ cmd' = NoRef
  /\ UNCHANGED <<database, streams, faults, mutex, cmdq, callers, writer>>

Keeper ==
  \/ Top \/ RemoveModified \/ RemoveUnassigned \/ Add
  \/ Poll \/ ServeRecording \/ ServeStop \/ ServeMount

-----------------------------------------------------------------------------
(* write_metadata, on a plugin's thread.                                   *)

\* A worker has detections to write; one that was told to stop takes no more.
WriterBegins(c) ==
  /\ writer = NoRef /\ main \in {"idle", "waiting", "stop", "stopping", "plugins"}
  /\ writer' = [cam |-> c, context |-> "sought"]
  /\ UNCHANGED <<database, keeper, callers>>

\* The map is searched under the mutex; the shared pointer outlives it.
WriterFinds ==
  /\ writer # NoRef /\ writer.context = "sought" /\ mutex = "free"
  /\ writer' = IF writer.cam \in Present(streams)
               THEN [writer EXCEPT !.context = "mapped"] ELSE NoRef
  /\ UNCHANGED <<database, keeper, callers>>

WriterDone ==
  /\ writer # NoRef /\ writer.context # "sought" /\ writer' = NoRef
  /\ UNCHANGED <<database, keeper, callers>>

-----------------------------------------------------------------------------
(* stop, on the main thread.                                               *)

\* The web server is stopped first.
CallStop ==
  /\ main = "idle" /\ main' = "stop"
  /\ UNCHANGED <<database, keeper, running, writer>>

LockStreams ==
  /\ main = "stop" /\ mutex = "free"
  /\ main' = "stopping" /\ mutex' = "main"
  /\ UNCHANGED <<database, streams, faults, kpc, cmdq, cmd, running, writer>>

\* Every stream of the map is stopped under the mutex, one after the other.
StopOne(c) ==
  /\ main = "stopping" /\ c \in Present(streams) /\ ~streams[c].stopped
  /\ streams' = [streams EXCEPT ![c] = Stopped(c)]
  /\ UNCHANGED <<database, faults, mutex, kpc, cmdq, cmd, callers, writer>>

UnlockStreams ==
  /\ main = "stopping" /\ \A c \in Present(streams) : streams[c].stopped
  /\ main' = "plugins" /\ mutex' = "free"
  /\ UNCHANGED <<database, streams, faults, kpc, cmdq, cmd, running, writer>>

\* A plugin's worker sees that it is to stop.  It may never do so: the plugin wakes
\* it once, and a worker that was not yet waiting waits for ever (MotionPlugin).
PluginsSeeStop ==
  /\ main = "plugins" /\ main' = "drain"
  /\ UNCHANGED <<database, keeper, running, writer>>

\* The workers are joined, when they have written what they had begun to write.
PluginsJoined ==
  /\ main = "drain" /\ writer = NoRef
  /\ main' = "join" /\ running' = FALSE
  /\ UNCHANGED <<database, keeper, writer>>

KeeperJoined ==
  /\ main = "join" /\ kpc = "done"
  /\ main' = "returned"
  /\ UNCHANGED <<database, keeper, running, writer>>

Stop == (\E c \in Cameras : StopOne(c)) \/ UnlockStreams \/ PluginsJoined \/ KeeperJoined

-----------------------------------------------------------------------------
Next ==
  \/ \E c \in Cameras :
       \/ Assign(c) \/ Rediscovered(c) \/ SaveSettings(c)
       \/ Silence(c) \/ FramesAgain(c)
  \/ \E c \in Watched : WriterBegins(c)
  \/ AskRecording \/ AskMount
  \/ Keeper
  \/ WriterFinds \/ WriterDone
  \/ CallStop \/ LockStreams \/ PluginsSeeStop
  \/ Stop

Spec == Init /\ [][Next]_vars

\* The keeper's thread runs and waits for a command two seconds at most, outside of
\* the mutex, so that others who want the mutex get it; a write of metadata ends, stop
\* goes on where nobody holds it up, and a stopped stream has no frames.
FairSpec ==
  /\ Spec
  /\ WF_vars(Keeper) /\ WF_vars(WriterDone) /\ WF_vars(Stop)
  /\ SF_vars(WriterFinds) /\ SF_vars(LockStreams)
  /\ \A c \in Cameras : WF_vars(Silence(c) /\ streams[c].stopped)

-----------------------------------------------------------------------------
(* Properties                                                              *)

\* Type correctness; outside of a turn's critical section nobody is in it.
TypeOK ==
  /\ \A c \in Present(streams) : {streams[c].stopped, streams[c].silent} \subseteq BOOLEAN
  /\ changes \in 0 .. MaxChanges /\ faults \in 0 .. MaxFaults
  /\ kpc \in {"top", "modified", "removed", "all", "poll", "serve", "done"}
  /\ mutex = (IF kpc \in {"modified", "removed", "all"} THEN "keeper"
               ELSE IF main = "stopping" THEN "main" ELSE "free")
  /\ main = "stopping" => mutex = "main"
  /\ main \in {"idle", "waiting", "stop", "stopping", "plugins", "drain", "join", "returned"}
  /\ running = (main \notin {"join", "returned"})
  /\ Len(cmdq) <= 1 + MaxMounts

\* A stream records its camera as the database has it.
Current(c) == db[c].assigned /\ streams[c].rec = db[c]

\* While the keeper runs: in the end no camera is recorded that should not be,
\* or with a record that has since changed, and every assigned camera is
\* recorded again and again, although streams die, queries fail, contexts fail
\* to be created and the settings, which are not in the hash, take a bounce.
StreamsFollowDatabase ==
  []running =>
    \A c \in Cameras :
      /\ <>[](c \in Present(streams) => Current(c))
      /\ <>[](c \in Assigned) => []<>(c \in Present(streams) /\ ~streams[c].stopped)

\* The user interface waits for the keeper with no timeout: its commands are
\* answered, whatever viewers ask for in between and whatever fails.
CommandsAnswered == main = "waiting" ~> main = "idle"

\* What stop relies on and the person plugin does not guarantee (MCMotionPluginStop.cfg
\* shows how its stop never returns): the plugins' workers see that they are to stop.
PluginsSee == []<>(main # "plugins")

\* When they do, stop returns: it takes the mutex from the keeper and gives it back,
\* joins workers that hold a context or want the mutex, and joins the keeper in
\* whatever step of its turn that is.
StopReturns == PluginsSee => (main = "stop" ~> main = "returned")

\* r_stream_keeper.cpp: "the old r_recording_context (and its nanots_writer) is
\* fully destroyed before we attempt to create a new one".
OneContextPerCamera ==
  writer # NoRef /\ writer.context = "erased" => writer.cam \notin Present(streams)
=============================================================================
