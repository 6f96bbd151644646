# revere: verification project

revere is a network video recorder. Cameras are discovered over ONVIF, their
streams are recorded into fixed-size files, motion is detected in key frames,
plugins look for persons in motion events, video without motion is pruned, and
recordings are played back over RTSP to a separate viewer.
This directory holds TLA+ models of the parts of it that are hard to get right,
the TLC instances that check them, and TLAPS proofs of the safety properties of all
of them. Paths below are relative to the repository's `src/`; `ME:77` is
line 77 of `r_motion_engine.cpp`, `SK` is `r_stream_keeper.cpp`, `PR` `r_prune.cpp`,
`RC` and `RCH` are `r_recording_context.cpp` and `.h`, `YP` is the yolov8 plugin
(all under `libs/r_vss`), `RD` is `r_storage_file_reader.cpp` in `libs/r_storage`,
`DV` and `AG` are `r_devices.cpp` and `r_agent.cpp`, `OP` is `r_onvif_provider.cpp`
(`libs/r_disco`), `MAIN` is `apps/revere/source/main.cpp`, and `PH`, `PS` are
`pipeline_host.cpp` and `pipeline_state.cpp` in `apps/vision/source`.

## 1. The system

| Component | State it keeps | Operations | Talks to |
|---|---|---|---|
| camera source (`r_pipeline`) | a GStreamer pipeline | play, stop, sample callbacks | recording context, viewer |
| recording context (`r_recording_context`) | storage file, last frame times, live and playback mounts with their queues and threads | sample callbacks, `dead`, `write_metadata`, stop, destruction, media configuration, need-data, cleanup | storage file, motion engine, stream keeper |
| frame storage (`r_storage_file`) | per stream: last timestamp, correction | `create_write_context`, `write_frame`, `remove_blocks` | nanots (external) |
| reader (`r_storage_file_reader`) | none | `query` | playback, `r_query` |
| blocking queue (`r_blocking_q`) | deque, `_asleep`, drop count | `post`, `poll`, `wake`, `clear`, counts | engine, plugin, restreaming |
| motion engine (`r_motion_engine`) | work context per camera | `post_frame`, `remove_work_context`, worker loop | motion file, plugin host |
| motion file (`r_ring`) | one element per second, last second written | `write`, `write_range`, `query` | pruning, timeline |
| person plugin (yolov8) | queue, buffered frame, detections per camera | `post_motion_event`, worker, `stop` | metadata of the stream keeper |
| pruning (`r_prune`) | camera cache, blocks being judged | one loop | `r_devices`, queries, storage |
| stream keeper (`r_stream_keeper`) | map of recording contexts, command queue | one loop, `is_recording`, playback mounts, `bounce`, `write_metadata`, `stop` | nearly everything |
| work queue (`r_work_q`) | commands with their promises | `post`, `poll`, `wake` | stream keeper, device database, viewer |
| device database (`r_devices`) | sqlite, queue of commands, caches of cameras | a worker that serves commands and refreshes the caches; callers wait for promises | agent, keeper, window, pruning |
| discovery agent (`r_agent`, `r_onvif_provider`) | hashes of configurations, the provider's cache | poll once a minute, `interrogate_camera`, `forget` | database, window |
| window of revere (`main.cpp`) | lists, wizard, dialogs, `assignment_state` | record, forget, properties, remove, cancel, quit; detached threads that probe cameras | database, agent, keeper |
| viewer (`pipeline_host`, `pipeline_state`) | slots of the layout, pipelines, frames to draw, playback tracking | layout, drag and drop, play, stop, look up, dead check | revere over RTSP and HTTP |
| web service, system plugins, ONVIF client, codecs, drawing | | I/O | |

PROJECT.json lists all of them with what is and is not modelled, and the
hazards at their lines. The hard behaviours are of these kinds:

* **numeric**: clocks of cameras that jump back, rings that wrap, gaps that are
  filled, signed times cast to `size_t`, queries that begin between key frames;
* **two threads and a queue**: notifications and wakes that may be lost, full
  queues, counts read and reset separately, work that arrives after a removal;
* **snapshots**: pruning judges blocks it listed earlier by a ring that is
  written meanwhile, the keeper compares streams and database in three queries,
  shared pointers outlive the map they were found in, the window holds rows and
  indexes of lists that change under it;
* **partial failure and restart**: decoding, writing, querying or opening may
  throw halfway through an event, a turn of a loop, or a block; a restart
  forgets what is only in memory;
* **locks, joins and answers**: joins under a lock the joined thread needs,
  threads that set their own running flag, promises waited for without a timeout.

What has to be true: stored frames grow strictly and are stored once; queues
deliver in order, at most once, and lose nothing silently; motion that was
detected is found in the motion file; worker, file and plugins agree about the
events; what is written as detections belongs to the event; pruning removes no
video with motion and serves every camera; the streams follow the database,
callers get answers, `stop` returns; what the agent remembers is stored, so that
cameras appear; a playback is complete and can be decoded; the viewer never
hangs in a join and gets rid of dead pipelines.

## 2. Modules

| Module | Models | Correspondence |
|---|---|---|
| `FrameLog` | abstract: a log whose stored timestamps grow | what `StorageFile` promises |
| `StorageFile` | `r_storage_file` and its owner's lifetime | `lastTs`, `correction` are `_last_*_ts`, `_*_ts_correction`; `WriteFrame` is `write_frame` with nanots accepting or throwing; `RemoveBlocks` is called by pruning meanwhile |
| `FrameChannel` | abstract: a lossy channel, in order, at most once | what `BlockingQueue` promises |
| `BlockingQueue` | `r_blocking_q` with its condition variable | a critical section is an action; `pc`, `notified` are waiting consumers and those released that have not got the lock |
| `RingFile` | the arithmetic of `r_ring` | `AfterWrite`, `AfterWriteRange`, `QueryAccepted`, `QueryResult`: operators, used by the next three |
| `MotionRing` | one motion file over time | `Write`, `WriteRange`, `Reopen` as the engine calls them; `covered` is history: the seconds a write stored or passed |
| `MotionEngine` | the worker of the engine with streams that start, die, are removed | `wc` is `_work_contexts`; `item`/`attempts` the key frame in decoding; `file` one `MotionRing` per camera; `view` what plugins were told |
| `MotionPlugin` | the yolov8 plugin: poster, worker, `stop` | `queue`/`asleep` are its `r_blocking_q`, `detections` etc. its maps |
| `Prune` | the pruning thread, with recording, events, user and failures around it | `ps` is `_ps`; `video`, `flags` are what it reads and removes |
| `StreamKeeper` | the keeper's loop and command queue, database writers, callers (`is_recording` and the viewers' mounts), metadata writers, `stop` | `kpc` is the place in `_entry_point`, `streams` is `_streams`, `writer` a shared pointer held by a plugin |
| `Discovery` | agent, database worker and window, with moving cameras, failing commands and restarts | `hashes`, `probed` are the agent's and the provider's memory, `rows` the table, `queue` `_db_work_q`, `items`/`listed` the window's lists, `ui` the main thread's step, `wizard` `assignment_state` |
| `Playback` | one medium of a playback mount over a recording that may still grow | `thread` is `_playback_entry_point`, `vq`/`aq` the sample queues, `FramesOf` the reader's query, `client` the medium up to its cleanup |
| `PipelineHost` | the viewer's slots, pipelines and their threads, the host's dead check | `infos`, `pipes`, `frames`, `tracking` are the maps of `pipeline_host`, `pipe` every `pipeline_state`, `lock` `_internals_lok` |

Compositions: `MotionEngine` and `Prune` use `RingFile`; `MotionEngine` is shown
to use each file as `MotionRing` allows (`RingUsed`, an action-by-action
refinement), so that what is proved of `MotionRing` holds of its files.
`StorageFile` implements `FrameLog`, `BlockingQueue` implements `FrameChannel`.
`Discovery` composes agent, database and window, `Playback` the reader with the
playback thread and its queues, `PipelineHost` the host with its pipelines.
The `MC*` modules hold the values that cannot be written in a `.cfg`.

What the models abstract: images, codecs, SQL and file formats are not there.
A frame is its timestamp (and in `StorageFile` its number, so that two frames
at one time differ); the verdict of the motion detector, of a decoder call,
of nanots and of inference is chosen nondeterministically. One tick is one
second where the ring is involved. A camera's configuration is its address, a
row of the table its address, url, state and whether its hash is of a full
configuration. Operators named `Mutant...` are plausible bugs; each property of
a passing run is refuted when one of them takes the place of the definition
behind it, so none of them holds vacuously.

## 3. Runs

| Run | Question and answer |
|---|---|
| `storage_file` | With repeated, backward and refused timestamps, freed blocks and reopened files: stored time grows strictly (`StrictlyGrowing`) and `FrameLog` is implemented (`LogSpec`). |
| `queue` | Two consumers, size 2 or unbounded, both drop policies, wakes, clears, timeouts, spurious wakeups: order and at most once (`ChannelSpec`), every item accounted for and no drop counted twice (`Accounting`), no lost notification (`NotificationsCoverItems`); with fair consumers items leave (`ItemsLeave`) and a `wake` ends a wait that has begun (`WakeReturns`). |
| `motion_ring` | All sequences of writes, ranges, gaps and reopenings over more than two laps of a ring of three: recorded motion is kept (`MotionKept`), the previous lap is cleared wherever a write passed (`NoStaleMotion`), accepted queries, whose ends may lie within a second, find all motion of the whole seconds they read (`QueriesReturnMotion`). |
| `motion_engine` | Decoding that fails or is repeated, lost and removed contexts, dying streams: worker, plugins and file agree on the event, and seconds of ended events stay flagged (`EventsAgree`), events do not overlap, the file is used in order (`RingUsed`), contexts of removed streams go away. |
| `motion_plugin` | A worker that keeps up or not, drops at the full queue, missing ENDs, failing writes, stop at any time: no frame counts twice in an event and nothing is written again (`EachFrameWrittenOnce`), and a worker that keeps up mixes no events (`OwnFramesOnly`). |
| `prune` | Events of any length, blocks that begin and end within a second, failing queries, lost events, changed settings, deleted cameras: on an answered query no moving video is removed, except of motion that came late to the ring (`OnlyStillVideoRemoved`), the latest video and unpruned cameras are untouched (`ProtectedVideoStays`). |
| `stream_keeper` | Two cameras, changes of the database, silent streams, failing queries and contexts, a metadata writer, viewers asking for mounts, stop at any time: streams settle on the database, callers are answered, and `stop` returns if the plugins' workers see that they are to stop (`PluginsSee`). |
| `discovery` | A camera that changes its address, a command that fails, a crash and restart, a user who records, forgets, edits, cancels and quits while the agent polls: what the agent remembers is in the database or on its way (`KnownIsStored`), an assigned camera has its url (`RecordedHasUrl`), whoever waits for the database or at the end of the program goes on (`WaitsEnd`), cameras appear (`CamerasAppear`). |
| `playback` | Every recording of four frames with any key frames, with and without audio, finished or growing, any range, queues that overflow, clients that leave: a playback that reached its end posted all video of the range (`Complete`), in an order that can be decoded across the borders of queries (`Decodable`), and the cleanup returns (`CleanupReturns`). |
| `pipeline_host` | Pipelines created, replaced, stopped, played and destroyed while their threads post frames and the dead check runs: the user interface comes back from every join (`UiReturns`), pipelines of silent cameras leave the map (`DeadStreamsGo`). |

Two runs exhibit disagreements between the code and its comments (PROJECT.json
`findings` quotes them):

| Run | What it shows |
|---|---|
| `pipeline_dead_check` | PH:557: the dead check erases the last reference to a pipeline under `_internals_lok` and joins its thread, which wants the lock to post a frame. PH:96 warns of exactly this, for the other callers. |
| `discovery_dialog` | MAIN:952: a dialog about a camera keeps an index into the list; when the list is refreshed without a camera removed before, the confirmation removes the neighbour. |

Further configurations are kept for reading. `MCDiscoveryTwo.cfg` passes (see the
bounds); each of the others checks one property TLC finds violated by what the
code does:

| Configuration | Property | What it shows |
|---|---|---|
| `MCMotionPluginStop.cfg` | `StopReturns` | YP:156: `wake` falls between the test of `_running` and the untimed `poll`; the join never ends. |
| `MCMotionRingUnaligned.cfg` | `LastSecondReturned` | `r_ring.h:92`: the length of a query is truncated to whole seconds, but it reads from the second it starts in: of [10.9, 12.1] second 11 is not read. |
| `MCPruneLongEvent.cfg` | `NoMotionRemoved` | PR:114: the ring hears of an event when it ends; finished blocks of an event longer than the overlap are removed. |
| `MCPruneWindow.cfg` | `ContinuousWindowKept` | PR:136: the continuous-recording window is tested after the block was removed. |
| `MCPruneDeleted.cfg` | `EveryCameraHasItsTurn` | PR:78: a deleted camera at the front throws on every turn and is never rotated; the others starve. |
| `MCStreamKeeperWriters.cfg` | `OneContextPerCamera` | SK:422: a plugin's shared pointer keeps an erased context alive while its successor for the same file is created. |
| `MCPlaybackDrops.cfg` | `NoDrops` | RCH:42: "300 frame buffer ensures no drops for both streams"; a fetch of five seconds when fewer than 60 video samples are left, or of audio, can overflow it. |
| `MCPlaybackCleanup.cfg` | `CleanupAlwaysReturns` | RC:856: "This is safe because prs->running is atomic"; it is a plain `bool` (RCH:112) which the thread sets itself after the cleanup may have cleared it. |
| `MCPipelineHostGhost.cfg` | `PicturesOfSlots` | `update_stream` and `disconnect_stream` leave `_video_frames`: the slot shows the former camera's frame. |
| `MCPipelineHostTracking.cfg` | `LiveHasNoTracking` | `update_stream` and the dead check leave the playback tracking of the slot, whose next pipeline is live. |

### Bounds

* `storage_file`: timestamps 1..3 contain a repeat, steps forward and backward
  steps of two sizes; 3 frames per stream and session reach a step back after
  a step back, and sessions repeat without bound.
* `queue`: two consumers are the least that can overtake each other and steal
  a notification; 4 posts overflow a queue of two twice; 2 wakes or clears.
* `motion_ring`: a ring of 3 seconds has the current second, the oldest and one
  between; `MaxNow` 8 is more than two laps. Queries begin and end at a whole second
  or in its middle (`Fractions`), which gives every order of the two ends within
  their seconds. The files of `motion_engine` are not queried there.
* `motion_engine`: the same ring up to `MaxNow` 4, one lap and a second: laps are the
  subject of `motion_ring`, whose steps the engine's are (`RingUsed`). One camera,
  because contexts, files and events of cameras share nothing but the queue and the
  worker, which are sequential; `MaxSteps` 3 frames or stream changes and one waiting
  item let a removal, a death or a restart fall into any phase of an event. `Confirm` is the code's 3, `MaxAttempts` is 5 for the code's 10,
  and `HoldOff` is 2 seconds for its 60: long enough that a context has events
  before it may write a zero (0 hides what then stays between them, section 4),
  short enough that it does write one.
* `motion_plugin`: a queue of 2 fills up; 7 ticks contain two events, or one
  with two periodic frames. The configuration for `stop` uses a deeper queue so
  that its counterexample is not about a full one.
* `prune*`: rings of 5 and 9 seconds hold several blocks of a second each with
  `Overlap` on both sides, and an event may be as long as the run. Blocks begin and end
  at a whole second or in its middle (`Fractions`). `FetchEvery` 0 makes the cache as fresh as it gets.
* `Skew` is 2^64 modulo the ring size: 1 for 3 and 5, 7 for 9.
* `stream_keeper`: two cameras let one failure hit the other's context; two
  changes contain an edit during an edit and unassigning what was just assigned;
  one failure hits any query or construction. Silence is unbounded.
* `discovery`: one camera, since commands, hashes and rows of cameras share
  only the queue, the worker and the mutex; one move, one failure, one crash fall
  anywhere; two flows contain forgetting a camera that was recorded, and a wizard
  started while a probe of a cancelled one is under way; `MaxUpdates` 1 lets one
  update wait while the window's commands pass through the queue.
  `MCDiscoveryTwo.cfg` checks `RecordedHasUrl` with a second camera, so that the
  probe of one reaches the wizard of the other, and no moves: whether a row has a
  url does not depend on its address. It passes, in about half a minute.
  `discovery_dialog` has three cameras and no faults: two dialogs are needed, and
  a neighbour to take.
* `playback`: four times and windows of two give two borders between queries,
  with every pattern of key frames on both sides; a queue of 3 with a low water
  of 1 overflows within one batch. The code's numbers are 300, 60 and 80.
* `pipeline_host`: one slot, two pipelines (a removed one and its successor), one
  sample waiting. More slots add pipelines that share only the lock; each is
  destroyed in a loop whose order is free in the model.

### Fairness

Only threads of the program are fair, and only for steps they can take by
themselves: consumers that poll in a loop (`queue`), the engine's worker, which
polls with a timeout, pruning's loop, the keeper's loop (polls for at most two
seconds), the plugin's worker and the caller of `stop`. Cameras, users,
failures, timeouts of callers and posters are never assumed to act. In
`StreamKeeper` a stopped stream eventually looks dead (no frames for 20 seconds,
by `dead`), and a write of metadata ends; `stop` and a writer of metadata that wait for
`_streams_mutex` get it (strong fairness), since the keeper releases it in every turn and
then waits for commands; that a plugin's worker sees the stop is not assumed. In `Discovery` the worker, the agent
and the window's own steps are weakly fair; strong fairness of a poll that hears
of all cameras says that the network answers now and then, and of `AgentForget`
that a mutex held for seconds of every minute is had in between. In `Playback`
the thread, GStreamer's join and its need-data callbacks are weakly fair. In
`PipelineHost` threads and joins are weakly fair and the two takers of
`_internals_lok` strongly, because other threads hold it only briefly and a
system mutex does not starve a waiter. Runs allow the system to stop
(`CHECK_DEADLOCK FALSE`), since bounded inputs run out.

### Conditions of the properties

Several properties carry a condition because the code does not keep them
without it; the condition is part of what is learned:

* `QueriesReturnMotion` is about queries that start after the file was created
  and excludes the second that is exactly N seconds old. A query reads as many elements
  as whole seconds fit between its ends, from the second it starts in (`ElementsRead`):
  when it starts later in its second than it ends in its own, the last second is left
  over and not promised (`MCMotionRingUnaligned.cfg`).
* `OnlyStillVideoRemoved`: answered queries, and motion that is in the ring before
  `Overlap` seconds passed since its event began (`late`, `LateMotion`). The loop waits
  `Overlap` after the end of a block; the engine writes an event when it has seen the
  frame that ends it. So an event as long as `Overlap`, or one whose end is worked off
  late, may cover a block and still be unknown to the ring when the block is judged.
  Nothing in the code bounds the length of events, so the property does not either: it
  says which motion is safe whatever else happens. `MCPruneLongEvent.cfg` shows the other.
* `StopReturns` of `StreamKeeper`: the workers of the plugins see that they are to stop.
  `stop` joins them (SK:126-134) and a worker may miss its only wake (YP:156,
  `MCMotionPluginStop.cfg`); then `stop` never returns. `PluginsSeeStop` is therefore not
  fair, and `PluginsSee` is the hypothesis of the property, which is about the rest: the
  mutex that the keeper and writers of metadata want too, the streams stopped one by one
  under it, a worker in the middle of a write, and the keeper in any step of its turn.
* `NoStaleMotion`: not of the seconds before a range, unless a write passed them.
  In the first minute of a context the engine writes no zeros (ME:315), and
  `write_range` fills no gap (`r_ring.cpp:94`): between two such events the elements
  of the lap before remain, and are read as motion if they were.
* `OwnFramesOnly`: a worker that keeps up. The half of `EachFrameWrittenOnce`
  about one event: writes succeed.
* `WakeReturns`: a single waiting consumer, which is how the code uses queues.
* `StreamsFollowDatabase`, `CommandsAnswered`: while the keeper runs, and after
  finitely many failures.
* `KnownIsStored`, `CamerasAppear`: until an update fails (`count.lost`): its
  hash was recorded, so the camera is not posted again (AG:131). `KnownIsStored`
  also excepts rows the window saved, which may be older than the agent's hash.
* `RecordedHasUrl`: unless the probe of a cancelled wizard answers in the next one
  (`wizard.late`), which takes that one past its own interrogation (MAIN:582).
* `CleanupReturns`: the thread had begun to run (`MCPlaybackCleanup.cfg` otherwise).
* `UiReturns`, `DeadStreamsGo`: the dead check itself does not hang
  (`HostGoesOn`; `pipeline_dead_check` shows that it can), and no pipeline is
  destroyed before its thread ran (`StartsInTime`; the thread sets its own flag,
  as in playback, PS:272).

## 4. Proofs

TLAPS checks, for all values of the constants that meet the modules' ASSUMEs:

* `StorageFile_proofs`: `TypeCorrect`, `StoredBelowFrontier`, `FramesGrow`,
  `ImplementsFrameLog`. `StrictlyGrowing` is not inductive: whether a frame lands
  beyond everything stored depends on the relation of the last timestamp and the
  correction to all earlier frames. The invariant that says so is
  `BelowFrontier`: every stored frame is at or below `lastTs + correction`. With
  type correctness and the fact that a closed file has no session it is
  inductive; `FrontierAdvances` shows that every call moves the frontier
  strictly forward, whether nanots stores the frame or not, and
  `FrameLandsBeyond` that the new frame lies above all stored ones. The action
  property and the refinement follow, since a step either appends such a frame to
  one stream or removes frames (`StepAppendsOrFrees`).
* `BlockingQueue_proofs`: `TypeCorrect`, `AccountsForItems`, `NoLostNotification`
  and `ImplementsChannel`, for any finite set of consumers. `Accounting` and
  `NotificationsCoverItems` need each other's types and the order of the queue
  (`Growing`): an item taken or dropped is the oldest, so the refinement mapping
  sees a prefix of the channel leave. Where consumers, notified ones and items
  are counted, the lemmas on cardinalities say what one step adds or takes.
* `MotionRing_proofs`: `RecordedMotionIsKept`, `QueriesFindMotion`, `NothingStale`
  and `TypeCorrect`. It begins with the arithmetic of the file (`RingFile`).
  `OwnIndex`: two seconds less than N apart have different indexes. `WriteKeeps` and
  its companion for ranges say what a write keeps of the seconds younger than N;
  `MotionEngine_proofs` cites them for its files, through an instance. The danger is
  that filling a gap or a later lap clears the element of a second that is still
  within the ring. The inductive invariant adds
  `MotionBehindLast` (no motion lies beyond the latest write, and a ring object that
  has written made that write), so a gap holds later seconds only, and neither
  its zeros nor a wrap reaches a second that is younger than N.
  `QueriesFindMotion` follows by unfolding the query; `NothingStale` has an
  invariant of its own, about the covered seconds.
* `MotionEngine_proofs`: `TypeCorrect`, `EventsAreAgreed`, `EventsInOrder` and
  `UsesTheRing`, for any number of cameras. `EventsAgree` is not inductive: what
  is written depends on the timestamps still in the queue. The invariant adds
  that frames are worked off in the order of their times (`InOrder`) and that what
  a context remembers, the file holds and the plugins know lies in the `Past` of all
  of them; then a zero is written only at a second later than every event that
  ended. `EventsInOrder` needs what the confirmation buffer holds: after an event its
  last entries show no motion, so a new event is confirmed by newer frames only.
  `UsesTheRing` is the refinement, step by step: decoding and events are steps of
  one camera's file, all others stutter.
* `MotionPlugin_proofs`: `TypeCorrect`, `WrittenOnce` and `NoEventsMixed`, for any
  number of cameras, depth of the queue and interval. The queue stays in its bound because only one thread posts (`Types`: the room seen before a post is still there). The other two
  rest on the order of the messages on their way (`Todo`): held, queued, being posted,
  with growing times. So a written END is older than everything kept and to
  come (`WrittenBefore`), detections are of different frames (`DetectedOnce`; the
  frame from the buffer is an UPDATE and later than the last processed one, hence
  neither a detection nor the END), and while the worker keeps up, at most one
  message is on its way and what is kept is of its event, or about to be
  forgotten by a START, or never used again after `stop` (`KeepsUp`).
* `Prune_proofs`: `TypeCorrect`, `ProtectedStays` and `OnlyStillRemoved`. The first two
  need that the snapshot's camera is at the front of the cache and the index inside
  the snapshot, which an error in the middle of a turn must not upset. The third
  is for every `Overlap` of two seconds or more (the code's is 30) and any length of
  events. It has two halves: an answered query without motion means that no flag lies
  in the block (`AnsweredMeansStill`; the second the query may miss is in the overlap,
  which is what the two seconds are for), and what is flagged between the judgement and
  the removal is late (`JudgedStays`): an event that covers the block began at its end at
  the latest, which was `Overlap` ago. Blocks are an ordered
  enumeration of the starts of runs (`Ranked`), so a snapshot's entries are runs.
* `Discovery_proofs`: `TypeCorrect`, `KnownStored` and `HasUrl`, for any number of
  cameras and every bound. Both properties are about commands that still wait for the
  database. `KnownIsStored` says that a partial update of the camera is under way or
  the row is there; to survive the execution of that update, the latest one in the
  queue must carry the remembered hash (`LatestIsKnown`), and the window may remove a
  row only while it is about to forget the camera, which is where `Asked` comes in:
  at most one command of the agent and one of the window are queued, the latter the
  one the main thread waits for (`Meant`). With the updates counted (`FewUpdates`)
  this also bounds the queue. `HasUrl` needs that the rows, the window's copies of
  them and the saves on their way have a url when they are of an assigned camera, and
  that a wizard past its interrogation holds one (`UrlKept`).
* `Streams_proofs` is about three modules; it extends `Playback` and has `StreamKeeper`
  and `PipelineHost` as instances, whose ASSUMEs its theorems repeat as hypotheses
  (`KeeperBounds`, `ViewerBounds`), because an instance does not bring them in.
  * `PlaysAll`, `PostsDecodable` and `TypeCorrect` of `Playback`, for every recording,
    range, window and size of the queues. A batch is the merge of video and audio by
    time: the enumeration of a finite ordered set by rank, each frame once and in order.
    `Complete` follows from what a batch leaves out: all video of the range before the
    end of the latest query is posted or in the batch (`Served`), the thread ends by
    itself only at a frame past the range or when the queries are past it, and the next
    query begins where the last one ended. `Decodable` looks at two frames: `Follows`
    says that each frame of a batch that is no key frame has its predecessor in the
    recording just before it in the batch, or, at the head, posted last. A query that
    begins between key frames steps back, so a batch starts with a key frame.
  * `KeeperTypeCorrect` and `OneCommandWaits` of `StreamKeeper`. The mutex is held in the
    critical section of the keeper or in that of `stop`. The bound of the queue
    is not inductive: `OneAsked` says that the user interface, which waits without a
    timeout, has at most one command in the queue or being served, and none when it does
    not wait, and `FewMounts` counts the rest.
  * `ViewerTypeCorrect` and `MapHoldsTheLiving` of `PipelineHost`. That a pipeline in the
    map is not being destroyed needs that no pipeline is in two slots or both in the
    map and on its way out (`Leaving`), that its thread does not end (`MapOK`), and that
    `CreatePipe` makes a pipeline never used before: pipelines are created in order
    (`InOrder`), so the count of those there are gives the first free one (`NextPipe`).
    `Leaving` also keeps what the dead check has still to look at in the map, which holds
    because every other change of the map needs the lock the check keeps.

The attempts changed the models in five places. `MotionRing` once demanded that a
range begins where the last write ended; the engine does not keep that in its first
minute (see `NoStaleMotion` above), and TLC had not noticed while `HoldOff` was 0.
`OnlyStillVideoRemoved` was stated for events of at most `Overlap`; the proof
failed for an event that begins in the last second of a block. It now has no bound on
events and says of which motion it holds. `Blocks` and
`ByIdOrder` were rewritten from a sort to an enumeration by rank, and the count of the
mounts in the keeper's queue from a filtered sequence to a set, with the same values.
`RecordedHasUrl` was false for two cameras and a crash, because the restart cleared the
history flag `late` while the row it excuses survived in the table; the proof failed at
`Crash`, TLC confirmed it, the flag is now kept, and `MCDiscoveryTwo.cfg` has two cameras.

The assumptions are the typing of the constants, finite sets of consumers and cameras
where they are counted or listed, `Begin <= MaxNow` in `Prune`, and for
`OnlyStillRemoved` an overlap of two seconds or more. Every invariant and every action property of
the passing runs is stated by a theorem. Model-checked only: liveness (`ItemsLeave`,
`WakeReturns`, `RemovedContextsGo`, `StreamsFollowDatabase`, `CommandsAnswered`,
`StopReturns`, `WaitsEnd`, `CamerasAppear`, `CleanupReturns`, `UiReturns`,
`DeadStreamsGo`), which with fairness and ENABLED is out of the prover's reach.

## 5. Seen while modelling, not shown by a run

Recording and motion:

* The motion engine's queue is initialised with `_work()` (ME:77), which
  overrides the bound that `r_motion_engine.h:156` describes: a slow decoder
  makes it grow.
* The count of dropped frames is read and reset in two critical sections
  (SK:189): drops in between are not counted, although `r_stream_keeper.h:86`
  says "since last check". `Accounting` is the direction that holds.
* A motion query around a camera's first block has a negative start, which is
  cast to an unsigned index (`r_ring.cpp:135`): it reads unrelated elements.
  `ReadIndex` models it.
* A motion query that throws is logged and looks empty (`r_query.cpp:462`), so
  pruning removes the block. `Judge` models it.
* A camera whose pruning was switched off stays in the pruning cache (PR:177).
* An event ends at the second quiet key frame, while `r_motion_engine.h:26`
  defines `DEFAULT_MOTION_END_FRAMES` as 3.
* A lagging plugin worker processes at END the latest buffered frame (YP:218),
  which may belong to a later event.
* The motion engine's `start` returns before the worker sets `_running`
  (ME:142): a `stop` in between joins nothing.
* After the keeper stopped, a queued or new `is_recording` is never answered.
* A camera whose context can never be created makes every turn of the keeper throw
  before the commands are polled (SK:587): callers then wait for ever.

Discovery:

* The assign wizard and the settings dialogue write back a whole record
  (MAIN:159, MAIN:920): an update by the agent in between is lost and not sent
  again, and the camera keeps its old address. Its `rtsp_url` is not updated
  when only the address changes.
* The provider answers interrogations from a cache for up to an hour (OP:141):
  a camera that moved is recorded at its old address.
* After a restart the agent posts its own, partial hash over the full one: the
  keeper sees a changed record and restarts a stream that did not change.
* An empty or failed answer of the database leads to `value()` of a null camera
  (MAIN:895, 1628, 1702), which throws; nobody catches it and the process ends. In the
  model the window goes on (`NothingFound`, or a wizard that can only be cancelled), and
  `Crash` may follow. `interrogate_camera` takes such a value for a camera that is being
  recorded (AG:65).

Playback and viewer:

* A query that throws halfway returns what it has, the exception is logged
  (RD:120), and the playback goes on with the next window: frames are skipped.
* A window at the live edge passes frames that are not recorded yet: `Complete`
  is about what was on the disk at the beginning.
* The frames between the last key frame and a border are posted again at each
  border, because a query begins at a key frame: the client sees them twice.
* Between RC:801 and the start of the thread, an exception leaves GStreamer with
  a pointer to a medium that is gone; the context itself is a raw pointer in
  the cleanup callback (RC:865).
* The comment on gaps at RD:245 and the constant next to it disagree.

## 6. Not modelled

Image arithmetic, codecs, GStreamer, SOAP, HTTP, sqlite, drawing and
plugin loading are I/O or data transformations; their answers are inputs.
nanots is not in the repository: `NanotsWrite`, `NanotsFree` and `Find` state
what the code relies on. The mobilenet and picodet plugins are commented out of
the build. Most of the source by size is vendored (sqlite) or data (fonts, test
videos in headers). Not yet modelled: live restreaming, the RTSP mount points
and their factories, the status caches of the keeper, the expiry of the
provider's cache, grouping of frames into blocks by the reader beyond what
pruning uses, the export and the query thread of the viewer, starting of workers
(other than playback's and the viewer's), credentials and schema migration.

## 7. Plan

The order was: storage (the program's purpose), queue (under everything), motion
file, engine and plugin (the pipeline), pruning (the only deletion), keeper,
discovery and database, playback, viewer. Next:

1. `RecordingContext`: `StorageFile` composed with the engine, raw against
   corrected timestamps (RC:291); dead streams and their engine contexts.
2. `Restream`: live mounts with raw pointers to contexts (SK:288).
3. `QueryBlocks`: the reader's grouping of frames as a recursive function
   against a definition by gaps.

## 8. Running

    tlc -config MCStreamKeeper.cfg MCStreamKeeper
    tlapm StorageFile_proofs.tla

Every run takes at most four minutes on two workers, every proof module at
most a few.
