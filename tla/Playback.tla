------------------------------ MODULE Playback ------------------------------
(***************************************************************************)
(* Playing a recording back: a client opens a playback mount, and the      *)
(* recording context configures a medium for it.  A thread reads the       *)
(* storage file five seconds at a time (r_storage_file_reader::query) and  *)
(* posts the frames to two bounded queues, out of which GStreamer takes    *)
(* them.  The camera may still be recording into the same file.  When the  *)
(* client leaves, GStreamer's cleanup callback ends the thread.            *)
(***************************************************************************)
EXTENDS Integers, Sequences, FiniteSets, FiniteSetsExt

CONSTANTS
  LastTime,   \* bound: the time of the last frame
  Window,     \* what one query reads (5 seconds)
  LowWater,   \* samples below which more are fetched (60)
  HighWater,  \* video samples from which on audio alone fetches nothing (80)
  MaxQueue    \* PLAYBACK_RESTREAM_MAX_QUEUE_SIZE (300)

Times == 0 .. LastTime

ASSUME PlaybackConstants ==
  /\ {LastTime, Window, LowWater, HighWater, MaxQueue} \subseteq Nat \ {0}
  /\ LowWater <= HighWater /\ HighWater <= MaxQueue

VARIABLES
  film,     \* what the camera records: at each time a key frame, another or none
  sound,    \* whether it records audio, of which every frame is a key frame
  start, end,   \* start_time and end_time of the mount
  now,      \* frames before this time are on the disk
  running,  \* prs->running
  thread,   \* the playback thread: its step, query_start, the frames to post
  vq, aq,   \* video_samples and audio_samples
  client,   \* the medium: "playing", "closing", "closed"
  lastv,    \* history: the time of the video frame posted last, or None
  posted,   \* history: the times of the video frames posted
  begun     \* history: "now" when the mount was opened, and why the thread ended

mount == <<film, sound, start, end>>
history == <<lastv, posted, begun>>
vars == <<mount, now, running, thread, vq, aq, client, history>>

None == -1
Kinds == {"key", "delta", "none"}

-----------------------------------------------------------------------------
(* r_storage_file_reader                                                   *)

\* nanots_iterator::find (external): the first frame at or after ts.
Find(frames, ts) == Min({t \in frames : t >= ts} \cup {LastTime + 1})

\* The query starts at the frame it found.
MutantBackUp(frames, t) == t

\* The iterator goes back to a key frame; before the first frame it is invalid.
BackUp(frames, t) ==
  IF t \notin frames THEN t
  ELSE Max({k \in frames : k <= t /\ film[k] = "key"} \cup {None})

\* Both ends belong to the range, so that a frame of the border is missing next.
MutantFramesOf(frames, from, to) ==
  LET first == BackUp(frames, Find(frames, from + 1))
  IN IF first = None THEN {} ELSE {t \in frames : first <= t /\ t <= to - 1}

\* The frames query returns of one stream; an invalid iterator returns none.
FramesOf(frames, from, to) ==
  LET first == BackUp(frames, Find(frames, from))
  IN IF first = None THEN {} ELSE {t \in frames : first <= t /\ t < to}

Video == {t \in Times : t < now /\ film[t] # "none"}
Audio == IF sound THEN {t \in Times : t < now} ELSE {}
AudioOf(from, to) == {t \in Audio : from <= t /\ t < to}

\* _merge_frames: by time, video first.
Merged(V, A) ==
  LET Frames == {<<t, 0>> : t \in V} \cup {<<t, 1>> : t \in A}
      Before(f, g) == f[1] < g[1] \/ (f[1] = g[1] /\ f[2] < g[2])
      At(i) == CHOOSE f \in Frames : Cardinality({g \in Frames : Before(g, f)}) = i - 1
  IN [i \in 1 .. Cardinality(Frames) |->
        [ts |-> At(i)[1], media |-> IF At(i)[2] = 0 THEN "video" ELSE "audio"]]

-----------------------------------------------------------------------------
(* r_recording_context                                                     *)

\* _playback_restream_media_configure: there is something to play, and the
\* thread is created; it has not run yet.
Init ==
  /\ film \in {f \in [Times -> Kinds] :
                 \E t \in Times : f[t] = "key" /\ \A u \in 0 .. t - 1 : f[u] = "none"}
  /\ sound \in BOOLEAN
  /\ start \in Times /\ end \in start .. LastTime
  /\ now \in 1 .. LastTime + 1
  /\ \E t \in start .. end : t < now /\ film[t] # "none"
  /\ running \in BOOLEAN
  /\ thread = [at |-> "created", from |-> start, batch |-> << >>]
  /\ vq = << >> /\ aq = << >> /\ client = "playing"
  /\ lastv = None /\ posted = {} /\ begun = [now |-> now, over |-> FALSE]

\* _playback_entry_point sets running itself.
ThreadStarts ==
  /\ thread.at = "created"
  /\ running' = TRUE /\ thread' = [thread EXCEPT !.at = "testing"]
  /\ UNCHANGED <<mount, now, vq, aq, client, history>>

\* _time_to_get_more_data
TimeToGetMoreData ==
  \/ Len(vq) < LowWater
  \/ sound /\ Len(aq) < LowWater /\ Len(vq) < HighWater

\* query_start is advanced with the query, however much of it was on the disk;
\* a query that throws changes nothing and is repeated, which is no step here.
\* (Past the last time, queries return nothing any more.)
Fetch ==
  /\ thread.at = "testing" /\ running /\ TimeToGetMoreData
  /\ thread.from <= LastTime + Window
  /\ LET to == thread.from + Window
     IN thread' = [at |-> "posting", from |-> to,
                   batch |-> Merged(FramesOf(Video, thread.from, to),
                                    AudioOf(thread.from, to))]
  /\ UNCHANGED <<mount, now, running, vq, aq, client, history>>

\* A full queue makes the thread wait.
MutantHasRoom(q) == Len(q) < MaxQueue

\* post never waits ...
HasRoom(q) == TRUE

\* Nothing is ever dropped.
MutantPost(q, t) == Append(q, t)

\* ... and drops the oldest sample of a full queue.
Post(q, t) == Append(IF Len(q) >= MaxQueue THEN Tail(q) ELSE q, t)

\* A frame of the batch is posted.  The flag is not looked at meanwhile.
PostFrame ==
  /\ thread.at = "posting" /\ thread.batch # << >> /\ Head(thread.batch).ts <= end
  /\ LET f == Head(thread.batch)
     IN IF f.media = "video"
        THEN /\ HasRoom(vq) /\ vq' = Post(vq, f.ts) /\ UNCHANGED aq
             /\ lastv' = f.ts /\ posted' = posted \cup {f.ts}
        ELSE /\ HasRoom(aq) /\ aq' = Post(aq, f.ts) /\ UNCHANGED vq
             /\ UNCHANGED <<lastv, posted>>
  /\ thread' = [thread EXCEPT !.batch = Tail(@)]
  /\ UNCHANGED <<mount, now, running, client, begun>>

\* A frame after the end ends the playback.
PassEnd ==
  /\ thread.at = "posting" /\ thread.batch # << >> /\ Head(thread.batch).ts > end
  /\ running' = FALSE /\ thread' = [thread EXCEPT !.at = "testing", !.batch = << >>]
  /\ begun' = [begun EXCEPT !.over = TRUE]
  /\ UNCHANGED <<mount, now, vq, aq, client, lastv, posted>>

BatchDone ==
  /\ thread.at = "posting" /\ thread.batch = << >>
  /\ thread' = [thread EXCEPT !.at = "testing"]
  /\ UNCHANGED <<mount, now, running, vq, aq, client, history>>

ThreadEnds ==
  /\ thread.at = "testing" /\ ~running /\ thread' = [thread EXCEPT !.at = "ended"]
  /\ UNCHANGED <<mount, now, running, vq, aq, client, history>>

\* _need_playback_data_cbs: GStreamer wants a sample, and gets one if there is one.
NeedVideo ==
  /\ client = "playing" /\ vq # << >> /\ vq' = Tail(vq)
  /\ UNCHANGED <<mount, now, running, thread, aq, client, history>>

NeedAudio ==
  /\ client = "playing" /\ aq # << >> /\ aq' = Tail(aq)
  /\ UNCHANGED <<mount, now, running, thread, vq, client, history>>

\* The client leaves: _playback_restream_cleanup_cbs clears the flag and joins.
Cleanup ==
  /\ client = "playing" /\ client' = "closing" /\ running' = FALSE
  /\ UNCHANGED <<mount, now, thread, vq, aq, history>>

CleanupJoined ==
  /\ client = "closing" /\ thread.at = "ended" /\ client' = "closed"
  /\ UNCHANGED <<mount, now, running, thread, vq, aq, history>>

\* The camera goes on recording.
RecordFrame ==
  /\ now <= LastTime /\ now' = now + 1
  /\ UNCHANGED <<mount, running, thread, vq, aq, client, history>>

-----------------------------------------------------------------------------
Thread == ThreadStarts \/ Fetch \/ PostFrame \/ PassEnd \/ BatchDone \/ ThreadEnds

Next == Thread \/ NeedVideo \/ NeedAudio \/ Cleanup \/ CleanupJoined \/ RecordFrame

Spec == Init /\ [][Next]_vars

\* The thread runs, GStreamer joins it, and it takes samples while it plays.
FairSpec ==
  Spec /\ WF_vars(Thread) /\ WF_vars(CleanupJoined) /\ WF_vars(NeedVideo) /\ WF_vars(NeedAudio)

-----------------------------------------------------------------------------
(* Properties                                                              *)

\* Type correctness; what waits to be posted or taken is on the disk.
TypeOK ==
  /\ thread.at \in {"created", "testing", "posting", "ended"}
  /\ client \in {"playing", "closing", "closed"}
  /\ Len(vq) <= MaxQueue /\ Len(aq) <= MaxQueue
  /\ \A i \in DOMAIN vq : vq[i] \in Video
  /\ \A i \in DOMAIN aq : aq[i] \in Audio
  /\ posted \subseteq Video /\ lastv \in posted \cup {None}

\* What the thread posts can be decoded: a video frame is a key frame, or the
\* frame before it in the recording was posted just before, also where one query
\* ends and the next begins and while the camera is still recording.  (What the
\* client gets is less where post drops a sample: see NoDrops.)
Decodable ==
  [][\A t \in Times :
       vq' # vq /\ lastv' = t /\ Len(vq') >= Len(vq) =>
         \/ film[t] = "key"
         \/ lastv = Max({u \in Times : u < t /\ film[u] # "none"} \cup {None})]_vars

\* A playback that came to its end has posted all video of its range that was on
\* the disk when it began.
Complete ==
  begun.over =>
    \A t \in start .. end : t < begun.now /\ film[t] # "none" => t \in posted

\* When the client leaves, the cleanup callback returns, provided the thread had
\* begun to run: it sets the flag itself that the callback clears.
CleanupReturns ==
  [](client = "closing" => thread.at # "created") =>
    (client = "closing" ~> client = "closed")

\* r_recording_context.cpp: "This is safe because prs->running is atomic".
CleanupAlwaysReturns == client = "closing" ~> client = "closed"

\* r_recording_context.h: "300 frame buffer ensures no drops for both streams".
NoDrops == [][Len(vq') = Len(vq) => vq' = vq]_vars
=============================================================================
