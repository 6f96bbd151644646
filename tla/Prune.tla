-------------------------------- MODULE Prune --------------------------------
(***************************************************************************)
(* r_prune: a thread that frees recorded video without motion.             *)
(*                                                                         *)
(* It keeps a cache of cameras, takes a snapshot of the blocks of the one  *)
(* at the front, and once a second judges the next block of the snapshot:  *)
(* motion is what the camera's ring reports from Overlap before to Overlap *)
(* after the block.  Meanwhile cameras record, events begin and end, and   *)
(* the user changes and removes cameras.  An event is in the ring only     *)
(* once it has ended.  Every error of the motion query is taken for an     *)
(* empty answer; an error of any other query ends the turn of the loop.    *)
(*                                                                         *)
(* The ring is used through what MotionRing promises: its elements show    *)
(* the flagged seconds of the last N.  Time is in seconds, counted from    *)
(* the creation of the motion file; only a query has its ends within a     *)
(* second, as the first and the last frame of a block do.                  *)
(***************************************************************************)
EXTENDS RingFile, Sequences, SequencesExt, FiniteSets, FiniteSetsExt

CONSTANTS
  Cameras,
  Overlap,      \* seconds judged on either side of a block (30)
  Keep,         \* min_continuous_recording_hours, in seconds
  Gap,          \* seconds without video that separate two blocks
  FetchEvery,   \* seconds between two looks at the camera list (30)
  Faults,       \* what happens: events ("motion"), motion queries that fail
                \* ("query"), events the engine loses ("engine"), the user
                \* changes settings ("setting") or removes cameras ("delete")
  Fractions,    \* milliseconds into a second at which blocks begin and end
  Begin,        \* age of the motion file when the first video is recorded
  MaxNow        \* bound on the clock

ASSUME PruneConstants ==
  /\ IsFiniteSet(Cameras)
  /\ {Begin, Overlap, Keep, Gap, FetchEvery, MaxNow} \subseteq Nat
  /\ Begin <= MaxNow
  /\ Faults \subseteq {"motion", "query", "engine", "setting", "delete"}
  /\ Fractions \subseteq 0 .. 999

VARIABLES
  now,        \* the clock
  known,      \* cameras in r_devices
  pruning,    \* cameras with do_motion_pruning that are assigned
  video,      \* video[c]: seconds with stored video
  event,      \* event[c]: start of the event the engine is in, or None
  flags,      \* flags[c]: seconds flagged in the motion ring
  late,       \* late[c]: those of events the engine wrote Overlap seconds or more
              \* after they began (for the properties)
  cache,      \* _cameras
  lastFetch,  \* _last_camera_fetch
  ps,         \* _ps: camera, blocks and index of the block to judge, or NoPs;
              \* and whether its motion query was answered (for the properties)
  pc,         \* the loop: "sleep", "work", "remove" or "advance"
  tnow        \* the time the loop read at the start of its turn

vars == <<now, known, pruning, video, event, flags, late, cache, lastFetch, ps, pc, tnow>>
world == <<now, known, pruning, event, flags, late>>

NoPs == [bi |-> 0]

Init ==
  /\ now = Begin
  /\ known = Cameras /\ pruning \in SUBSET Cameras
  /\ video = [c \in Cameras |-> {}]
  /\ event = [c \in Cameras |-> None]
  /\ flags = [c \in Cameras |-> {}] /\ late = [c \in Cameras |-> {}]
  /\ cache = <<>> /\ lastFetch = 0
  /\ ps = NoPs /\ pc = "sleep" /\ tnow = 0

-----------------------------------------------------------------------------
(* Recording, the motion engine and the user.                              *)

prune == <<cache, lastFetch, ps, pc, tnow>>

\* A second passes; some cameras record it.
Tick ==
  /\ now < MaxNow
  /\ now' = now + 1
  /\ \E on \in SUBSET known :
       video' = [c \in Cameras |-> IF c \in on THEN video[c] \cup {now} ELSE video[c]]
  /\ UNCHANGED <<known, pruning, event, flags, late, prune>>

EventBegins(c) ==
  /\ "motion" \in Faults /\ c \in known /\ event[c] = None
  /\ event' = [event EXCEPT ![c] = now]
  /\ UNCHANGED <<now, known, pruning, video, flags, late, prune>>

\* The seconds of the event that are late when it is written now.
Late(c, seconds) == IF now - event[c] >= Overlap THEN seconds ELSE {}

\* The engine writes the seconds of an event to the ring once it has seen the frame
\* that ends it, in second e ...
EventEnds(c) ==
  /\ event[c] # None
  /\ \E e \in event[c] .. now :
       /\ flags' = [flags EXCEPT ![c] = @ \cup event[c] .. e]
       /\ late' = [late EXCEPT ![c] = @ \cup Late(c, event[c] .. e)]
  /\ event' = [event EXCEPT ![c] = None]
  /\ UNCHANGED <<now, known, pruning, video, prune>>

\* ... or has lost its context, and with it the event.
EventLost(c) ==
  /\ "engine" \in Faults /\ event[c] # None
  /\ event' = [event EXCEPT ![c] = None]
  /\ UNCHANGED <<now, known, pruning, video, flags, late, prune>>

SetPruning(c) ==
  /\ "setting" \in Faults
  /\ pruning' = IF c \in pruning THEN pruning \ {c} ELSE pruning \cup {c}
  /\ UNCHANGED <<now, known, video, event, flags, late, prune>>

DeleteCamera(c) ==
  /\ "delete" \in Faults /\ c \in known
  /\ known' = known \ {c}
  /\ event' = [event EXCEPT ![c] = None]
  /\ UNCHANGED <<now, pruning, video, flags, late, prune>>

-----------------------------------------------------------------------------
(* The queries of the loop.                                                *)

\* query_blocks: runs of video without a gap longer than Gap, oldest first.
Starts(V) == {t \in V : \A v \in V : v < t => t - v > Gap}

BlockFrom(V, s) ==
  <<s, Max({v \in V : v >= s /\ ~\E t \in Starts(V) : s < t /\ t <= v})>>

Nth(S, i) == CHOOSE x \in S : Cardinality({y \in S : y < x}) = i - 1

Blocks(V) == [i \in 1 .. Cardinality(Starts(V)) |-> BlockFrom(V, Nth(Starts(V), i))]

\* The elements of the motion file of c.
Elements(c) ==
  [i \in Indexes |-> IF \E t \in flags[c] : t > now - N /\ t % N = i THEN 1 ELSE 0]

\* The query reads the clock after the loop did, which found its end to be past.
Accepted(from, to) == QueryAccepted(At(now, 999), from, to)

\* The motion around a block is asked for without the overlap.
MutantMotionIn(c, from, to) ==
  LET start == At(from.sec + Overlap, from.ms)
      end == At(to.sec - Overlap, to.ms)
  IN  IF c \in known /\ Accepted(start, end) THEN QueryResult(Elements(c), start, end) ELSE {}

\* query_get_motion_events: an exception is logged and leaves the answer empty.
MotionIn(c, from, to) ==
  IF c \in known /\ Accepted(from, to) THEN QueryResult(Elements(c), from, to) ELSE {}

-----------------------------------------------------------------------------
(* The loop.                                                               *)

Rotate(s) == IF s = <<>> THEN s ELSE Append(Tail(s), Head(s))

\* Every camera of the list is cached.
MutantUpdated(s) ==
  s \o SetToSeq({c \in known : c \notin ToSet(s)})

\* _update_cameras: cameras enter the cache and never leave it.
Updated(s) ==
  s \o SetToSeq({c \in known : c \in pruning /\ c \notin ToSet(s)})

\* The turn begins: one look at the clock and, when due, at the camera list.
Wakes ==
  /\ pc = "sleep"
  /\ tnow' = now
  /\ IF now - lastFetch > FetchEvery
     THEN lastFetch' = now /\ cache' = Updated(cache)
     ELSE UNCHANGED <<lastFetch, cache>>
  /\ pc' = IF cache' = <<>> THEN "sleep" ELSE "work"
  /\ UNCHANGED <<world, video, ps>>

\* A snapshot of the blocks of the front camera.  For a camera that is gone
\* the query throws: the loop goes back to sleep and the cache stays as it is.
TakeBlocks ==
  /\ pc = "work" /\ ps = NoPs
  /\ pc' = "sleep"
  /\ LET c == Head(cache)
         blocks == Blocks(video[c])
     IN  IF c \notin known THEN UNCHANGED <<cache, ps>>
         ELSE IF blocks = <<>> THEN cache' = Rotate(cache) /\ UNCHANGED ps
         ELSE /\ ps' = [cam |-> c, blocks |-> blocks, bi |-> 1, answered |-> FALSE]
              /\ UNCHANGED cache
  /\ UNCHANGED <<world, video, lastFetch, tnow>>

Start == ps.blocks[ps.bi][1]
End == ps.blocks[ps.bi][2]

\* block_end + 30 seconds against the time of the turn: within a second both occur.
TooRecent == End + Overlap >= tnow
OldEnough == End + Overlap <= tnow

SkipRecent ==
  /\ pc = "work" /\ ps # NoPs /\ TooRecent
  /\ cache' = Rotate(cache) /\ ps' = NoPs /\ pc' = "sleep"
  /\ UNCHANGED <<world, video, lastFetch, tnow>>

\* The query is one the motion file answers: it was allocated before the time
\* the query starts from, and its ring still reaches back to it.
Answerable(from, to) == ps.cam \in known /\ from.sec >= 0 /\ Accepted(from, to)

\* The query for the motion around the block.
AskMotion(from, to) ==
  /\ pc' = IF MotionIn(ps.cam, from, to) = {} THEN "remove" ELSE "advance"
  /\ ps' = [ps EXCEPT !.answered = Answerable(from, to)]

Judge ==
  /\ pc = "work" /\ ps # NoPs /\ OldEnough
  /\ \/ \E f \in Fractions, g \in Fractions :
          AskMotion(At(Start - Overlap, f), At(End + Overlap, g))
     \/ /\ "query" \in Faults
        /\ pc' = "remove"
        /\ ps' = [ps EXCEPT !.answered = FALSE]
  /\ UNCHANGED <<world, video, cache, lastFetch, tnow>>

\* query_remove_blocks; when it throws the same block is judged again.
RemoveBlock ==
  /\ pc = "remove"
  /\ IF ps.cam \in known
     THEN /\ video' = [video EXCEPT ![ps.cam] = {t \in @ : ~(Start <= t /\ t <= End)}]
          /\ pc' = "advance"
     ELSE /\ UNCHANGED video
          /\ pc' = "sleep"
  /\ UNCHANGED <<world, cache, lastFetch, ps, tnow>>

\* The limit of the snapshot ignored.
MutantDone == Start > tnow - Keep

Done == ps.bi + 1 > Len(ps.blocks) \/ Start > tnow - Keep

Advance ==
  /\ pc = "advance" /\ pc' = "sleep"
  /\ IF Done THEN cache' = Rotate(cache) /\ ps' = NoPs
     ELSE ps' = [ps EXCEPT !.bi = @ + 1] /\ UNCHANGED cache
  /\ UNCHANGED <<world, video, lastFetch, tnow>>

Loop == Wakes \/ TakeBlocks \/ SkipRecent \/ Judge \/ RemoveBlock \/ Advance

Next ==
  \/ Tick
  \/ \E c \in Cameras : \/ EventBegins(c) \/ EventEnds(c) \/ EventLost(c)
                        \/ SetPruning(c) \/ DeleteCamera(c)
  \/ Loop

Spec == Init /\ [][Next]_vars

\* The thread sleeps for a second between turns and is never blocked.
FairSpec == Spec /\ WF_vars(Loop)

-----------------------------------------------------------------------------
(* Properties                                                              *)

\* Type correctness; the index stays inside the snapshot, and the camera it is
\* for is the one at the front of the cache.
TypeOK ==
  /\ now \in 0 .. MaxNow /\ tnow \in 0 .. now /\ lastFetch \in 0 .. now
  /\ known \subseteq Cameras /\ pruning \subseteq Cameras
  /\ \A c \in Cameras : /\ video[c] \subseteq 0 .. now /\ flags[c] \subseteq 0 .. now
                        /\ late[c] \subseteq flags[c]
                        /\ event[c] \in 0 .. now \cup {None}
  /\ ToSet(cache) \subseteq Cameras /\ IsInjective(cache)
  /\ pc \in {"sleep", "work", "remove", "advance"}
  /\ ps # NoPs => ps.bi \in DOMAIN ps.blocks /\ ps.cam = Head(cache)
  /\ pc \in {"remove", "advance"} => ps # NoPs

Moving(c) == flags[c] \cup (IF event[c] = None THEN {} ELSE event[c] .. now)

\* Motion that is not in the ring Overlap seconds after its event began, or was not.
LateMotion(c) ==
  late[c] \cup (IF event[c] = None THEN {} ELSE Late(c, event[c] .. now))

\* Pruning removes no video with motion: "If there are no motions, issue delete
\* for the block".  The ring hears of an event only at its end, and the loop waits
\* Overlap seconds for it.  So it holds, when the query for the block was answered,
\* for motion that was in the ring that soon, although the judgement is of a
\* snapshot, the ring is written behind the loop's back, the query may miss its last
\* second and anything else may fail or change; of motion that is later the video
\* may go.
OnlyStillVideoRemoved ==
  [][\A c \in Cameras :
       ((video[c] \ video'[c]) \cap Moving(c)) \ LateMotion(c) # {} => ~ps.answered]_vars

\* The comment without the exception, which long events do not keep.
NoMotionRemoved ==
  [][\A c \in Cameras :
       (video[c] \ video'[c]) \cap Moving(c) # {} => ~ps.answered]_vars

\* Whatever fails or changes, the latest Overlap seconds are never removed, and a
\* camera whose pruning is off and was off whenever the list was looked at keeps
\* all its video.
ProtectedVideoStays ==
  [][\A c \in Cameras :
       /\ \A t \in video[c] \ video'[c] : t + Overlap <= now
       /\ video[c] \ video'[c] # {} => c \in ToSet(cache)
       /\ c \in ToSet(cache') \ ToSet(cache) => c \in (pruning \cap known)]_vars

\* Every cached camera has its turn again and again.
EveryCameraHasItsTurn ==
  \A c \in Cameras :
    [](c \in ToSet(cache) => <>(pc = "work" /\ ps = NoPs /\ Head(cache) = c))

\* r_prune.cpp: only a block that is not in the last Keep hours is removed.
ContinuousWindowKept ==
  [][video' # video /\ pc = "remove" => Start <= tnow - Keep]_vars
=============================================================================
