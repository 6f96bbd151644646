----------------------------- MODULE StorageFile -----------------------------
(***************************************************************************)
(* r_storage_file: the writer half of a camera's .nts recording.           *)
(*                                                                         *)
(* Cameras restart their clocks, repeat and reorder timestamps; nanots     *)
(* wants them to grow.  write_frame keeps, per stream, the last raw        *)
(* timestamp it saw and a correction that grows by the size of every       *)
(* backward step; what it stores is raw + correction.  The correction is   *)
(* updated before nanots is asked to write and stays updated when nanots   *)
(* throws, it never shrinks, it is kept separately for video and audio,    *)
(* and it is lost with the r_storage_file object.                          *)
(*                                                                         *)
(* nanots itself is not part of the repository: NanotsWrite and            *)
(* NanotsFree say what the code relies on.                                 *)
(***************************************************************************)
EXTENDS Integers

CONSTANTS
  Timestamps,   \* raw timestamps (ms since the epoch) a camera may deliver
  MaxFrames     \* bound: frames offered to one stream in one session

ASSUME TimestampsAssumption == Timestamps \subseteq Nat
ASSUME MaxFramesAssumption == MaxFrames \in Nat

Media == {"video", "audio"}

\* A stored frame: its corrected timestamp, and the number of the call that
\* stored it, which tells two frames at one timestamp apart.
Frames == [ts : Int, no : Nat]

Unset == -1     \* _last_video_ts / _last_audio_ts before the first frame

VARIABLES
  open,        \* an r_storage_file exists (a recording context owns it)
  ctx,         \* ctx[m]: create_write_context has been called for m
  lastTs,      \* _last_video_ts, _last_audio_ts
  correction,  \* _video_ts_correction, _audio_ts_correction
  session,     \* session[m]: frames this object stored and nobody freed
  offered      \* offered[m]: frames given to write_frame (bounds the model)

vars == <<open, ctx, lastTs, correction, session, offered>>

Init ==
  /\ open = FALSE
  /\ ctx = [m \in Media |-> FALSE]
  /\ lastTs = [m \in Media |-> Unset]
  /\ correction = [m \in Media |-> 0]
  /\ session = [m \in Media |-> {}]
  /\ offered = [m \in Media |-> 0]

-----------------------------------------------------------------------------
(* Construction, write contexts and destruction.                           *)

Open ==
  /\ ~open
  /\ open' = TRUE
  /\ lastTs' = [m \in Media |-> Unset]
  /\ correction' = [m \in Media |-> 0]
  /\ offered' = [m \in Media |-> 0]
  /\ UNCHANGED <<ctx, session>>

CreateWriteContext(m) ==
  /\ open /\ ~ctx[m]
  /\ ctx' = [ctx EXCEPT ![m] = TRUE]
  /\ UNCHANGED <<open, lastTs, correction, session, offered>>

Close ==
  /\ open
  /\ open' = FALSE
  /\ ctx' = [m \in Media |-> FALSE]
  /\ session' = [m \in Media |-> {}]
  /\ UNCHANGED <<lastTs, correction, offered>>

-----------------------------------------------------------------------------
(* write_frame                                                             *)

\* A repeated timestamp taken for progress.
MutantRepeatIsProgress(m, ts) ==
  IF lastTs[m] # Unset /\ ts < lastTs[m]
  THEN correction[m] + (lastTs[m] - ts) + 1
  ELSE correction[m]

\* The step is corrected, the millisecond that separates the frames forgotten.
MutantNoSeparation(m, ts) ==
  IF lastTs[m] # Unset /\ ts <= lastTs[m]
  THEN correction[m] + (lastTs[m] - ts)
  ELSE correction[m]

\* The step is subtracted the wrong way round.
MutantSwappedStep(m, ts) ==
  IF lastTs[m] # Unset /\ ts <= lastTs[m]
  THEN correction[m] + (ts - lastTs[m]) - 1
  ELSE correction[m]

\* The correction in force after a frame with raw timestamp ts.
NewCorrection(m, ts) ==
  IF lastTs[m] # Unset /\ ts <= lastTs[m]
  THEN correction[m] + (lastTs[m] - ts) + 1
  ELSE correction[m]

\* nanots either stores the frame or throws; a throw leaves it unstored.
NanotsWrite(m, ts) ==
  \/ session' = [session EXCEPT ![m] = @ \cup {[ts |-> ts, no |-> offered[m]]}]
  \/ UNCHANGED session

WriteFrame(m, ts) ==
  /\ open /\ ctx[m]
  /\ offered[m] < MaxFrames
  /\ correction' = [correction EXCEPT ![m] = NewCorrection(m, ts)]
  /\ lastTs' = [lastTs EXCEPT ![m] = ts]
  /\ NanotsWrite(m, ts + NewCorrection(m, ts))
  /\ offered' = [offered EXCEPT ![m] = @ + 1]
  /\ UNCHANGED <<open, ctx>>

-----------------------------------------------------------------------------
(* remove_blocks, called by r_prune on the file of a camera that may be    *)
(* recording: video first, then audio, each in a try block of its own.     *)

NanotsFree(S, from, to) == {f \in S : ~(from <= f.ts /\ f.ts <= to)}

RemoveBlocks(from, to) ==
  \E done \in SUBSET Media :      \* the streams whose free_blocks did not throw
    /\ session' = [m \in Media |-> IF m \in done
                                   THEN NanotsFree(session[m], from, to)
                                   ELSE session[m]]
    /\ UNCHANGED <<open, ctx, lastTs, correction, offered>>

-----------------------------------------------------------------------------
Next ==
  \/ Open
  \/ Close
  \/ \E m \in Media : CreateWriteContext(m)
  \/ \E m \in Media, ts \in Timestamps : WriteFrame(m, ts)
  \/ \E from, to \in Timestamps : RemoveBlocks(from, to)

Spec == Init /\ [][Next]_vars

-----------------------------------------------------------------------------
(* Properties                                                              *)

\* Type correctness; in particular a correction never becomes negative.
TypeOK ==
  /\ open \in BOOLEAN
  /\ ctx \in [Media -> BOOLEAN]
  /\ lastTs \in [Media -> Timestamps \cup {Unset}]
  /\ correction \in [Media -> Nat]
  /\ session \in [Media -> SUBSET Frames]
  /\ offered \in [Media -> 0 .. MaxFrames]

\* The corrected time of the last frame offered to a stream.
Frontier(m) == lastTs[m] + correction[m]

\* Everything the session stored lies at or below the frontier, also when
\* later frames were refused by nanots: it is why the next frame that
\* write_frame stores lands beyond all of them.
BelowFrontier ==
  \A m \in Media : \A f \in session[m] : lastTs[m] # Unset /\ f.ts <= Frontier(m)

\* write_frame never stores a frame at or below a timestamp it stored earlier
\* in the session, whatever the camera's clock does and whichever writes
\* failed in between.
StrictlyGrowing ==
  [][\A m \in Media : \A f \in session'[m] \ session[m] :
        \A g \in session[m] : g.ts < f.ts]_vars

Log == INSTANCE FrameLog WITH log <- session

\* The writer implements the abstract frame log: a write appends one frame at
\* the end of one stream or nothing, and no other operation adds frames.
LogSpec == Log!Spec
=============================================================================
