------------------------------ MODULE FrameLog ------------------------------
(***************************************************************************)
(* What a recording promises its readers, whatever timestamps the camera   *)
(* delivers: within one recording session the frames of each stream are    *)
(* appended at strictly growing timestamps.  A frame may fail to be        *)
(* stored, blocks may be freed at any time, and a restart of the recorder  *)
(* begins a new session.  StorageFile is shown to implement this.          *)
(***************************************************************************)
EXTENDS Integers

CONSTANT Media      \* the streams of a recording file

VARIABLE log        \* log[m]: frames this session stored and nobody freed

\* A frame: the timestamp it is stored at, and a number that tells it from
\* others at the same timestamp.
Frames == [ts : Int, no : Nat]

Init == log = [m \in Media |-> {}]

\* A frame arrives at the end of its stream.
Append(m) ==
  \E f \in log'[m] :
    /\ log' = [log EXCEPT ![m] = @ \cup {f}]
    /\ f \in Frames
    /\ \A g \in log[m] : g.ts < f.ts

\* Retention, or the end of the session, takes frames away.
Free == /\ log' \in [Media -> SUBSET Frames]
        /\ \A m \in Media : log'[m] \subseteq log[m]

Next == Free \/ \E m \in Media : Append(m)

Spec == Init /\ [][Next]_log
=============================================================================
