------------------------------ MODULE MotionRing ------------------------------
(***************************************************************************)
(* A camera's motion file as its users see it over time: the motion engine *)
(* writes, the ring is reopened when the engine recreates the camera's     *)
(* work context or the program restarts, the file survives, and pruning    *)
(* and the timeline query it through a ring object of their own.           *)
(*                                                                         *)
(* The engine writes 0 for a key frame outside events and, when an event   *)
(* ends, 1 for every second from the frame that triggered the event.       *)
(* Frames are late but in order: a write is never ahead of the clock and   *)
(* never before an earlier one.  Order matters: after a step back write    *)
(* would fill forward from a second that lies before motion it stored.     *)
(* Unlike write, write_range fills no gap: a range may begin long after    *)
(* the last write, since the engine writes no zeros in its first minute.   *)
(* MotionEngine is shown to use its files as this module says.             *)
(***************************************************************************)
EXTENDS RingFile

CONSTANTS
  MaxNow,     \* bound on the clock
  Fractions   \* milliseconds into a second at which queries are made, start and end

ASSUME MaxNowAssumption == MaxNow \in Nat
ASSUME FractionsAssumption == Fractions \subseteq 0 .. 999

VARIABLES
  now,         \* the clock, in seconds since the file was created
  cells,       \* the elements in the file
  last,        \* _last_write_idx of the engine's ring object
  latest,      \* the latest second any ring object wrote, None before
  motion,      \* seconds last written as motion (1)
  covered      \* seconds a ring object wrote, or passed from one write to the next

vars == <<now, cells, last, latest, motion, covered>>

Init ==
  /\ now = 0
  /\ cells = [i \in Indexes |-> 0]
  /\ last = None /\ latest = None
  /\ motion = {} /\ covered = {}

Tick == now < MaxNow /\ now' = now + 1 /\ UNCHANGED <<cells, last, latest, motion, covered>>

\* Timestamps the next frame may carry.
FrameTimes == {t \in 0 .. now : t >= latest}

\* The seconds write(t) accounts for: its own and those since the last write.
Passed(t) == {t} \cup IF last = None THEN {} ELSE last + 1 .. t

\* write, for a key frame outside events with timestamp t.
Write(t) ==
  /\ cells' = AfterWrite(cells, last, t, 0)
  /\ last' = t
  /\ latest' = t
  /\ motion' = motion \ {t}
  /\ covered' = covered \cup Passed(t)
  /\ UNCHANGED now

\* write_range that remembers the second after the range.
MutantLastPastEnd(s, e) ==
  /\ s <= e
  /\ cells' = AfterWriteRange(cells, s, e, 1)
  /\ last' = e + 1
  /\ latest' = e
  /\ motion' = motion \cup s .. e
  /\ covered' = covered \cup s .. e
  /\ UNCHANGED now

\* write_range, for an event from the trigger frame at s to the frame at e.
WriteRange(s, e) ==
  /\ s <= e
  /\ cells' = AfterWriteRange(cells, s, e, 1)
  /\ last' = e
  /\ latest' = e
  /\ motion' = motion \cup s .. e
  /\ covered' = covered \cup s .. e
  /\ UNCHANGED now

\* A new r_ring over the same file.
Reopen == last' = None /\ UNCHANGED <<now, cells, latest, motion, covered>>

Next ==
  \/ Tick
  \/ \E t \in FrameTimes : Write(t)
  \/ \E e \in FrameTimes, s \in 0 .. now : WriteRange(s, e)
  \/ Reopen

Spec == Init /\ [][Next]_vars

-----------------------------------------------------------------------------
(* Properties                                                              *)

\* Type correctness; a write is never ahead of the clock.
TypeOK ==
  /\ now \in 0 .. MaxNow
  /\ cells \in Cells
  /\ last \in 0 .. now \cup {None}
  /\ latest \in 0 .. now \cup {None}
  /\ motion \subseteq 0 .. now /\ covered \subseteq 0 .. now

\* Motion recorded within the last N seconds is in the file: neither the
\* zeros that fill a gap, nor the wrap of the ring, nor a reopening lose it.
MotionKept ==
  \A t \in motion : t > now - N => cells[t % N] = 1

\* A second that was written, or that lies between two writes of one ring object
\* of which the later is no range, reads as no motion unless it was recorded as
\* motion: what the previous lap left at its index is gone, for good.
NoStaleMotion ==
  \A t \in covered : (t > now - N /\ t \notin motion) => cells[t % N] = 0

\* Every query that is accepted and does not start before the file was created
\* returns all the motion recorded in the whole seconds of its range, counted from
\* the second it starts in: second t when t + 1, as far into the second as the start,
\* is not beyond the end.  Excepted is the first second when it is exactly N seconds
\* old and shares its index with the current second.  What is not promised is the
\* last second of a query that starts later in its second than it ends in its own.
QueriesReturnMotion ==
  \A s \in 0 .. now, e \in 0 .. now, f \in Fractions, g \in Fractions, h \in Fractions :
    QueryAccepted(At(now, h), At(s, f), At(e, g)) =>
      {t \in motion : s <= t /\ ~Before(At(e, g), At(t + 1, f))} \ {now - N}
        \subseteq QueryResult(cells, At(s, f), At(e, g))

\* Every query returns the motion of all seconds that lie in its range.  It does
\* not hold: of [s.900, e.100] the second e - 1 is not read.
LastSecondReturned ==
  \A s \in 0 .. now, e \in 0 .. now, f \in Fractions, g \in Fractions :
    QueryAccepted(At(now, g), At(s, f), At(e, g)) =>
      {t \in motion : s < t /\ t < e} \ {now - N}
        \subseteq QueryResult(cells, At(s, f), At(e, g))
=============================================================================
