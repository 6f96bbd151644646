------------------------------- MODULE RingFile -------------------------------
(***************************************************************************)
(* r_ring: one element per second in a file of N elements.  Second t is    *)
(* kept at index t % N, seconds are counted from the creation of the file. *)
(* The object, not the file, knows the second written last, -1 before its  *)
(* first write.                                                            *)
(*                                                                         *)
(* The operators say what a call does to the elements of the file (a       *)
(* function from indexes to motion flags) and what a query returns.        *)
(***************************************************************************)
EXTENDS Integers

CONSTANTS
  N,     \* _n_elements(): seconds the ring holds
  Skew   \* 2^64 % N, what size_t adds to the index of a negative second

ASSUME NAssumption == N \in Nat \ {0}
ASSUME SkewAssumption == Skew \in 0 .. N - 1

None == -1     \* _last_write_idx of a ring object that has not written

Flags == {0, 1}
Indexes == 0 .. N - 1
Cells == [Indexes -> Flags]

\* write stores its second and leaves the gap before it alone.
MutantNoFill(last, t) == {}

\* The fill starts one second early, at the second written last.
MutantFillFromLast(last, t) ==
  IF last = None THEN {} ELSE last .. t - 1

\* The seconds write fills with zeros before it stores second t: as many as
\* lie between the last write and t, counted forward from the last write.
GapFilled(last, t) ==
  IF last = None THEN {}
  ELSE last + 1 .. last + (IF t >= last THEN t - last ELSE last - t) - 1

\* The elements after write(t, v).
AfterWrite(cells, last, t, v) ==
  [i \in Indexes |->
    IF i = t % N THEN v
    ELSE IF \E s \in GapFilled(last, t) : s % N = i THEN 0 ELSE cells[i]]

\* The elements after write_range(s, e, v).
AfterWriteRange(cells, s, e, v) ==
  [i \in Indexes |-> IF \E t \in s .. e : t % N = i THEN v ELSE cells[i]]

\* A point in time: its second and the milliseconds into it.
At(second, ms) == [sec |-> second, ms |-> ms]

Before(a, b) == a.sec < b.sec \/ (a.sec = b.sec /\ a.ms < b.ms)

\* A query that may reach one second further back.
MutantQueryTooOld(time, qs, qe) ==
  Before(qs, qe) /\ qs.sec >= time.sec - N - 1 /\ ~Before(time, qe)

\* query and query_raw throw unless this holds: the age is compared in seconds.
QueryAccepted(time, qs, qe) ==
  Before(qs, qe) /\ qs.sec >= time.sec - N /\ ~Before(time, qe)

\* The elements a query reads, as many as whole seconds fit between its ends:
\* from the second it starts in, but not the last one when it starts later in its
\* second than it ends in its own.
ElementsRead(qs, qe) == qe.sec - qs.sec - (IF qe.ms < qs.ms THEN 1 ELSE 0)

\* Seconds from the creation of the file, a whole second, to qs, truncated.
SinceCreation(qs) == IF qs.sec < 0 /\ qs.ms > 0 THEN qs.sec + 1 ELSE qs.sec

\* The index a query that starts at qs reads for second t.  A query that starts
\* before the file was created has a negative start, converted to size_t, and
\* counts its elements from there.
ReadIndex(qs, t) ==
  LET first == SinceCreation(qs)
  IN  ((IF first < 0 THEN first + Skew ELSE first) + (t - qs.sec)) % N

\* The seconds a query reports as having motion: its caller counts them from the
\* second it starts in.
QueryResult(cells, qs, qe) ==
  {t \in qs.sec .. qs.sec + ElementsRead(qs, qe) - 1 : cells[ReadIndex(qs, t)] = 1}
=============================================================================
