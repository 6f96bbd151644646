-------------------------- MODULE MotionRing_proofs --------------------------
(***************************************************************************)
(* For every size of the ring and every bound on the clock: motion         *)
(* recorded within the last N seconds stays in the file and is found by    *)
(* every query that is accepted.  The inductive invariant adds to          *)
(* MotionKept that all motion lies at or before the latest write, so that  *)
(* the seconds a write fills in a gap are later than all of it and, being  *)
(* less than N seconds away from what is still of interest, share no       *)
(* index with it (OwnIndex).  The lemmas about a write and a range are     *)
(* cited for the files of the motion engine, too.                          *)
(***************************************************************************)
EXTENDS MotionRing, TLAPS

-----------------------------------------------------------------------------
(* The arithmetic of the file.                                             *)

LEMMA DivMod ==
  ASSUME NEW a \in Int
  PROVE  /\ a % N \in Indexes
         /\ a \div N \in Int
         /\ a = N * (a \div N) + (a % N)
  BY NAssumption, SMT DEF Indexes

LEMMA MultipleIsFar ==
  ASSUME NEW k \in Int, N * k > 0
  PROVE  N * k >= N
<1>1. N \in Int /\ N > 0
  BY NAssumption
<1>2. k >= 1
  BY <1>1, SMT
<1>3. N * k = N * (k - 1) + N
  BY <1>1, SMT
<1>4. N * (k - 1) >= 0
  BY <1>1, <1>2, SMT
<1> QED
  BY <1>1, <1>3, <1>4, SMT

\* Seconds less than N apart have indexes of their own.
LEMMA OwnIndex ==
  ASSUME NEW a \in Int, NEW b \in Int, a < b, b - a < N
  PROVE  a % N # b % N
<1> SUFFICES ASSUME a % N = b % N
             PROVE  FALSE
  OBVIOUS
<1> DEFINE k == (b \div N) - (a \div N)
<1>1. N \in Int /\ k \in Int
  BY NAssumption, DivMod
<1>2. b - a = N * k
  <2>1. N * k = N * (b \div N) - N * (a \div N)
    BY NAssumption, DivMod, SMT
  <2> QED
    BY <2>1, DivMod, NAssumption, SMT DEF Indexes
<1> HIDE DEF k
<1>3. N * k >= N
  BY <1>1, <1>2, MultipleIsFar
<1> QED
  BY <1>1, <1>2, <1>3, NAssumption

-----------------------------------------------------------------------------
\* The motion of the last N seconds is in the file.
Kept(file, moving, time) == \A t \in moving : t > time - N => file[t % N] = 1

LEMMA WriteKeeps ==
  ASSUME NEW time \in Nat, NEW t \in 0 .. time, NEW before \in Int,
         NEW file \in Cells, NEW moving \in SUBSET (0 .. time),
         before # None => before <= t /\ \A u \in moving : u <= before,
         \A u \in moving : u <= t,
         Kept(file, moving, time)
  PROVE  /\ AfterWrite(file, before, t, 0) \in Cells
         /\ Kept(AfterWrite(file, before, t, 0), moving \ {t}, time)
<1> DEFINE after == AfterWrite(file, before, t, 0)
<1>1. after \in Cells
  BY DEF AfterWrite, Cells, Flags
<1>2. ASSUME NEW u \in moving \ {t}, u > time - N
      PROVE  after[u % N] = 1
  <2>1. u \in Int /\ u < t /\ t - u < N /\ u % N \in Indexes
    BY <1>2, NAssumption, DivMod
  <2>2. u % N # t % N
    BY <2>1, OwnIndex
  <2>3. ASSUME NEW s \in GapFilled(before, t)
        PROVE  s % N # u % N
    <3>1. before # None /\ s \in before + 1 .. t - 1 /\ u <= before
      BY <1>2, <2>3 DEF GapFilled
    <3>2. s \in Int /\ u < s /\ s - u < N
      BY <1>2, <2>1, <3>1, NAssumption
    <3> QED
      BY <2>1, <3>2, OwnIndex
  <2>4. after[u % N] = file[u % N]
    BY <2>1, <2>2, <2>3 DEF AfterWrite
  <2> QED
    BY <1>2, <2>4 DEF Kept
<1> QED
  BY <1>1, <1>2 DEF Kept

LEMMA RangeKeeps ==
  ASSUME NEW time \in Nat, NEW s \in Int, NEW e \in Int,
         NEW file \in Cells, NEW moving \in SUBSET (0 .. time),
         Kept(file, moving, time)
  PROVE  /\ AfterWriteRange(file, s, e, 1) \in Cells
         /\ Kept(AfterWriteRange(file, s, e, 1), moving \cup s .. e, time)
<1> DEFINE after == AfterWriteRange(file, s, e, 1)
<1>1. after \in Cells
  BY DEF AfterWriteRange, Cells, Flags
<1>2. ASSUME NEW u \in moving \cup s .. e, u > time - N
      PROVE  after[u % N] = 1
  <2>1. u % N \in Indexes
    BY DivMod
  <2>2. after[u % N] = IF \E t \in s .. e : t % N = u % N THEN 1 ELSE file[u % N]
    BY <2>1 DEF AfterWriteRange
  <2>3. u \in moving => file[u % N] = 1
    BY <1>2 DEF Kept
  <2> QED
    BY <2>2, <2>3
<1> QED
  BY <1>1, <1>2 DEF Kept

-----------------------------------------------------------------------------
(* The ring over time.                                                     *)

\* All the motion on record lies at or before the latest write, and a ring
\* object that has written made that write.
MotionBehindLast ==
  /\ last \in {latest, None}
  /\ \A t \in motion : t <= latest

IInv == TypeOK /\ MotionKept /\ MotionBehindLast

LEMMA InitInv == Init => IInv
<1> SUFFICES ASSUME Init
             PROVE  IInv
  OBVIOUS
<1>1. 0 \in 0 .. MaxNow
  BY MaxNowAssumption
<1> QED
  BY <1>1 DEF Init, IInv, TypeOK, Cells, Flags, MotionKept, MotionBehindLast

LEMMA WriteInv ==
  ASSUME IInv, NEW t \in FrameTimes, Write(t)
  PROVE  IInv'
<1>1. /\ now \in Nat /\ t \in 0 .. now /\ t >= latest /\ latest \in Int
      /\ last \in Int /\ motion \in SUBSET (0 .. now) /\ cells \in Cells
      /\ last # None => last = latest
      /\ \A u \in motion : u <= latest
      /\ now' = now /\ last' = t /\ latest' = t /\ motion' = motion \ {t}
      /\ cells' = AfterWrite(cells, last, t, 0)
  BY DEF FrameTimes, Write, IInv, TypeOK, MotionBehindLast, None
<1>2. last # None => last <= t /\ \A u \in motion : u <= last
  BY <1>1
<1>3. \A u \in motion : u <= t
  BY <1>1
<1>4. cells' \in Cells /\ Kept(cells', motion', now)
  BY <1>1, <1>2, <1>3, WriteKeeps DEF IInv, MotionKept, Kept
<1>5. Passed(t) \subseteq 0 .. now
  BY <1>1 DEF Passed, IInv, TypeOK, None
<1>6. TypeOK'
  BY <1>1, <1>4, <1>5 DEF Write, IInv, TypeOK
<1> QED
  BY <1>1, <1>3, <1>4, <1>6 DEF IInv, MotionKept, Kept, MotionBehindLast

LEMMA WriteRangeInv ==
  ASSUME IInv, NEW e \in FrameTimes, NEW s \in 0 .. now, WriteRange(s, e)
  PROVE  IInv'
<1>1. /\ now \in Nat /\ e \in 0 .. now /\ e >= latest /\ latest \in Int
      /\ motion \in SUBSET (0 .. now) /\ cells \in Cells
      /\ \A u \in motion : u <= latest
      /\ now' = now /\ last' = e /\ latest' = e /\ motion' = motion \cup s .. e
      /\ cells' = AfterWriteRange(cells, s, e, 1)
  BY DEF FrameTimes, WriteRange, IInv, TypeOK, MotionBehindLast, None
<1>2. s .. e \subseteq 0 .. now /\ \A u \in motion' : u <= e
  BY <1>1
<1>3. cells' \in Cells /\ Kept(cells', motion', now)
  BY <1>1, RangeKeeps DEF IInv, MotionKept, Kept
<1>4. TypeOK'
  BY <1>1, <1>2, <1>3 DEF WriteRange, IInv, TypeOK
<1> QED
  BY <1>1, <1>2, <1>3, <1>4 DEF IInv, MotionKept, Kept, MotionBehindLast

LEMMA NextInv == IInv /\ [Next]_vars => IInv'
<1> SUFFICES ASSUME IInv, [Next]_vars
             PROVE  IInv'
  OBVIOUS
<1>1. CASE Tick
  <2>1. now' \in 0 .. MaxNow /\ now' = now + 1 /\ 0 .. now \subseteq 0 .. now'
    BY <1>1, MaxNowAssumption DEF Tick, IInv, TypeOK
  <2>2. TypeOK'
    BY <1>1, <2>1 DEF Tick, IInv, TypeOK
  <2>3. MotionKept'
    BY <1>1, NAssumption DEF Tick, IInv, TypeOK, MotionKept
  <2> QED
    BY <1>1, <2>2, <2>3 DEF Tick, IInv, MotionBehindLast
<1>2. ASSUME NEW t \in FrameTimes, Write(t)
      PROVE  IInv'
  BY <1>2, WriteInv
<1>3. ASSUME NEW e \in FrameTimes, NEW s \in 0 .. now, WriteRange(s, e)
      PROVE  IInv'
  BY <1>3, WriteRangeInv
<1>4. CASE Reopen
  BY <1>4 DEF Reopen, IInv, TypeOK, MotionKept, MotionBehindLast
<1>5. CASE UNCHANGED vars
  BY <1>5 DEF vars, IInv, TypeOK, MotionKept, MotionBehindLast
<1> QED
  BY <1>1, <1>2, <1>3, <1>4, <1>5 DEF Next

-----------------------------------------------------------------------------
\* Motion recorded within the last N seconds is in the file, for every ring
\* size, every gap between writes and every reopening.
THEOREM RecordedMotionIsKept == Spec => []MotionKept
<1> QED
  BY InitInv, NextInv, PTL DEF Spec, IInv

\* An accepted query returns all motion of the whole seconds of its range that are
\* younger than N seconds, wherever in its second it starts and ends: the promise
\* that the pruning and the timeline rely on.
THEOREM QueriesFindMotion == Spec => []QueriesReturnMotion
<1>1. IInv => QueriesReturnMotion
  <2> SUFFICES ASSUME IInv, NEW s \in 0 .. now, NEW e \in 0 .. now,
                      NEW f \in Fractions, NEW g \in Fractions, NEW h \in Fractions,
                      QueryAccepted(At(now, h), At(s, f), At(e, g)),
                      NEW t \in motion, s <= t, ~Before(At(e, g), At(t + 1, f)), t # now - N
               PROVE  t \in QueryResult(cells, At(s, f), At(e, g))
    BY DEF QueriesReturnMotion
  <2>1. /\ now \in Nat /\ s \in Nat /\ e \in Nat /\ t \in Nat /\ N \in Nat
        /\ f \in Nat /\ g \in Nat
    BY NAssumption, MaxNowAssumption, FractionsAssumption DEF IInv, TypeOK
  <2>2. t > now - N
    BY <2>1 DEF QueryAccepted, At
  <2>3. t \in s .. s + ElementsRead(At(s, f), At(e, g)) - 1
    BY <2>1 DEF ElementsRead, Before, At
  <2>4. ReadIndex(At(s, f), t) = t % N
    <3>1. SinceCreation(At(s, f)) = s /\ ~(s < 0) /\ s + (t - s) = t
      BY <2>1 DEF SinceCreation, At
    <3> QED
      BY <3>1 DEF ReadIndex, At
  <2>5. cells[t % N] = 1
    BY <2>2 DEF IInv, MotionKept
  <2> QED
    BY <2>3, <2>4, <2>5 DEF QueryResult, At
<1> QED
  BY <1>1, InitInv, NextInv, PTL DEF Spec

\* Every state of the ring has its type, and no write is ahead of the clock.
THEOREM TypeCorrect == Spec => []TypeOK
<1> QED
  BY InitInv, NextInv, PTL DEF Spec, IInv

-----------------------------------------------------------------------------
(* The seconds without motion.                                             *)

\* Nothing after the latest write is accounted for.
CoveredBehindLatest == \A t \in covered : t <= latest

SInv == NoStaleMotion /\ CoveredBehindLatest

\* A write zeroes the gap up to its second and sets no element to 1.
LEMMA WriteLeavesNothingStale ==
  ASSUME IInv, SInv, NEW t \in FrameTimes, Write(t)
  PROVE  SInv'
<1>1. /\ now \in Nat /\ now' = now /\ t \in 0 .. now
      /\ t >= latest /\ latest \in Int /\ latest' = t
      /\ last \in {latest, None} /\ last \in Int
      /\ covered \subseteq 0 .. now /\ covered' = covered \cup Passed(t)
  BY DEF FrameTimes, IInv, TypeOK, MotionBehindLast, None, Write
<1>2. \A u \in Passed(t) : u \in Int /\ u <= t
  BY <1>1 DEF Passed
<1>3. CoveredBehindLatest'
  <2>1. ASSUME NEW u \in covered
        PROVE  u <= t
    BY <1>1, <2>1 DEF SInv, CoveredBehindLatest
  <2> QED
    BY <1>1, <1>2, <2>1 DEF CoveredBehindLatest
<1>4. ASSUME NEW u \in covered', u > now - N, u \notin motion'
      PROVE  cells'[u % N] = 0
  <2>1. u \in Int /\ u % N \in Indexes
    BY <1>1, <1>2, DivMod
  <2>2. cells'[u % N] = IF u % N = t % N THEN 0
                        ELSE IF \E s \in GapFilled(last, t) : s % N = u % N THEN 0
                             ELSE cells[u % N]
    BY <2>1 DEF Write, AfterWrite
  <2>3. CASE u = t
    BY <2>2, <2>3
  <2>4. CASE u \in covered /\ u # t
    <3>1. u \notin motion
      BY <1>4, <2>4 DEF Write
    <3>2. cells[u % N] = 0
      BY <1>4, <2>4, <3>1 DEF SInv, NoStaleMotion
    <3> QED
      BY <2>2, <3>2
  <2>5. CASE u \in Passed(t) /\ u # t
    <3>1. last # None /\ u \in last + 1 .. t - 1 /\ t >= last
      BY <1>1, <2>5 DEF Passed
    <3>2. u \in GapFilled(last, t)
      BY <1>1, <3>1 DEF GapFilled
    <3> QED
      BY <2>2, <3>2
  <2> QED
    BY <1>1, <2>3, <2>4, <2>5
<1>5. NoStaleMotion'
  BY <1>1, <1>4 DEF NoStaleMotion
<1> QED
  BY <1>3, <1>5 DEF SInv

\* The seconds of a range share no index with an earlier one a query can reach.
LEMMA WriteRangeLeavesNothingStale ==
  ASSUME IInv, SInv, NEW e \in FrameTimes, NEW s \in 0 .. now, WriteRange(s, e)
  PROVE  SInv'
<1>1. /\ now \in Nat /\ now' = now /\ e \in 0 .. now /\ s \in 0 .. now /\ s <= e
      /\ e >= latest /\ latest \in Int /\ latest' = e
      /\ covered \subseteq 0 .. now /\ covered' = covered \cup s .. e
      /\ motion' = motion \cup s .. e
  BY DEF FrameTimes, IInv, TypeOK, None, WriteRange
<1>2. \A u \in covered : u <= e
  BY <1>1 DEF SInv, CoveredBehindLatest
<1>3. CoveredBehindLatest'
  BY <1>1, <1>2 DEF CoveredBehindLatest
<1>4. ASSUME NEW u \in covered', u > now - N, u \notin motion'
      PROVE  cells'[u % N] = 0
  <2>1. u \in covered /\ u < s /\ u \notin motion
    BY <1>1, <1>2, <1>4
  <2>2. u \in Int /\ u % N \in Indexes /\ N \in Nat
    BY <1>1, <2>1, DivMod, NAssumption
  <2>3. cells[u % N] = 0
    BY <1>4, <2>1 DEF SInv, NoStaleMotion
  <2>4. ASSUME NEW t \in s .. e
        PROVE  t % N # u % N
    <3>1. t \in Int /\ u < t /\ t - u < N
      BY <1>1, <1>4, <2>1, <2>2, <2>4
    <3> QED
      BY <2>2, <3>1, OwnIndex
  <2>5. cells'[u % N] = IF \E t \in s .. e : t % N = u % N THEN 1 ELSE cells[u % N]
    BY <2>2 DEF WriteRange, AfterWriteRange
  <2> QED
    BY <2>3, <2>4, <2>5
<1>5. NoStaleMotion'
  BY <1>1, <1>4 DEF NoStaleMotion
<1> QED
  BY <1>3, <1>5 DEF SInv

LEMMA NextLeavesNothingStale == IInv /\ SInv /\ [Next]_vars => SInv'
<1> SUFFICES ASSUME IInv, SInv, [Next]_vars
             PROVE  SInv'
  OBVIOUS
<1>1. CASE Tick
  <2>1. now' = now + 1 /\ now \in Nat /\ N \in Nat /\ covered \subseteq 0 .. now
    BY <1>1, MaxNowAssumption, NAssumption DEF Tick, IInv, TypeOK
  <2>2. ASSUME NEW t \in covered, t > now' - N
        PROVE  t > now - N
    BY <2>1, <2>2
  <2> QED
    BY <1>1, <2>2 DEF Tick, SInv, NoStaleMotion, CoveredBehindLatest
<1>2. CASE Reopen
  BY <1>2 DEF Reopen, SInv, NoStaleMotion, CoveredBehindLatest
<1>3. CASE UNCHANGED vars
  BY <1>3 DEF vars, SInv, NoStaleMotion, CoveredBehindLatest
<1> QED
  BY <1>1, <1>2, <1>3, WriteLeavesNothingStale, WriteRangeLeavesNothingStale DEF Next

\* What the previous lap of the ring left at an index is gone once a write has
\* passed it: a second without motion does not read as motion, also after the
\* ring was reopened.
THEOREM NothingStale == Spec => []NoStaleMotion
<1>1. Init => SInv
  BY DEF Init, SInv, NoStaleMotion, CoveredBehindLatest
<1>2. SInv => NoStaleMotion
  BY DEF SInv
<1> QED
  BY <1>1, <1>2, InitInv, NextInv, NextLeavesNothingStale, PTL DEF Spec
=============================================================================
