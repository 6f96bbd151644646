------------------------- MODULE StorageFile_proofs -------------------------
(***************************************************************************)
(* For every set of raw timestamps and every bound on the frames: the      *)
(* writer's state is well typed, what a session stored lies at or below    *)
(* its frontier, stored timestamps grow strictly, and the writer           *)
(* implements FrameLog.  The inductive invariant is TypeOK together with   *)
(* BelowFrontier and, for Open, ClosedIsEmpty; the two last results are    *)
(* facts about single steps from states that satisfy it.                   *)
(***************************************************************************)
EXTENDS StorageFile, TLAPS

\* A closed recording has no frames of its own.
ClosedIsEmpty == ~open => session = [m \in Media |-> {}]

IInv == TypeOK /\ BelowFrontier /\ ClosedIsEmpty

\* The correction moves the frontier beyond where it was, for every raw
\* timestamp, and never by a negative amount: the core of write_frame.
LEMMA FrontierAdvances ==
  ASSUME TypeOK, NEW m \in Media, NEW ts \in Timestamps
  PROVE  /\ NewCorrection(m, ts) \in Nat
         /\ lastTs[m] # Unset => Frontier(m) < ts + NewCorrection(m, ts)
<1> USE TimestampsAssumption
<1>1. correction[m] \in Nat /\ lastTs[m] \in Timestamps \cup {Unset} /\ ts \in Nat
  BY DEF TypeOK
<1>2. CASE lastTs[m] # Unset /\ ts <= lastTs[m]
  <2>1. lastTs[m] \in Nat
    BY <1>1, <1>2
  <2>2. NewCorrection(m, ts) = correction[m] + (lastTs[m] - ts) + 1
    BY <1>2 DEF NewCorrection
  <2> QED
    BY <1>1, <1>2, <2>1, <2>2 DEF Frontier
<1>3. CASE ~(lastTs[m] # Unset /\ ts <= lastTs[m])
  <2>1. NewCorrection(m, ts) = correction[m]
    BY <1>3 DEF NewCorrection
  <2>2. ASSUME lastTs[m] # Unset
        PROVE  lastTs[m] \in Nat /\ lastTs[m] < ts
    <3>1. lastTs[m] \in Nat
      BY <1>1, <2>2
    <3>2. ~(ts <= lastTs[m])
      BY <1>3, <2>2
    <3> QED
      BY <1>1, <3>1, <3>2
  <2> QED
    BY <1>1, <2>1, <2>2 DEF Frontier
<1> QED
  BY <1>2, <1>3

\* A frame that is stored lands beyond everything its session stored.
LEMMA FrameLandsBeyond ==
  ASSUME IInv, NEW m \in Media, NEW ts \in Timestamps, NEW g \in session[m]
  PROVE  g.ts \in Int /\ g.ts < ts + NewCorrection(m, ts)
<1>1. g.ts \in Int /\ lastTs[m] # Unset /\ g.ts <= Frontier(m)
  BY DEF IInv, TypeOK, BelowFrontier, Frames
<1>2. /\ NewCorrection(m, ts) \in Nat
      /\ Frontier(m) < ts + NewCorrection(m, ts)
  BY <1>1, FrontierAdvances DEF IInv
<1>3. Frontier(m) \in Int /\ ts \in Int
  <2>1. lastTs[m] \in Timestamps \cup {Unset} /\ correction[m] \in Nat
    BY DEF IInv, TypeOK
  <2> QED
    BY <2>1, TimestampsAssumption DEF Frontier, Unset
<1> QED
  BY <1>1, <1>2, <1>3

LEMMA InitInv == Init => IInv
<1> SUFFICES ASSUME Init
             PROVE  IInv
  OBVIOUS
<1>1. TypeOK
  <2>1. 0 \in 0 .. MaxFrames
    BY MaxFramesAssumption
  <2> QED
    BY <2>1 DEF Init, TypeOK
<1> QED
  BY <1>1 DEF Init, IInv, BelowFrontier, ClosedIsEmpty

\* write_frame preserves the invariant, whether nanots stores or throws.
LEMMA WriteFrameInv ==
  ASSUME IInv, NEW m \in Media, NEW ts \in Timestamps, WriteFrame(m, ts)
  PROVE  IInv'
<1> USE TimestampsAssumption, MaxFramesAssumption
<1> DEFINE f == [ts |-> ts + NewCorrection(m, ts), no |-> offered[m]]
<1>1. TypeOK
  BY DEF IInv
<1>2. ts \in Nat /\ NewCorrection(m, ts) \in Nat
  BY <1>1, FrontierAdvances
<1>3. session' \in [Media -> SUBSET Frames]
  <2>1. f \in Frames
    BY <1>1, <1>2 DEF TypeOK, Frames
  <2>2. CASE session' = [session EXCEPT ![m] = @ \cup {f}]
    BY <1>1, <2>1, <2>2 DEF TypeOK
  <2>3. CASE session' = session
    BY <1>1, <2>3 DEF TypeOK
  <2> QED
    BY <2>2, <2>3 DEF WriteFrame, NanotsWrite
<1>4. TypeOK'
  <2>1. lastTs' \in [Media -> Timestamps \cup {Unset}]
    BY <1>1 DEF WriteFrame, TypeOK
  <2>2. correction' \in [Media -> Nat]
    BY <1>1, <1>2 DEF WriteFrame, TypeOK
  <2>3. offered' \in [Media -> 0 .. MaxFrames]
    BY <1>1 DEF WriteFrame, TypeOK
  <2> QED
    BY <1>1, <1>3, <2>1, <2>2, <2>3 DEF WriteFrame, TypeOK
<1>5. BelowFrontier'
  <2> SUFFICES ASSUME NEW n \in Media, NEW g \in session'[n]
               PROVE  lastTs'[n] # Unset /\ g.ts <= lastTs'[n] + correction'[n]
    BY DEF BelowFrontier, Frontier
  <2>1. CASE n # m
    <3>1. /\ session'[n] = session[n]
          /\ lastTs'[n] = lastTs[n]
          /\ correction'[n] = correction[n]
      BY <1>1, <2>1 DEF WriteFrame, NanotsWrite, TypeOK
    <3> QED
      BY <3>1 DEF IInv, BelowFrontier, Frontier
  <2>2. CASE n = m
    <3>1. lastTs'[m] = ts /\ correction'[m] = NewCorrection(m, ts)
      BY <1>1 DEF WriteFrame, TypeOK
    <3>2. g \in session[m] \/ g = f
      BY <1>1, <2>2 DEF WriteFrame, NanotsWrite, TypeOK
    <3>3. g \in session[m] => g.ts \in Int /\ g.ts < ts + NewCorrection(m, ts)
      BY FrameLandsBeyond
    <3> QED
      BY <1>2, <2>2, <3>1, <3>2, <3>3 DEF Unset
  <2> QED
    BY <2>1, <2>2
<1> QED
  BY <1>4, <1>5 DEF IInv, ClosedIsEmpty, WriteFrame

\* Freeing blocks of either stream, or of both, preserves the invariant.
LEMMA RemoveBlocksInv ==
  ASSUME IInv, NEW from, NEW to, RemoveBlocks(from, to)
  PROVE  IInv'
<1>1. PICK done \in SUBSET Media :
        /\ session' = [m \in Media |-> IF m \in done
                                       THEN NanotsFree(session[m], from, to)
                                       ELSE session[m]]
        /\ UNCHANGED <<open, ctx, lastTs, correction, offered>>
  BY DEF RemoveBlocks
<1>2. \A m \in Media : session'[m] \subseteq session[m]
  BY <1>1 DEF NanotsFree
<1>3. session' \in [Media -> SUBSET Frames]
  BY <1>1 DEF IInv, TypeOK, NanotsFree
<1>4. BelowFrontier' /\ ClosedIsEmpty'
  BY <1>1, <1>2 DEF IInv, BelowFrontier, Frontier, ClosedIsEmpty, NanotsFree
<1> QED
  BY <1>1, <1>3, <1>4 DEF IInv, TypeOK

LEMMA NextInv == IInv /\ [Next]_vars => IInv'
<1> SUFFICES ASSUME IInv, [Next]_vars
             PROVE  IInv'
  OBVIOUS
<1> USE MaxFramesAssumption
<1>1. CASE Open
  <2>1. session' = [m \in Media |-> {}]
    BY <1>1 DEF Open, IInv, ClosedIsEmpty
  <2> QED
    BY <1>1, <2>1 DEF Open, IInv, TypeOK, BelowFrontier, ClosedIsEmpty
<1>2. CASE Close
  BY <1>2 DEF Close, IInv, TypeOK, BelowFrontier, ClosedIsEmpty
<1>3. ASSUME NEW m \in Media, CreateWriteContext(m)
      PROVE  IInv'
  BY <1>3 DEF CreateWriteContext, IInv, TypeOK, BelowFrontier, Frontier,
                 ClosedIsEmpty
<1>4. ASSUME NEW m \in Media, NEW ts \in Timestamps, WriteFrame(m, ts)
      PROVE  IInv'
  BY <1>4, WriteFrameInv
<1>5. ASSUME NEW from \in Timestamps, NEW to \in Timestamps, RemoveBlocks(from, to)
      PROVE  IInv'
  BY <1>5, RemoveBlocksInv
<1>6. CASE UNCHANGED vars
  BY <1>6 DEF vars, IInv, TypeOK, BelowFrontier, Frontier, ClosedIsEmpty
<1> QED
  BY <1>1, <1>2, <1>3, <1>4, <1>5, <1>6 DEF Next

-----------------------------------------------------------------------------
\* Type correctness of the writer: in particular a correction is never negative.
THEOREM TypeCorrect == Spec => []TypeOK
<1> QED
  BY InitInv, NextInv, PTL DEF Spec, IInv

\* What a session stored lies at or below its corrected last timestamp,
\* whichever writes nanots refused.
THEOREM StoredBelowFrontier == Spec => []BelowFrontier
<1> QED
  BY InitInv, NextInv, PTL DEF Spec, IInv

\* What a step may add to a session: nothing, or one frame of one stream
\* beyond everything of that stream.
LEMMA StepAppendsOrFrees ==
  ASSUME IInv, [Next]_vars
  PROVE  \/ Log!Free
         \/ \E m \in Media, f \in Frames :
              /\ session' = [session EXCEPT ![m] = @ \cup {f}]
              /\ \A g \in session[m] : g.ts < f.ts
<1> USE DEF Log!Free, Log!Frames, Frames
<1>0. session' \in [Media -> SUBSET Frames]
  BY NextInv DEF IInv, TypeOK
<1>1. ASSUME NEW m \in Media, NEW ts \in Timestamps, WriteFrame(m, ts),
             session' # session
      PROVE  \E n \in Media, f \in Frames :
               /\ session' = [session EXCEPT ![n] = @ \cup {f}]
               /\ \A g \in session[n] : g.ts < f.ts
  <2> DEFINE f == [ts |-> ts + NewCorrection(m, ts), no |-> offered[m]]
  <2>1. session' = [session EXCEPT ![m] = @ \cup {f}]
    BY <1>1 DEF WriteFrame, NanotsWrite
  <2>2. f \in Frames
    BY FrontierAdvances, TimestampsAssumption DEF IInv, TypeOK, Frames
  <2>3. \A g \in session[m] : g.ts < f.ts
    BY FrameLandsBeyond
  <2> QED
    BY <2>1, <2>2, <2>3
<1>2. ASSUME NEW from, NEW to, RemoveBlocks(from, to)
      PROVE  Log!Free
  <2>1. \A m \in Media : session'[m] \subseteq session[m]
    BY <1>2 DEF RemoveBlocks, NanotsFree
  <2> QED
    BY <1>0, <2>1
<1>3. CASE Close
  BY <1>0, <1>3 DEF Close
<1>4. CASE session' = session
  BY <1>0, <1>4
<1> QED
  BY <1>1, <1>2, <1>3, <1>4 DEF Next, Open, CreateWriteContext, vars

\* write_frame stores beyond everything the session stored in that stream,
\* for every sequence of raw timestamps and of failed writes.
THEOREM FramesGrow == Spec => StrictlyGrowing
<1>1. ASSUME IInv, [Next]_vars
      PROVE  \A m \in Media : \A f \in session'[m] \ session[m] :
               \A g \in session[m] : g.ts < f.ts
  <2>1. CASE Log!Free
    BY <2>1 DEF Log!Free
  <2>2. ASSUME NEW n \in Media, NEW u \in Frames,
               session' = [session EXCEPT ![n] = @ \cup {u}],
               \A g \in session[n] : g.ts < u.ts
        PROVE  \A m \in Media : \A f \in session'[m] \ session[m] :
                 \A g \in session[m] : g.ts < f.ts
    BY <1>1, <2>2 DEF IInv, TypeOK
  <2> QED
    BY <1>1, <2>1, <2>2, StepAppendsOrFrees
<1> QED
  BY <1>1, InitInv, NextInv, PTL DEF Spec, StrictlyGrowing

\* The writer is a correct implementation of the abstract frame log.
THEOREM ImplementsFrameLog == Spec => LogSpec
<1>1. Init => Log!Init
  BY DEF Init, Log!Init
<1>2. ASSUME IInv, [Next]_vars
      PROVE  [Log!Next]_session
  <2>1. ASSUME NEW m \in Media, NEW f \in Frames,
               session' = [session EXCEPT ![m] = @ \cup {f}],
               \A g \in session[m] : g.ts < f.ts
        PROVE  Log!Append(m)
    <3>1. f \in session'[m]
      BY <1>2, <2>1 DEF IInv, TypeOK
    <3> QED
      BY <2>1, <3>1 DEF Log!Append, Log!Frames, Frames
  <2> QED
    BY <1>2, <2>1, StepAppendsOrFrees DEF Log!Next
<1> QED
  BY <1>1, <1>2, InitInv, NextInv, PTL DEF Spec, LogSpec, Log!Spec

=============================================================================
