---------------------------- MODULE Streams_proofs ----------------------------
(***************************************************************************)
(* Recordings played back, and the two programs' owners of streams.        *)
(*                                                                         *)
(* Playback, for every recording, range, window and size of the queues: a  *)
(* playback that came to its end has posted all video of its range, and    *)
(* what it posts can be decoded.  A batch is what one query found, in the  *)
(* order of time.  All video of the range before the end of the latest     *)
(* query is posted or in the batch (Served), so that nothing is missing    *)
(* when a frame after the end is met.  A batch begins with a key frame,    *)
(* wherever in the recording its query began, and each other frame of it   *)
(* follows its predecessor in the batch, or just after that was posted     *)
(* (Follows).                                                              *)
(*                                                                         *)
(* StreamKeeper, for any number of cameras: the user interface waits for   *)
(* one command at a time (OneAsked), so that the queue is no longer than   *)
(* the mounts waiting, and one; the mutex is held in the critical section  *)
(* only.                                                                   *)
(*                                                                         *)
(* PipelineHost, for any layout: what the map holds is a pipeline of its   *)
(* slot that nobody destroys (MapOK), since what is destroyed has left the *)
(* map (Leaving), and a pipeline that is created is a new one (InOrder).   *)
(***************************************************************************)
EXTENDS Playback, FiniteSetTheorems, SequenceTheorems, TLAPS

-----------------------------------------------------------------------------
(* Finite ordered sets.                                                    *)

StrictOrder(R, S) ==
  /\ \A x \in S : <<x, x>> \notin R
  /\ \A x, y \in S : x # y => <<x, y>> \in R \/ <<y, x>> \in R
  /\ \A x, y, z \in S : <<x, y>> \in R /\ <<y, z>> \in R => <<x, z>> \in R

Below(R, S, x) == {y \in S : <<y, x>> \in R}

LEMMA BelowGrows ==
  ASSUME NEW S, IsFiniteSet(S), NEW R, StrictOrder(R, S)
  PROVE  /\ \A x \in S : Cardinality(Below(R, S, x)) \in 0 .. Cardinality(S) - 1
         /\ \A x, y \in S : <<x, y>> \in R =>
              Cardinality(Below(R, S, x)) < Cardinality(Below(R, S, y))
<1>1. ASSUME NEW x \in S
      PROVE  /\ IsFiniteSet(Below(R, S, x))
             /\ Cardinality(Below(R, S, x)) \in 0 .. Cardinality(S) - 1
  <2>1. x \notin Below(R, S, x) /\ Below(R, S, x) \in SUBSET S
    BY DEF Below, StrictOrder
  <2>2. /\ IsFiniteSet(Below(R, S, x)) /\ Cardinality(Below(R, S, x)) <= Cardinality(S)
        /\ Cardinality(Below(R, S, x)) # Cardinality(S)
    BY <2>1, FS_Subset
  <2>3. Cardinality(Below(R, S, x)) \in Nat /\ Cardinality(S) \in Nat
    BY <2>2, FS_CardinalityType
  <2> QED
    BY <2>2, <2>3
<1>2. ASSUME NEW x \in S, NEW y \in S, <<x, y>> \in R
      PROVE  Cardinality(Below(R, S, x)) < Cardinality(Below(R, S, y))
  <2>1. /\ Below(R, S, x) \in SUBSET Below(R, S, y)
        /\ x \in Below(R, S, y) /\ x \notin Below(R, S, x)
    BY <1>2 DEF Below, StrictOrder
  <2>2. /\ Cardinality(Below(R, S, x)) # Cardinality(Below(R, S, y))
        /\ Cardinality(Below(R, S, x)) <= Cardinality(Below(R, S, y))
    BY <1>1, <2>1, FS_Subset
  <2>3. Cardinality(Below(R, S, x)) \in Nat /\ Cardinality(Below(R, S, y)) \in Nat
    BY <1>1
  <2> QED
    BY <2>2, <2>3
<1> QED
  BY <1>1, <1>2

\* Every rank is taken, by one element.
LEMMA Ranked ==
  ASSUME NEW S, IsFiniteSet(S), NEW R, StrictOrder(R, S), NEW i \in 1 .. Cardinality(S)
  PROVE  \E x \in S : Cardinality(Below(R, S, x)) = i - 1
<1> DEFINE n == Cardinality(S)
           ranks == 0 .. n - 1
           rank == [x \in S |-> Cardinality(Below(R, S, x))]
<1>1. n \in Nat
  BY FS_CardinalityType
<1>2. rank \in Injection(S, ranks)
  <2>1. rank \in [S -> ranks]
    BY BelowGrows
  <2>2. \A x, y \in S : x # y => rank[x] < rank[y] \/ rank[y] < rank[x]
    BY BelowGrows DEF StrictOrder
  <2>3. \A x \in S : rank[x] \in Int
    BY <2>1
  <2>4. \A x, y \in S : rank[x] = rank[y] => x = y
    BY <2>2, <2>3
  <2> QED
    BY <2>1, <2>4 DEF Injection, IsInjective
<1>3. IsFiniteSet(ranks) /\ Cardinality(ranks) = n
  <2>1. 0 \in Int /\ n - 1 \in Int /\ (IF 0 > n - 1 THEN 0 ELSE (n - 1) - 0 + 1) = n
    BY <1>1
  <2> QED
    BY <2>1, FS_Interval
<1>4. rank \in Surjection(S, ranks)
  BY <1>2, <1>3, FS_Injection
<1>5. \E x \in S : rank[x] = i - 1
  <2> HIDE DEF rank, ranks, n
  <2>1. i - 1 \in ranks
    BY <1>1 DEF ranks, n
  <2> QED
    BY <1>4, <2>1 DEF Surjection
<1> QED
  BY <1>5

\* The last element.
LEMMA LastOf ==
  ASSUME NEW S, IsFiniteSet(S), S # {}, NEW R, StrictOrder(R, S)
  PROVE  \E x \in S : \A y \in S : y # x => <<y, x>> \in R
<1>1. Cardinality(S) \in Nat \ {0}
  BY FS_CardinalityType, FS_EmptySet
<1>2. PICK x \in S : Cardinality(Below(R, S, x)) = Cardinality(S) - 1
  BY <1>1, Ranked
<1>3. IsFiniteSet(S \ {x}) /\ Cardinality(S \ {x}) = Cardinality(S) - 1
  BY FS_RemoveElement
<1>4. Below(R, S, x) \in SUBSET (S \ {x})
  BY DEF Below, StrictOrder
<1>5. Below(R, S, x) = S \ {x}
  BY <1>2, <1>3, <1>4, FS_Subset
<1> QED
  BY <1>5 DEF Below

LEMMA MaxIn ==
  ASSUME NEW S \in SUBSET Int, IsFiniteSet(S), S # {}
  PROVE  Max(S) \in S /\ \A y \in S : y <= Max(S)
<1> DEFINE R == {p \in S \X S : p[1] < p[2]}
<1>1. StrictOrder(R, S)
  BY DEF StrictOrder
<1>2. PICK x \in S : \A y \in S : y # x => <<y, x>> \in R
  <2> HIDE DEF R
  <2> QED
    BY <1>1, LastOf
<1>3. \A y \in S : y # x => y < x
  <2>1. \A p \in R : p[1] < p[2]
    OBVIOUS
  <2> HIDE DEF R
  <2>2. \A y \in S : y # x => <<y, x>>[1] < <<y, x>>[2]
    BY <1>2, <2>1
  <2> QED
    BY <2>2
<1>4. \A y \in S : x >= y
  BY <1>3
<1> QED
  BY <1>4 DEF Max

LEMMA MinIn ==
  ASSUME NEW S \in SUBSET Int, IsFiniteSet(S), S # {}
  PROVE  Min(S) \in S /\ \A y \in S : Min(S) <= y
<1> DEFINE R == {p \in S \X S : p[1] > p[2]}
<1>1. StrictOrder(R, S)
  BY DEF StrictOrder
<1>2. PICK x \in S : \A y \in S : y # x => <<y, x>> \in R
  <2> HIDE DEF R
  <2> QED
    BY <1>1, LastOf
<1>3. \A y \in S : y # x => y > x
  <2>1. \A p \in R : p[1] > p[2]
    OBVIOUS
  <2> HIDE DEF R
  <2>2. \A y \in S : y # x => <<y, x>>[1] > <<y, x>>[2]
    BY <1>2, <2>1
  <2> QED
    BY <2>2
<1>4. \A y \in S : x <= y
  BY <1>3
<1> QED
  BY <1>4 DEF Min

-----------------------------------------------------------------------------
(* A batch.                                                                *)

Medium == {"video", "audio"}
Frames == [ts : Times, media : Medium]

\* A batch is in the order of time, of video strictly.
Ordered(b) ==
  \A i, j \in 1 .. Len(b) : i < j =>
    /\ b[i].ts <= b[j].ts
    /\ b[i].media = "video" /\ b[j].media = "video" => b[i].ts < b[j].ts

IsVideo(b, i, t) == b[i].media = "video" /\ b[i].ts = t

\* _merge_frames returns the frames of both streams, in that order.
LEMMA MergedFrames ==
  ASSUME NEW V \in SUBSET Times, NEW A \in SUBSET Times
  PROVE  /\ Merged(V, A) \in Seq(Frames) /\ Ordered(Merged(V, A))
         /\ \A i \in 1 .. Len(Merged(V, A)) :
              LET f == Merged(V, A)[i]
              IN f.ts \in IF f.media = "video" THEN V ELSE A
         /\ \A t \in V : \E i \in 1 .. Len(Merged(V, A)) : IsVideo(Merged(V, A), i, t)
<1> DEFINE F == {<<t, 0>> : t \in V} \cup {<<t, 1>> : t \in A}
           Before(f, g) == f[1] < g[1] \/ (f[1] = g[1] /\ f[2] < g[2])
           At(i) == CHOOSE f \in F : Cardinality({g \in F : Before(g, f)}) = i - 1
           R == {p \in F \X F : Before(p[1], p[2])}
           n == Cardinality(F)
           M == [i \in 1 .. n |->
                   [ts |-> At(i)[1], media |-> IF At(i)[2] = 0 THEN "video" ELSE "audio"]]
<1>1. Merged(V, A) = M
  BY DEF Merged
<1>2. IsFiniteSet(F)
  <2>1. LastTime \in Int /\ 0 \in Int /\ 1 \in Int
    BY PlaybackConstants
  <2>2. IsFiniteSet(Times) /\ IsFiniteSet(0 .. 1)
    BY <2>1, FS_Interval DEF Times
  <2>3. IsFiniteSet(Times \X (0 .. 1))
    BY <2>2, FS_Product
  <2>4. F \in SUBSET (Times \X (0 .. 1))
    OBVIOUS
  <2> QED
    BY <2>3, <2>4, FS_Subset
<1>3. \A f \in F : /\ f \in Times \X (0 .. 1)
                   /\ f[1] \in Nat /\ f[2] \in {0, 1} /\ f[1] \in Times
                   /\ f = <<f[1], f[2]>> /\ f[1] \in IF f[2] = 0 THEN V ELSE A
  <2>1. \A t \in V : t \in Times /\ t \in Nat
    BY DEF Times
  <2>2. \A t \in A : t \in Times /\ t \in Nat
    BY DEF Times
  <2> QED
    BY <2>1, <2>2
<1>4. \A t \in V : <<t, 0>> \in F
  OBVIOUS
<1> HIDE DEF F
<1>5. \A f, g \in F : <<f, g>> \in R <=> Before(f, g)
  OBVIOUS
<1>6. StrictOrder(R, F)
  <2>1. \A f \in F : ~Before(f, f)
    BY <1>3
  <2>2. \A f, g \in F : f # g => Before(f, g) \/ Before(g, f)
    <3> SUFFICES ASSUME NEW f \in F, NEW g \in F, ~Before(f, g), ~Before(g, f)
                 PROVE  f = g
      OBVIOUS
    <3>1. f[1] = g[1] /\ f[2] = g[2]
      BY <1>3
    <3> QED
      BY <1>3, <3>1
  <2>3. \A f, g, h \in F : Before(f, g) /\ Before(g, h) => Before(f, h)
    BY <1>3
  <2> HIDE DEF R, Before
  <2> QED
    BY <1>5, <2>1, <2>2, <2>3 DEF StrictOrder
<1>7. \A f \in F : {g \in F : Before(g, f)} = Below(R, F, f)
  <2> HIDE DEF R, Before
  <2> QED
    BY <1>5 DEF Below
<1>8. n \in Nat
  BY <1>2, FS_CardinalityType
<1>9. ASSUME NEW i \in 1 .. n
      PROVE  At(i) \in F /\ Cardinality(Below(R, F, At(i))) = i - 1
  <2> HIDE DEF R, Before, n
  <2>1. \E f \in F : Cardinality(Below(R, F, f)) = i - 1
    BY <1>2, <1>6, Ranked DEF n
  <2>2. \E f \in F : Cardinality({g \in F : Before(g, f)}) = i - 1
    BY <1>7, <2>1
  <2>3. At(i) \in F /\ Cardinality({g \in F : Before(g, At(i))}) = i - 1
    BY <2>2
  <2> HIDE DEF At
  <2> QED
    BY <1>7, <2>3
<1> HIDE DEF At
<1>10. ASSUME NEW f \in F
       PROVE  \E i \in 1 .. n : At(i) = f
  <2> DEFINE i == Cardinality(Below(R, F, f)) + 1
  <2>1. i \in 1 .. n /\ Cardinality(Below(R, F, f)) = i - 1
    BY <1>2, <1>6, <1>8, BelowGrows
  <2> HIDE DEF i, R, n
  <2>2. At(i) \in F /\ Cardinality(Below(R, F, At(i))) = i - 1
    BY <1>9, <2>1
  <2>3. ASSUME At(i) # f
        PROVE  FALSE
    <3>1. <<At(i), f>> \in R \/ <<f, At(i)>> \in R
      BY <1>6, <2>2, <2>3 DEF StrictOrder
    <3>2. \A x, y \in F : <<x, y>> \in R =>
            Cardinality(Below(R, F, x)) < Cardinality(Below(R, F, y))
      BY <1>2, <1>6, BelowGrows
    <3> QED
      BY <2>1, <2>2, <3>1, <3>2
  <2> QED
    BY <2>1, <2>3
<1>11. ASSUME NEW i \in 1 .. n, NEW j \in 1 .. n, i < j
       PROVE  Before(At(i), At(j))
  <2> HIDE DEF R, n
  <2>1. /\ At(i) \in F /\ Cardinality(Below(R, F, At(i))) = i - 1
        /\ At(j) \in F /\ Cardinality(Below(R, F, At(j))) = j - 1
    BY <1>9
  <2>2. At(i) # At(j)
    BY <1>8, <1>11, <2>1
  <2>3. <<At(j), At(i)>> \notin R
    <3>1. <<At(j), At(i)>> \in R => j - 1 < i - 1
      BY <1>2, <1>6, <2>1, BelowGrows
    <3> QED
      BY <1>8, <1>11, <3>1
  <2>4. <<At(i), At(j)>> \in R
    BY <1>6, <2>1, <2>2, <2>3 DEF StrictOrder
  <2> QED
    BY <1>5, <2>1, <2>4
<1>12. \A i \in 1 .. n : M[i] \in Frames
  BY <1>3, <1>9 DEF Frames, Medium
<1>13. M \in Seq(Frames) /\ Len(M) = n
  <2> HIDE DEF n
  <2> QED
    BY <1>8, <1>12
<1>14. \A i \in 1 .. n : M[i].ts \in IF M[i].media = "video" THEN V ELSE A
  BY <1>3, <1>9
<1>15. \A i \in 1 .. n : M[i].media = "video" => At(i)[2] = 0
  OBVIOUS
<1>16. Ordered(M)
  <2>1. ASSUME NEW i \in 1 .. n, NEW j \in 1 .. n, i < j
        PROVE  /\ M[i].ts <= M[j].ts
               /\ M[i].media = "video" /\ M[j].media = "video" => M[i].ts < M[j].ts
    <3>1. Before(At(i), At(j)) /\ At(i) \in F /\ At(j) \in F
      BY <1>9, <1>11, <2>1
    <3>2. M[i].ts = At(i)[1] /\ M[j].ts = At(j)[1]
      OBVIOUS
    <3> QED
      BY <1>3, <1>15, <3>1, <3>2
  <2> HIDE DEF M, n
  <2> QED
    BY <1>13, <2>1 DEF Ordered
<1>17. ASSUME NEW t \in V
       PROVE  \E i \in 1 .. n : IsVideo(M, i, t)
  <2>1. PICK i \in 1 .. n : At(i) = <<t, 0>>
    BY <1>4, <1>10
  <2> QED
    BY <2>1 DEF IsVideo
<1> HIDE DEF M, n
<1> QED
  BY <1>1, <1>13, <1>14, <1>16, <1>17

-----------------------------------------------------------------------------
(* The invariant.                                                          *)

\* A recording begins with a key frame.
BeginsWithKey == \E t \in Times : film[t] = "key" /\ \A u \in 0 .. t - 1 : film[u] = "none"

Types ==
  /\ film \in [Times -> Kinds] /\ BeginsWithKey /\ sound \in BOOLEAN
  /\ start \in Times /\ end \in start .. LastTime
  /\ now \in 1 .. LastTime + 1 /\ running \in BOOLEAN
  /\ thread \in [at : {"created", "testing", "posting", "ended"}, from : Nat,
                 batch : Seq(Frames)]
  /\ vq \in Seq(Video) /\ Len(vq) <= MaxQueue
  /\ aq \in Seq(Audio) /\ Len(aq) <= MaxQueue
  /\ client \in {"playing", "closing", "closed"}
  /\ posted \subseteq Video /\ lastv \in posted \cup {None}
  /\ begun \in [now : 1 .. now, over : BOOLEAN]

InBatch(t) == \E i \in 1 .. Len(thread.batch) : IsVideo(thread.batch, i, t)

BatchOK ==
  /\ Ordered(thread.batch)
  /\ \A i \in 1 .. Len(thread.batch) :
       LET f == thread.batch[i]
       IN f.ts < thread.from /\ f.ts \in IF f.media = "video" THEN Video ELSE Audio
  /\ thread.at # "posting" => thread.batch = << >>

\* Video of the range before the end of the latest query is posted or will be.
Served ==
  ~begun.over =>
    \A t \in start .. end :
      t < begun.now /\ film[t] # "none" /\ t < thread.from => t \in posted \/ InBatch(t)

\* The video frame before t in the recording.
Previous(t) == Max({u \in Times : u < t /\ film[u] # "none"} \cup {None})

\* Of each video frame in the batch that is no key frame, the one before it is
\* in the batch too, or it is the first and the one before it was posted last.
Follows ==
  \A i \in 1 .. Len(thread.batch) :
    LET b == thread.batch
    IN b[i].media = "video" /\ film[b[i].ts] # "key" =>
         \/ \E j \in 1 .. i - 1 : IsVideo(b, j, Previous(b[i].ts))
         \/ /\ lastv = Previous(b[i].ts)
            /\ \A j \in 1 .. i - 1 : b[j].media # "video"

IInv == Types /\ BatchOK /\ Served /\ Complete /\ Follows

-----------------------------------------------------------------------------
(* What a query finds, and what a queue holds.                             *)

LEMMA TimesAreNumbers == LastTime \in Nat /\ Times = 0 .. LastTime /\ None = -1
  BY PlaybackConstants DEF Times, None

LEMMA VideoAudio == Video \in SUBSET Times /\ Audio \in SUBSET Times
  BY DEF Video, Audio

\* Sets of times, with None or the time after the last one.
LEMMA FiniteTimes ==
  ASSUME NEW S, S \subseteq Times \cup {None, LastTime + 1}
  PROVE  IsFiniteSet(S) /\ S \in SUBSET Int
<1>1. -1 \in Int /\ LastTime + 1 \in Int
  BY TimesAreNumbers
<1>2. IsFiniteSet(-1 .. LastTime + 1)
  BY <1>1, FS_Interval
<1>3. S \in SUBSET (-1 .. LastTime + 1)
  BY <1>1, TimesAreNumbers
<1>4. -1 .. LastTime + 1 \in SUBSET Int
  OBVIOUS
<1>5. IsFiniteSet(S)
  BY <1>2, <1>3, FS_Subset
<1>6. \A x \in S : x \in Int
  BY <1>3, <1>4
<1> QED
  BY <1>5, <1>6

LEMMA PreviousIs ==
  ASSUME NEW t \in Times
  PROVE  LET S == {u \in Times : u < t /\ film[u] # "none"} \cup {None}
         IN Previous(t) \in S /\ \A u \in S : u <= Previous(t)
<1> DEFINE S == {u \in Times : u < t /\ film[u] # "none"} \cup {None}
<1>1. IsFiniteSet(S) /\ S \in SUBSET Int /\ S # {}
  BY FiniteTimes
<1> HIDE DEF S
<1>2. Max(S) \in S /\ \A u \in S : u <= Max(S)
  BY <1>1, MaxIn
<1> QED
  BY <1>2 DEF Previous, S

\* A query begins at a key frame and returns all video from there to its end.
LEMMA QueryFrames ==
  ASSUME Types, NEW from \in Nat, NEW to \in Nat
  PROVE  LET V == FramesOf(Video, from, to)
         IN /\ V \in SUBSET Video /\ \A t \in V : t < to
            /\ \A t \in Video : from <= t /\ t < to => t \in V
            /\ \A t \in V : film[t] = "key" \/ Previous(t) \in V
<1> DEFINE later == {t \in Video : t >= from} \cup {LastTime + 1}
           found == Find(Video, from)
           keys == {k \in Video : k <= found /\ film[k] = "key"} \cup {None}
           first == BackUp(Video, found)
           V == FramesOf(Video, from, to)
<1>0. V = FramesOf(Video, from, to)
  OBVIOUS
<1>1. found \in later /\ \A t \in later : found <= t
  <2>1. IsFiniteSet(later) /\ later \in SUBSET Int /\ later # {}
    BY VideoAudio, FiniteTimes
  <2> HIDE DEF later
  <2>2. Min(later) \in later /\ \A t \in later : Min(later) <= t
    BY <2>1, MinIn
  <2> QED
    BY <2>2 DEF Find, later
<1>2. found \in Int
  BY <1>1, VideoAudio, FiniteTimes
<1> HIDE DEF found
<1>3. first # None => V = {t \in Video : first <= t /\ t < to}
  BY DEF FramesOf, found
<1>4. first = None => V = {}
  BY DEF FramesOf, found
<1>5. CASE found \notin Video
  <2>1. found = LastTime + 1 /\ first = found
    BY <1>1, <1>5 DEF BackUp
  <2>2. \A t \in Video : t \in Int /\ t <= LastTime /\ t < from
    <3>1. \A t \in Video : t \in Int /\ t <= LastTime
      BY VideoAudio, TimesAreNumbers
    <3> QED
      BY <1>1, <2>1, <3>1, TimesAreNumbers
  <2>3. V = {}
    <3> HIDE DEF V, first
    <3> QED
      BY <1>3, <1>4, <2>1, <2>2, TimesAreNumbers
  <2> QED
    BY <2>2, <2>3
<1>6. CASE found \in Video
  <2>1. first = Max(keys)
    BY <1>6 DEF BackUp
  <2>2. first \in keys /\ \A k \in keys : k <= first
    <3>1. IsFiniteSet(keys) /\ keys \in SUBSET Int /\ keys # {}
      BY VideoAudio, FiniteTimes
    <3> HIDE DEF keys, first
    <3> QED
      BY <2>1, <3>1, MaxIn
  <2>3. first # None
    <3>1. PICK t \in Times : film[t] = "key" /\ \A u \in 0 .. t - 1 : film[u] = "none"
      BY DEF Types, BeginsWithKey
    <3>2. found \in Times /\ film[found] # "none" /\ found < now
      BY <1>6 DEF Video
    <3>3. t <= found /\ t < now
      BY <3>1, <3>2, TimesAreNumbers DEF Types
    <3>4. t \in keys
      BY <3>1, <3>3 DEF Video
    <3>5. t # None /\ t \in Nat
      BY TimesAreNumbers
    <3> HIDE DEF keys, first
    <3> QED
      BY <2>2, <3>4, <3>5, TimesAreNumbers
  <2>4. first \in Video /\ first <= found /\ film[first] = "key"
    <3> HIDE DEF first
    <3> QED
      BY <2>2, <2>3
  <2>5. V = {t \in Video : first <= t /\ t < to}
    BY <1>3, <2>3
  <2> HIDE DEF first, V, keys
  <2>6. \A t \in Video : t \in Int /\ t \in Times /\ film[t] # "none" /\ t < now
    BY VideoAudio, TimesAreNumbers DEF Video
  <2>7. ASSUME NEW t \in Video, from <= t, t < to
        PROVE  t \in V
    <3>1. found <= t
      BY <1>1, <2>7
    <3> QED
      BY <1>2, <2>4, <2>5, <2>6, <2>7, <3>1
  <2>8. ASSUME NEW t \in V, film[t] # "key"
        PROVE  Previous(t) \in V
    <3>1. /\ t \in Video /\ first <= t /\ t < to /\ t \in Times /\ t < now
          /\ first # t
      BY <2>4, <2>5, <2>6, <2>8
    <3>2. first < t /\ first \in Times /\ film[first] # "none"
      BY <2>4, <2>6, <3>1
    <3>3. Previous(t) \in Int /\ first <= Previous(t)
      BY <3>1, <3>2, PreviousIs, TimesAreNumbers
    <3>4. Previous(t) # None
      BY <2>4, <2>6, <3>2, <3>3, TimesAreNumbers
    <3>5. Previous(t) \in Times /\ Previous(t) < t /\ film[Previous(t)] # "none"
      BY <3>1, <3>4, PreviousIs
    <3>6. Previous(t) \in Video /\ Previous(t) < to
      BY <2>6, <3>1, <3>3, <3>5 DEF Video, Types
    <3> QED
      BY <2>5, <3>3, <3>6
  <2> QED
    BY <1>0, <2>5, <2>7, <2>8
<1> HIDE DEF first, V, keys, later
<1> QED
  BY <1>5, <1>6

LEMMA TailKeeps ==
  ASSUME NEW S, NEW q \in Seq(S), q # << >>
  PROVE  Tail(q) \in Seq(S) /\ Len(Tail(q)) = Len(q) - 1 /\ Len(q) \in Nat
  OBVIOUS

LEMMA BatchShape ==
  ASSUME NEW b \in Seq(Frames), b # << >>
  PROVE  /\ Len(b) \in Nat /\ 1 \in 1 .. Len(b) /\ Head(b) = b[1] /\ b[1] \in Frames
         /\ Tail(b) \in Seq(Frames) /\ Len(Tail(b)) = Len(b) - 1
         /\ \A i \in 1 .. Len(b) - 1 : Tail(b)[i] = b[i + 1]
  OBVIOUS

LEMMA Typed ==
  ASSUME Types
  PROVE  /\ thread.from \in Nat /\ thread.batch \in Seq(Frames)
         /\ start \in Nat /\ end \in Int /\ now \in Nat
         /\ MaxQueue \in Nat /\ Len(vq) \in Nat /\ Len(aq) \in Nat
<1>1. MaxQueue \in Nat
  BY PlaybackConstants
<1>2. Len(vq) \in Nat /\ Len(aq) \in Nat
  BY DEF Types
<1>3. thread.from \in Nat /\ thread.batch \in Seq(Frames)
  BY DEF Types
<1> QED
  BY <1>1, <1>2, <1>3, TimesAreNumbers DEF Types

\* A sample is added to a queue and, when it is full, the oldest is dropped.
LEMMA PostKeeps ==
  ASSUME NEW S, NEW q \in Seq(S), Len(q) <= MaxQueue, NEW t \in S
  PROVE  Post(q, t) \in Seq(S) /\ Len(Post(q, t)) <= MaxQueue
<1>1. MaxQueue \in Nat /\ MaxQueue >= 1
  BY PlaybackConstants
<1>2. CASE Len(q) >= MaxQueue
  <2>1. q # << >>
    BY <1>1, <1>2
  <2>2. Tail(q) \in Seq(S) /\ Len(Tail(q)) = Len(q) - 1
    BY <2>1
  <2> QED
    BY <1>1, <1>2, <2>2 DEF Post
<1>3. CASE ~(Len(q) >= MaxQueue)
  <2>1. Len(q) \in Nat
    OBVIOUS
  <2> QED
    BY <1>1, <1>3, <2>1 DEF Post
<1> QED
  BY <1>2, <1>3

-----------------------------------------------------------------------------
(* The steps.                                                              *)

LEMMA InitInv == Init => IInv
<1> SUFFICES ASSUME Init
             PROVE  IInv
  OBVIOUS
<1>1. start \in Nat /\ MaxQueue \in Nat
  BY TimesAreNumbers, PlaybackConstants DEF Init
<1>2. thread.batch = << >> /\ Len(thread.batch) = 0 /\ thread.from = start /\ thread.at = "created"
  BY DEF Init
<1>3. Types
  <2>1. thread \in [at : {"created", "testing", "posting", "ended"}, from : Nat,
                 batch : Seq(Frames)]
    BY <1>1 DEF Init
  <2>2. begun \in [now : 1 .. now, over : BOOLEAN]
    BY TimesAreNumbers DEF Init
  <2>3. BeginsWithKey /\ film \in [Times -> Kinds]
    BY DEF Init, BeginsWithKey
  <2>4. vq = << >> /\ aq = << >> /\ Len(<< >>) = 0
    BY DEF Init
  <2> QED
    BY <1>1, <2>1, <2>2, <2>3, <2>4 DEF Init, Types
<1>4. BatchOK /\ Follows
  BY <1>2 DEF BatchOK, Ordered, Follows
<1>5. Served
  BY <1>1, <1>2, TimesAreNumbers DEF Served, Init
<1>6. Complete
  BY DEF Complete, Init
<1> QED
  BY <1>3, <1>4, <1>5, <1>6 DEF IInv

\* Steps that only move the thread, end it or close the medium, and none.
LEMMA QuietSteps ==
  ASSUME IInv,
         ThreadStarts \/ BatchDone \/ ThreadEnds \/ Cleanup \/ CleanupJoined \/ UNCHANGED vars
  PROVE  IInv'
<1>1. /\ UNCHANGED <<mount, now, vq, aq, history>>
      /\ thread'.batch = thread.batch /\ thread'.from = thread.from
      /\ thread'.at # "posting" => thread.at # "posting" \/ thread.batch = << >>
      /\ thread' \in [at : {"created", "testing", "posting", "ended"}, from : Nat,
                      batch : Seq(Frames)]
      /\ running' \in BOOLEAN /\ client' \in {"playing", "closing", "closed"}
  BY DEF IInv, Types, ThreadStarts, BatchDone, ThreadEnds, Cleanup, CleanupJoined, vars
<1>2. Video' = Video /\ Audio' = Audio
  BY <1>1 DEF Video, Audio, mount
<1>3. Types'
  BY <1>1, <1>2 DEF IInv, Types, BeginsWithKey, mount, history
<1>4. BatchOK'
  BY <1>1, <1>2 DEF IInv, BatchOK
<1>5. Served' /\ Complete'
  BY <1>1 DEF IInv, Served, Complete, InBatch, mount, history
<1>6. Follows'
  BY <1>1 DEF IInv, Follows, Previous, mount, history
<1> QED
  BY <1>3, <1>4, <1>5, <1>6 DEF IInv

\* GStreamer takes a sample.
LEMMA NeedSteps ==
  ASSUME IInv, NeedVideo \/ NeedAudio
  PROVE  IInv'
<1>1. /\ UNCHANGED <<mount, now, running, thread, client, history>>
      /\ vq' = vq \/ (vq # << >> /\ vq' = Tail(vq))
      /\ aq' = aq \/ (aq # << >> /\ aq' = Tail(aq))
  BY DEF NeedVideo, NeedAudio
<1>2. Video' = Video /\ Audio' = Audio
  BY <1>1 DEF Video, Audio, mount
<1>3. /\ MaxQueue \in Nat /\ Len(vq) \in Nat /\ Len(aq) \in Nat
      /\ vq \in Seq(Video) /\ Len(vq) <= MaxQueue /\ aq \in Seq(Audio) /\ Len(aq) <= MaxQueue
  BY Typed DEF IInv, Types
<1>4. vq' \in Seq(Video) /\ Len(vq') <= MaxQueue
  <2>1. vq # << >> => Tail(vq) \in Seq(Video) /\ Len(Tail(vq)) = Len(vq) - 1
    BY <1>3, TailKeeps
  <2>2. vq' = vq \/ (vq # << >> /\ vq' = Tail(vq))
    BY <1>1
  <2>3. CASE vq' = vq
    BY <1>3, <2>3
  <2>4. CASE vq # << >> /\ vq' = Tail(vq)
    BY <1>3, <2>1, <2>4
  <2> QED
    BY <2>2, <2>3, <2>4
<1>5. aq' \in Seq(Audio) /\ Len(aq') <= MaxQueue
  <2>1. aq # << >> => Tail(aq) \in Seq(Audio) /\ Len(Tail(aq)) = Len(aq) - 1
    BY <1>3, TailKeeps
  <2>2. aq' = aq \/ (aq # << >> /\ aq' = Tail(aq))
    BY <1>1
  <2>3. CASE aq' = aq
    BY <1>3, <2>3
  <2>4. CASE aq # << >> /\ aq' = Tail(aq)
    BY <1>3, <2>1, <2>4
  <2> QED
    BY <2>2, <2>3, <2>4
<1>6. Types'
  BY <1>1, <1>2, <1>4, <1>5 DEF IInv, Types, BeginsWithKey, mount, history
<1>7. BatchOK'
  BY <1>1, <1>2 DEF IInv, BatchOK
<1>8. Served' /\ Complete'
  BY <1>1 DEF IInv, Served, Complete, InBatch, mount, history
<1>9. Follows'
  BY <1>1 DEF IInv, Follows, Previous, mount, history
<1> QED
  BY <1>6, <1>7, <1>8, <1>9 DEF IInv

LEMMA RecordFrameStep ==
  ASSUME IInv, RecordFrame
  PROVE  IInv'
<1>1. /\ UNCHANGED <<mount, running, thread, vq, aq, client, history>>
      /\ now \in Int /\ now' = now + 1 /\ now' \in 1 .. LastTime + 1
  BY TimesAreNumbers DEF RecordFrame, IInv, Types
<1>2. Video \subseteq Video' /\ Audio \subseteq Audio'
  <2>1. \A t \in Times : t \in Int
    BY TimesAreNumbers
  <2> QED
    BY <1>1, <2>1 DEF Video, Audio, mount
<1>3. Types'
  <2>1. vq' \in Seq(Video') /\ Len(vq') <= MaxQueue
    <3>1. vq \in Seq(Video)
      BY DEF IInv, Types
    <3> QED
      BY <1>1, <1>2, <3>1, SeqMonotonic DEF IInv, Types
  <2>2. aq' \in Seq(Audio') /\ Len(aq') <= MaxQueue
    <3>1. aq \in Seq(Audio)
      BY DEF IInv, Types
    <3> QED
      BY <1>1, <1>2, <3>1, SeqMonotonic DEF IInv, Types
  <2>3. begun' \in [now : 1 .. now', over : BOOLEAN]
    BY <1>1 DEF IInv, Types, history
  <2> QED
    BY <1>1, <1>2, <2>1, <2>2, <2>3 DEF IInv, Types, BeginsWithKey, mount, history
<1>4. BatchOK'
  BY <1>1, <1>2 DEF IInv, BatchOK
<1>5. Served' /\ Complete'
  BY <1>1 DEF IInv, Served, Complete, InBatch, mount, history
<1>6. Follows'
  BY <1>1 DEF IInv, Follows, Previous, mount, history
<1> QED
  BY <1>3, <1>4, <1>5, <1>6 DEF IInv

\* A query: its frames are the new batch, and begin with a key frame.
LEMMA FetchStep ==
  ASSUME IInv, Fetch
  PROVE  IInv'
<1> DEFINE from == thread.from
           to == from + Window
           V == FramesOf(Video, from, to)
           A == AudioOf(from, to)
<1>1. /\ UNCHANGED <<mount, now, running, vq, aq, client, history>>
      /\ thread' = [at |-> "posting", from |-> to, batch |-> Merged(V, A)]
      /\ thread.at = "testing"
  BY DEF Fetch
<1>2. from \in Nat /\ to \in Nat /\ thread.batch = << >> /\ now \in Nat
  BY <1>1, PlaybackConstants, TimesAreNumbers DEF IInv, Types, BatchOK
<1>3. Video' = Video /\ Audio' = Audio
  BY <1>1 DEF Video, Audio, mount
<1>4. /\ V \in SUBSET Video /\ \A t \in V : t < to
      /\ \A t \in Video : from <= t /\ t < to => t \in V
      /\ \A t \in V : film[t] = "key" \/ Previous(t) \in V
  BY <1>2, QueryFrames DEF IInv
<1>5. A \in SUBSET Audio /\ \A t \in A : t < to
  BY DEF AudioOf
<1> HIDE DEF V, A, from, to
<1> DEFINE b == Merged(V, A)
<1>6. V \in SUBSET Times /\ A \in SUBSET Times
  BY <1>4, <1>5, VideoAudio
<1>7. /\ b \in Seq(Frames) /\ Ordered(b)
      /\ \A i \in 1 .. Len(b) : b[i].ts \in IF b[i].media = "video" THEN V ELSE A
      /\ \A t \in V : \E i \in 1 .. Len(b) : IsVideo(b, i, t)
  BY <1>6, MergedFrames
<1> HIDE DEF b
<1>8. thread'.batch = b /\ thread'.from = to /\ thread'.at = "posting"
  BY <1>1 DEF b
<1>9. Types'
  <2>1. thread' \in [at : {"created", "testing", "posting", "ended"}, from : Nat,
                 batch : Seq(Frames)]
    BY <1>1, <1>2, <1>7 DEF b
  <2> QED
    BY <1>1, <1>3, <2>1 DEF IInv, Types, BeginsWithKey, mount, history
<1>10. BatchOK'
  <2>1. \A i \in 1 .. Len(b) :
          b[i].ts < to /\ b[i].ts \in IF b[i].media = "video" THEN Video ELSE Audio
    BY <1>4, <1>5, <1>7
  <2> QED
    BY <1>3, <1>7, <1>8, <2>1 DEF BatchOK
<1>11. Served'
  <2> SUFFICES ASSUME ~begun.over, NEW t \in start .. end, t < begun.now, film[t] # "none", t < to
               PROVE  t \in posted \/ \E i \in 1 .. Len(b) : IsVideo(b, i, t)
    BY <1>1, <1>8 DEF Served, InBatch, mount, history
  <2>1. t \in Times /\ t \in Nat /\ t < now
    BY <1>2, TimesAreNumbers DEF IInv, Types
  <2>2. CASE t < from
    <3>1. ~InBatch(t)
      BY <1>2 DEF InBatch
    <3> QED
      BY <2>2, <3>1 DEF IInv, Served, from
  <2>3. CASE from <= t
    <3>1. t \in Video
      BY <2>1 DEF Video
    <3> QED
      BY <1>4, <1>7, <2>3, <3>1
  <2> QED
    BY <1>2, <2>1, <2>2, <2>3
<1>12. Complete'
  BY <1>1 DEF IInv, Complete, mount, history
<1>13. Follows'
  <2> SUFFICES ASSUME NEW i \in 1 .. Len(b), b[i].media = "video", film[b[i].ts] # "key"
               PROVE  \E j \in 1 .. i - 1 : IsVideo(b, j, Previous(b[i].ts))
    BY <1>1, <1>8 DEF Follows, Previous, mount, history
  <2> DEFINE t == b[i].ts
  <2>1. t \in V /\ Previous(t) \in V /\ t \in Times
    BY <1>4, <1>6, <1>7
  <2>2. PICK j \in 1 .. Len(b) : IsVideo(b, j, Previous(t))
    BY <1>7, <2>1
  <2>3. Previous(t) < t /\ Previous(t) \in Int
    BY <1>6, <2>1, PreviousIs, TimesAreNumbers
  <2>4. i # j /\ ~(i < j)
    <3>1. b[j].media = "video" /\ b[j].ts = Previous(t)
      BY <2>2 DEF IsVideo
    <3>2. i < j => t < Previous(t)
      BY <1>7, <3>1 DEF Ordered
    <3> QED
      BY <2>1, <2>3, <3>1, <3>2, TimesAreNumbers
  <2>5. j \in 1 .. i - 1
    BY <2>4
  <2> QED
    BY <2>2, <2>5
<1> QED
  BY <1>9, <1>10, <1>11, <1>12, <1>13 DEF IInv

\* A frame after the end: all video of the range is earlier, hence posted.
LEMMA PassEndStep ==
  ASSUME IInv, PassEnd
  PROVE  IInv'
<1>1. /\ UNCHANGED <<mount, now, vq, aq, client, lastv, posted>>
      /\ running' = FALSE /\ thread' = [thread EXCEPT !.at = "testing", !.batch = << >>]
      /\ begun' = [begun EXCEPT !.over = TRUE]
      /\ thread.batch # << >> /\ Head(thread.batch).ts > end
  BY DEF PassEnd
<1>2. Video' = Video /\ Audio' = Audio
  BY <1>1 DEF Video, Audio, mount
<1>3. thread'.batch = << >> /\ thread'.at = "testing" /\ begun'.over /\ begun'.now = begun.now
  BY <1>1 DEF IInv, Types
<1>4. Types'
  <2>1. thread' \in [at : {"created", "testing", "posting", "ended"}, from : Nat,
                 batch : Seq(Frames)]
    <3>1. << >> \in Seq(Frames)
      OBVIOUS
    <3> QED
      BY <1>1, <3>1 DEF IInv, Types
  <2>2. begun' \in [now : 1 .. now, over : BOOLEAN]
    BY <1>1 DEF IInv, Types
  <2> QED
    BY <1>1, <1>2, <2>1, <2>2 DEF IInv, Types, BeginsWithKey, mount
<1>5. BatchOK' /\ Follows' /\ Served'
  BY <1>3 DEF BatchOK, Ordered, Follows, Served
<1>6. Complete'
  <2> SUFFICES ASSUME NEW t \in start .. end, t < begun.now, film[t] # "none"
               PROVE  t \in posted
    BY <1>1, <1>3 DEF Complete, mount
  <2> DEFINE b == thread.batch
  <2>1. /\ b \in Seq(Frames) /\ Len(b) \in Nat /\ 1 \in 1 .. Len(b) /\ b[1].ts > end
        /\ b[1].ts < thread.from
    <3>1. /\ b \in Seq(Frames) /\ Len(b) \in Nat /\ 1 \in 1 .. Len(b) /\ b[1].ts > end
      BY <1>1, Typed, BatchShape DEF IInv
    <3> QED
      BY <3>1 DEF IInv, BatchOK
  <2>2. t \in Int /\ end \in Int /\ thread.from \in Int /\ b[1].ts \in Int
    <3>1. b[1] \in Frames
      BY <2>1
    <3>2. b[1].ts \in Int
      BY <3>1, TimesAreNumbers DEF Frames
    <3> QED
      BY <3>2, Typed DEF IInv
  <2>3. t < thread.from
    BY <2>1, <2>2
  <2>4. ~InBatch(t)
    <3> SUFFICES ASSUME NEW i \in 1 .. Len(b), b[i].ts = t
                 PROVE  FALSE
      BY DEF InBatch, IsVideo
    <3>1. 1 < i => b[1].ts <= t
      BY <2>1 DEF IInv, BatchOK, Ordered
    <3> QED
      BY <2>1, <2>2, <3>1
  <2> QED
    BY <2>3, <2>4 DEF IInv, Served, Complete
<1> QED
  BY <1>4, <1>5, <1>6 DEF IInv

\* A frame of the batch is posted.
LEMMA PostFrameStep ==
  ASSUME IInv, PostFrame
  PROVE  IInv'
<1> DEFINE b == thread.batch
           f == b[1]
<1>1. /\ UNCHANGED <<mount, now, running, client, begun>>
      /\ thread.at = "posting" /\ b # << >> /\ Head(b).ts <= end
      /\ thread' = [thread EXCEPT !.batch = Tail(b)]
  BY DEF PostFrame
<1>2. Video' = Video /\ Audio' = Audio
  BY <1>1 DEF Video, Audio, mount
<1>3. /\ b \in Seq(Frames) /\ Len(b) \in Nat /\ 1 \in 1 .. Len(b) /\ Head(b) = f /\ f \in Frames
      /\ Tail(b) \in Seq(Frames) /\ Len(Tail(b)) = Len(b) - 1
      /\ \A i \in 1 .. Len(b) - 1 : Tail(b)[i] = b[i + 1]
  BY <1>1, Typed, BatchShape DEF IInv
<1>4. /\ thread'.batch = Tail(b) /\ thread'.from = thread.from /\ thread'.at = "posting"
      /\ thread' \in [at : {"created", "testing", "posting", "ended"}, from : Nat,
                      batch : Seq(Frames)]
  BY <1>1, <1>3 DEF IInv, Types
<1>5. /\ f.ts < thread.from /\ f.media \in Medium
      /\ f.ts \in IF f.media = "video" THEN Video ELSE Audio
  BY <1>3 DEF IInv, BatchOK, Frames
<1>6. f.media = "video" =>
        aq' = aq /\ vq' = Post(vq, f.ts) /\ lastv' = f.ts /\ posted' = posted \cup {f.ts}
  BY <1>1, <1>3 DEF PostFrame
<1>7. f.media # "video" => vq' = vq /\ aq' = Post(aq, f.ts) /\ lastv' = lastv /\ posted' = posted
  BY <1>1, <1>3 DEF PostFrame
<1>8. \A i \in 1 .. Len(b) - 1 : i + 1 \in 1 .. Len(b) /\ 1 < i + 1
  BY <1>3
<1> HIDE DEF b, f
<1>9. Types'
  <2>1. vq' \in Seq(Video) /\ Len(vq') <= MaxQueue /\ aq' \in Seq(Audio) /\ Len(aq') <= MaxQueue
    <3>1. vq \in Seq(Video) /\ Len(vq) <= MaxQueue /\ aq \in Seq(Audio) /\ Len(aq) <= MaxQueue
      BY DEF IInv, Types
    <3> QED
      BY <1>5, <1>6, <1>7, <3>1, PostKeeps
  <2>2. posted' \subseteq Video /\ lastv' \in posted' \cup {None}
    BY <1>5, <1>6, <1>7 DEF IInv, Types
  <2> QED
    BY <1>1, <1>2, <1>4, <2>1, <2>2 DEF IInv, Types, BeginsWithKey, mount
<1>10. BatchOK'
  <2>1. Ordered(Tail(b))
    <3>1. Ordered(b)
      BY DEF IInv, BatchOK, b
    <3>2. ASSUME NEW i \in 1 .. Len(b) - 1, NEW j \in 1 .. Len(b) - 1, i < j
          PROVE  i + 1 \in 1 .. Len(b) /\ j + 1 \in 1 .. Len(b) /\ i + 1 < j + 1
      BY <1>3, <3>2
    <3> QED
      BY <1>3, <3>1, <3>2 DEF Ordered
  <2>2. \A i \in 1 .. Len(Tail(b)) :
          /\ Tail(b)[i].ts < thread.from
          /\ Tail(b)[i].ts \in IF Tail(b)[i].media = "video" THEN Video ELSE Audio
    BY <1>3, <1>8 DEF IInv, BatchOK, b
  <2> QED
    BY <1>2, <1>4, <2>1, <2>2 DEF BatchOK
<1>11. Served'
  <2> SUFFICES ASSUME ~begun.over, NEW t \in start .. end, t < begun.now, film[t] # "none",
                      t < thread.from, t \notin posted'
               PROVE  \E i \in 1 .. Len(Tail(b)) : IsVideo(Tail(b), i, t)
    BY <1>1, <1>4 DEF Served, InBatch, mount
  <2>1. t \notin posted
    BY <1>6, <1>7 DEF Medium
  <2>2. PICK i \in 1 .. Len(b) : IsVideo(b, i, t)
    BY <2>1 DEF IInv, Served, InBatch, b
  <2>3. i # 1
    BY <1>6, <2>2 DEF IsVideo, f
  <2>4. i - 1 \in 1 .. Len(b) - 1 /\ (i - 1) + 1 = i
    BY <1>3, <2>3
  <2>5. Tail(b)[i - 1] = b[i]
    BY <1>3, <2>4
  <2> QED
    BY <1>3, <2>2, <2>4, <2>5 DEF IsVideo
<1>12. Complete'
  BY <1>1, <1>6, <1>7 DEF IInv, Complete, mount
<1>13. Follows'
  <2> SUFFICES ASSUME NEW i \in 1 .. Len(b) - 1, b[i + 1].media = "video",
                      film[b[i + 1].ts] # "key"
               PROVE  \/ \E j \in 1 .. i - 1 : IsVideo(Tail(b), j, Previous(b[i + 1].ts))
                      \/ /\ lastv' = Previous(b[i + 1].ts)
                         /\ \A j \in 1 .. i - 1 : Tail(b)[j].media # "video"
    <3>1. \A t : (Previous(t))' = Previous(t)
      BY <1>1 DEF Previous, mount
    <3> QED
      BY <1>1, <1>3, <1>4, <3>1 DEF Follows, mount
  <2> DEFINE p == Previous(b[i + 1].ts)
  <2>1. \/ \E j \in 1 .. i : IsVideo(b, j, p)
        \/ lastv = p /\ \A j \in 1 .. i : b[j].media # "video"
    <3>1. i + 1 \in 1 .. Len(b) /\ (i + 1) - 1 = i
      BY <1>8
    <3> QED
      BY <3>1 DEF IInv, Follows, b
  <2> HIDE DEF p
  <2>2. \A j \in 1 .. i - 1 : j \in 1 .. Len(b) - 1 /\ Tail(b)[j] = b[j + 1] /\ j + 1 \in 1 .. i
    BY <1>3
  <2>3. CASE lastv = p /\ \A j \in 1 .. i : b[j].media # "video"
    <3>1. f.media # "video"
      BY <2>3 DEF f
    <3> QED
      BY <1>7, <2>2, <2>3, <3>1 DEF p
  <2>4. ASSUME NEW j \in 1 .. i, IsVideo(b, j, p), j # 1
        PROVE  \E k \in 1 .. i - 1 : IsVideo(Tail(b), k, p)
    <3>1. j - 1 \in 1 .. i - 1 /\ (j - 1) + 1 = j
      BY <2>4
    <3>2. Tail(b)[j - 1] = b[j]
      BY <2>2, <3>1
    <3> QED
      BY <2>4, <3>1, <3>2 DEF IsVideo
  <2>5. CASE IsVideo(b, 1, p) /\ ~\E j \in 1 .. i : j # 1 /\ b[j].media = "video"
    <3>1. lastv' = p
      BY <1>6, <2>5 DEF IsVideo, f
    <3>2. ASSUME NEW j \in 1 .. i - 1
          PROVE  Tail(b)[j].media # "video"
      <4>1. j + 1 \in 1 .. i /\ j + 1 # 1 /\ Tail(b)[j] = b[j + 1]
        BY <2>2
      <4> QED
        BY <2>5, <4>1
    <3> QED
      BY <3>1, <3>2 DEF p
  <2>6. ASSUME IsVideo(b, 1, p), NEW j \in 1 .. i, j # 1, b[j].media = "video"
        PROVE  FALSE
    <3>1. Ordered(b) /\ j \in 1 .. Len(b) /\ i + 1 \in 1 .. Len(b) /\ 1 < j /\ j < i + 1
      BY <1>3, <1>8, <2>6 DEF IInv, BatchOK, b
    <3>2. p < b[j].ts /\ b[j].ts < b[i + 1].ts
      BY <1>3, <2>6, <3>1 DEF Ordered, IsVideo
    <3>3. b[j].ts \in Video /\ b[i + 1].ts \in Video
      BY <2>6, <3>1 DEF IInv, BatchOK, b
    <3>4. b[j].ts \in Times /\ b[i + 1].ts \in Times /\ film[b[j].ts] # "none"
      BY <3>3 DEF Video
    <3>5. b[j].ts <= p /\ p \in Int
      <4>1. b[j].ts <= p
        BY <3>2, <3>4, PreviousIs DEF p
      <4>2. p \in Times \cup {None}
        BY <3>4, PreviousIs DEF p
      <4> QED
        BY <4>1, <4>2, TimesAreNumbers
    <3> QED
      BY <3>2, <3>4, <3>5, TimesAreNumbers
  <2> QED
    BY <2>1, <2>3, <2>4, <2>5, <2>6 DEF p
<1> QED
  BY <1>9, <1>10, <1>11, <1>12, <1>13 DEF IInv

LEMMA NextInv == IInv /\ [Next]_vars => IInv'
<1> SUFFICES ASSUME IInv, [Next]_vars
             PROVE  IInv'
  OBVIOUS
<1>1. CASE UNCHANGED vars
  BY <1>1, QuietSteps
<1>2. CASE Next
  BY <1>2, QuietSteps, NeedSteps, RecordFrameStep, FetchStep, PostFrameStep, PassEndStep
     DEF Next, Thread
<1> QED
  BY <1>1, <1>2

\* The invariant of playback: types, what the batch holds, what is posted.
THEOREM Invariance == Spec => []IInv
<1>1. Init => IInv
  BY InitInv
<1>2. IInv /\ [Next]_vars => IInv'
  BY NextInv
<1> QED
  BY <1>1, <1>2, PTL DEF Spec

\* The queues keep to their bound and hold only frames that are on the disk
\* (r_recording_context, the playback thread).
THEOREM TypeCorrect == Spec => []TypeOK
<1>1. IInv => TypeOK
  <2> SUFFICES ASSUME IInv
               PROVE  TypeOK
    OBVIOUS
  <2>1. (\A i \in DOMAIN vq : vq[i] \in Video) /\ (\A i \in DOMAIN aq : aq[i] \in Audio)
    BY DEF IInv, Types
  <2>2. thread.at \in {"created", "testing", "posting", "ended"}
    BY DEF IInv, Types
  <2> QED
    BY <2>1, <2>2 DEF IInv, Types, TypeOK
<1> QED
  BY <1>1, Invariance, PTL

\* A playback that came to the end of its range has posted all video of it that was
\* on the disk when it began (_playback_entry_point).
THEOREM PlaysAll == Spec => []Complete
<1>1. IInv => Complete
  BY DEF IInv
<1> QED
  BY <1>1, Invariance, PTL

\* What the thread posts can be decoded: a key frame, or a frame whose predecessor in
\* the recording was posted just before (query, _merge_frames, _playback_entry_point).
THEOREM PostsDecodable == Spec => Decodable
<1>1. IInv /\ [Next]_vars =>
        \A t \in Times :
          vq' # vq /\ lastv' = t /\ Len(vq') >= Len(vq) =>
            \/ film[t] = "key"
            \/ lastv = Max({u \in Times : u < t /\ film[u] # "none"} \cup {None})
  <2> SUFFICES ASSUME IInv, [Next]_vars, NEW t \in Times,
                      vq' # vq, lastv' = t, Len(vq') >= Len(vq), film[t] # "key"
               PROVE  lastv = Previous(t)
    BY DEF Previous
  <2>1. ~(NeedVideo)
    <3> SUFFICES ASSUME NeedVideo
                 PROVE  FALSE
      OBVIOUS
    <3>1. vq # << >> /\ vq' = Tail(vq) /\ vq \in Seq(Video)
      BY DEF NeedVideo, IInv, Types
    <3>2. Len(vq') = Len(vq) - 1 /\ Len(vq) \in Nat
      BY <3>1, TailKeeps
    <3> QED
      BY <3>2
  <2>2. PostFrame
    BY <2>1 DEF Next, Thread, vars, ThreadStarts, Fetch, PassEnd, BatchDone, ThreadEnds, NeedAudio,
                Cleanup, CleanupJoined, RecordFrame
  <2>3. LET b == thread.batch
        IN 1 \in 1 .. Len(b) /\ Head(b) = b[1]
    BY <2>2, Typed, BatchShape DEF IInv, PostFrame
  <2>4. thread.batch[1].media = "video" /\ thread.batch[1].ts = t
    BY <2>2, <2>3 DEF PostFrame
  <2>5. ~\E j \in 1 .. 1 - 1 : TRUE
    OBVIOUS
  <2> QED
    BY <2>3, <2>4, <2>5 DEF IInv, Follows
<1> QED
  BY <1>1, Invariance, PTL DEF Spec, Decodable

-----------------------------------------------------------------------------
(* The recorder's stream keeper and the viewer, each an instance.          *)

CONSTANTS Cameras, Watched, MaxChanges, MaxFaults, MaxMounts, Slots, MaxPipes, MaxSamples

VARIABLES
  db, changes, streams, faults, mutex, kpc, cmdq, cmd, recorder, recording, writer,
  infos, pipes, pipe, waiting, shown, tracking, validated, lock, viewer, host

Keeper == INSTANCE StreamKeeper WITH main <- recorder, running <- recording

Viewer == INSTANCE PipelineHost WITH main <- viewer, frames <- waiting

-----------------------------------------------------------------------------
(* The stream keeper.                                                      *)

KeeperBounds == Watched \subseteq Cameras /\ {MaxChanges, MaxFaults, MaxMounts} \subseteq Nat

CameraRecords == [assigned : BOOLEAN, url : {0, 1}, setting : Nat]
Recordings == [rec : CameraRecords, stopped : BOOLEAN, silent : BOOLEAN]
KeeperCommands ==
  [cmd : {"is_recording"}] \cup [cmd : {"stop"}, cam : Cameras] \cup [cmd : {"mount"}]

KeeperTypes ==
  /\ db \in [Cameras -> CameraRecords] /\ changes \in 0 .. MaxChanges
  /\ streams \in [Cameras -> Recordings \cup {Keeper!NoStream}] /\ faults \in 0 .. MaxFaults
  /\ cmdq \in Seq(KeeperCommands)
  /\ cmd \in IF kpc = "serve" THEN KeeperCommands ELSE {Keeper!NoRef}

KeeperPlaces ==
  /\ kpc \in {"top", "modified", "removed", "all", "poll", "serve", "done"}
  /\ mutex = (IF kpc \in {"modified", "removed", "all"} THEN "keeper"
               ELSE IF recorder = "stopping" THEN "main" ELSE "free")
  /\ recorder = "stopping" => mutex = "main"
  /\ recorder \in {"idle", "waiting", "stop", "stopping", "plugins", "drain", "join", "returned"}
  /\ recording = (recorder \notin {"join", "returned"})

\* The user interface waits for one command at a time, which is in the queue or
\* served; every other command is a mount.
OneAsked ==
  /\ \A i \in 1 .. Len(cmdq) : ~Keeper!IsMount(cmdq[i]) => recorder = "waiting"
  /\ \A i, j \in 1 .. Len(cmdq) : ~Keeper!IsMount(cmdq[i]) /\ ~Keeper!IsMount(cmdq[j]) => i = j
  /\ kpc = "serve" /\ ~Keeper!IsMount(cmd) =>
       recorder = "waiting" /\ \A i \in 1 .. Len(cmdq) : Keeper!IsMount(cmdq[i])

FewMounts == Cardinality(Keeper!Mounts(cmdq)) <= MaxMounts

KeeperInv == KeeperTypes /\ KeeperPlaces /\ OneAsked /\ FewMounts

LEMMA KeeperQueue ==
  ASSUME NEW q \in Seq(KeeperCommands)
  PROVE  /\ Len(q) \in Nat /\ Keeper!Mounts(q) = {i \in 1 .. Len(q) : Keeper!IsMount(q[i])}
         /\ IsFiniteSet(Keeper!Mounts(q)) /\ Cardinality(Keeper!Mounts(q)) \in Nat
<1>1. Len(q) \in Nat /\ DOMAIN q = 1 .. Len(q)
  OBVIOUS
<1>2. Keeper!Mounts(q) = {i \in 1 .. Len(q) : Keeper!IsMount(q[i])}
  BY <1>1 DEF Keeper!Mounts
<1>3. Keeper!Mounts(q) \in SUBSET (1 .. Len(q))
  BY <1>2
<1>4. IsFiniteSet(1 .. Len(q))
  BY <1>1, FS_Interval
<1> QED
  BY <1>1, <1>2, <1>3, <1>4, FS_Subset, FS_CardinalityType

LEMMA KeeperAppend ==
  ASSUME NEW q \in Seq(KeeperCommands), NEW c \in KeeperCommands
  PROVE  LET r == Append(q, c)
         IN /\ r \in Seq(KeeperCommands) /\ Len(r) = Len(q) + 1 /\ r[Len(q) + 1] = c
            /\ \A i \in 1 .. Len(q) : r[i] = q[i]
            /\ ~Keeper!IsMount(c) => Cardinality(Keeper!Mounts(r)) = Cardinality(Keeper!Mounts(q))
            /\ Cardinality(Keeper!Mounts(r)) <= Cardinality(Keeper!Mounts(q)) + 1
<1> DEFINE r == Append(q, c)
<1>1. /\ r \in Seq(KeeperCommands) /\ Len(r) = Len(q) + 1 /\ r[Len(q) + 1] = c
      /\ \A i \in 1 .. Len(q) : r[i] = q[i]
  BY AppendProperties
<1> HIDE DEF r
<1>2. /\ Len(q) \in Nat /\ Keeper!Mounts(q) = {i \in 1 .. Len(q) : Keeper!IsMount(q[i])}
      /\ IsFiniteSet(Keeper!Mounts(q)) /\ Cardinality(Keeper!Mounts(q)) \in Nat
  BY KeeperQueue
<1>3. Keeper!Mounts(r) = {i \in 1 .. Len(r) : Keeper!IsMount(r[i])}
      /\ Cardinality(Keeper!Mounts(r)) \in Nat
  BY <1>1, KeeperQueue
<1>4. Keeper!Mounts(r) \in SUBSET (Keeper!Mounts(q) \cup {Len(q) + 1})
  BY <1>1, <1>2, <1>3
<1>5. /\ IsFiniteSet(Keeper!Mounts(q) \cup {Len(q) + 1})
      /\ Cardinality(Keeper!Mounts(q) \cup {Len(q) + 1}) <= Cardinality(Keeper!Mounts(q)) + 1
      /\ Cardinality(Keeper!Mounts(q) \cup {Len(q) + 1}) \in Nat
  <2>1. /\ IsFiniteSet(Keeper!Mounts(q) \cup {Len(q) + 1})
        /\ Cardinality(Keeper!Mounts(q) \cup {Len(q) + 1}) =
             IF Len(q) + 1 \in Keeper!Mounts(q) THEN Cardinality(Keeper!Mounts(q))
             ELSE Cardinality(Keeper!Mounts(q)) + 1
    BY <1>2, FS_AddElement
  <2> QED
    BY <1>2, <2>1
<1>6. Cardinality(Keeper!Mounts(r)) <= Cardinality(Keeper!Mounts(q)) + 1
  <2>1. Cardinality(Keeper!Mounts(r)) <= Cardinality(Keeper!Mounts(q) \cup {Len(q) + 1})
    BY <1>4, <1>5, FS_Subset
  <2> QED
    BY <1>2, <1>3, <1>5, <2>1
<1>7. ASSUME ~Keeper!IsMount(c)
      PROVE  Keeper!Mounts(r) = Keeper!Mounts(q)
  <2>1. \A i : i \in Keeper!Mounts(r) <=> i \in Keeper!Mounts(q)
    BY <1>1, <1>2, <1>3, <1>7
  <2> QED
    BY <2>1
<1> QED
  BY <1>1, <1>6, <1>7 DEF r

LEMMA KeeperTail ==
  ASSUME NEW q \in Seq(KeeperCommands), q # << >>
  PROVE  LET r == Tail(q)
         IN /\ Head(q) \in KeeperCommands /\ Head(q) = q[1] /\ 1 \in 1 .. Len(q)
            /\ r \in Seq(KeeperCommands) /\ Len(r) = Len(q) - 1
            /\ \A i \in 1 .. Len(r) : i + 1 \in 1 .. Len(q) /\ r[i] = q[i + 1]
            /\ Cardinality(Keeper!Mounts(r)) <= Cardinality(Keeper!Mounts(q))
<1> DEFINE r == Tail(q)
<1>1. /\ Head(q) \in KeeperCommands /\ Head(q) = q[1] /\ Len(q) \in Nat \ {0}
      /\ r \in Seq(KeeperCommands) /\ Len(r) = Len(q) - 1
      /\ \A i \in 1 .. Len(r) : r[i] = q[i + 1]
  BY HeadTailProperties
<1> HIDE DEF r
<1>2. \A i \in 1 .. Len(r) : i + 1 \in 1 .. Len(q)
  BY <1>1
<1>3. Keeper!Mounts(q) = {i \in 1 .. Len(q) : Keeper!IsMount(q[i])} /\ IsFiniteSet(Keeper!Mounts(q))
  BY KeeperQueue
<1>4. Keeper!Mounts(r) = {i \in 1 .. Len(r) : Keeper!IsMount(r[i])}
  BY <1>1, KeeperQueue
<1> DEFINE f == [i \in Keeper!Mounts(r) |-> i + 1]
<1>5. \A i \in Keeper!Mounts(r) : i \in Nat /\ i + 1 \in Keeper!Mounts(q)
  BY <1>1, <1>2, <1>3, <1>4
<1>6. f \in [Keeper!Mounts(r) -> Keeper!Mounts(q)]
  BY <1>5
<1>7. \A i, j \in Keeper!Mounts(r) : f[i] = f[j] => i = j
  BY <1>5
<1>8. f \in Injection(Keeper!Mounts(r), Keeper!Mounts(q))
  BY <1>6, <1>7 DEF Injection, IsInjective
<1>9. Cardinality(Keeper!Mounts(r)) <= Cardinality(Keeper!Mounts(q))
  BY <1>3, <1>8, FS_Injection
<1> QED
  BY <1>1, <1>2, <1>9 DEF r

\* With one command of the user interface at most, the queue is short.
LEMMA KeeperBound ==
  ASSUME KeeperBounds, KeeperInv
  PROVE  Len(cmdq) <= 1 + MaxMounts
<1>1. /\ Len(cmdq) \in Nat /\ Keeper!Mounts(cmdq) = {i \in 1 .. Len(cmdq) : Keeper!IsMount(cmdq[i])}
      /\ IsFiniteSet(Keeper!Mounts(cmdq)) /\ Cardinality(Keeper!Mounts(cmdq)) \in Nat
  BY KeeperQueue DEF KeeperInv, KeeperTypes
<1>2. PICK a \in Nat : 1 .. Len(cmdq) \in SUBSET (Keeper!Mounts(cmdq) \cup {a})
  <2>1. ASSUME NEW a \in 1 .. Len(cmdq), ~Keeper!IsMount(cmdq[a])
        PROVE  a \in Nat /\ 1 .. Len(cmdq) \in SUBSET (Keeper!Mounts(cmdq) \cup {a})
    <3>1. \A i \in 1 .. Len(cmdq) : i \in Keeper!Mounts(cmdq) \/ i = a
      BY <1>1, <2>1 DEF KeeperInv, OneAsked
    <3> QED
      BY <1>1, <3>1
  <2>2. CASE \A i \in 1 .. Len(cmdq) : Keeper!IsMount(cmdq[i])
    BY <1>1, <2>2
  <2> QED
    BY <2>1, <2>2
<1>3. /\ IsFiniteSet(Keeper!Mounts(cmdq) \cup {a})
      /\ Cardinality(Keeper!Mounts(cmdq) \cup {a}) =
           IF a \in Keeper!Mounts(cmdq) THEN Cardinality(Keeper!Mounts(cmdq))
           ELSE Cardinality(Keeper!Mounts(cmdq)) + 1
  BY <1>1, FS_AddElement
<1>4. Cardinality(1 .. Len(cmdq)) <= Cardinality(Keeper!Mounts(cmdq) \cup {a})
  BY <1>2, <1>3, FS_Subset
<1>5. Cardinality(1 .. Len(cmdq)) = Len(cmdq)
  <2>1. 1 \in Int /\ Len(cmdq) \in Int /\ Len(cmdq) >= 0
    BY <1>1
  <2>2. Cardinality(1 .. Len(cmdq)) = IF 1 > Len(cmdq) THEN 0 ELSE Len(cmdq) - 1 + 1
    BY <2>1, FS_Interval
  <2> QED
    BY <2>1, <2>2
<1>6. MaxMounts \in Nat /\ Cardinality(Keeper!Mounts(cmdq)) <= MaxMounts
  BY DEF KeeperBounds, KeeperInv, FewMounts
<1> QED
  BY <1>1, <1>3, <1>4, <1>5, <1>6

LEMMA KeeperInit == KeeperBounds /\ Keeper!Init => KeeperInv
<1> SUFFICES ASSUME KeeperBounds, Keeper!Init
             PROVE  KeeperInv
  OBVIOUS
<1>1. {MaxChanges, MaxFaults, MaxMounts} \subseteq Nat /\ cmdq = << >> /\ Len(cmdq) = 0
  BY DEF KeeperBounds, Keeper!Init
<1>2. KeeperTypes
  BY <1>1 DEF Keeper!Init, KeeperTypes, CameraRecords
<1>3. KeeperPlaces
  BY DEF Keeper!Init, KeeperPlaces
<1>4. OneAsked
  BY <1>1 DEF Keeper!Init, OneAsked
<1>5. FewMounts
  <2>1. cmdq \in Seq(KeeperCommands)
    BY <1>1
  <2>2. Keeper!Mounts(cmdq) = {i \in 1 .. Len(cmdq) : Keeper!IsMount(cmdq[i])}
    BY <2>1, KeeperQueue
  <2>3. Keeper!Mounts(cmdq) = {}
    BY <1>1, <2>2
  <2>4. Cardinality(Keeper!Mounts(cmdq)) = 0
    BY <2>3, FS_EmptySet
  <2> QED
    BY <1>1, <2>4 DEF FewMounts
<1> QED
  BY <1>2, <1>3, <1>4, <1>5 DEF KeeperInv

LEMMA KeeperChange ==
  ASSUME KeeperBounds, KeeperInv, NEW c \in Cameras, NEW rec \in CameraRecords,
         Keeper!Change(c, rec)
  PROVE  db' \in [Cameras -> CameraRecords] /\ changes' \in 0 .. MaxChanges
<1>1. changes \in 0 .. MaxChanges /\ MaxChanges \in Nat /\ db \in [Cameras -> CameraRecords]
  BY DEF KeeperInv, KeeperTypes, KeeperBounds
<1> QED
  BY <1>1 DEF Keeper!Change

\* Steps that leave commands, callers and the place of the keeper alone.
LEMMA KeeperQuiet ==
  ASSUME KeeperBounds, KeeperInv,
         \/ \E c \in Cameras : Keeper!Assign(c) \/ Keeper!Rediscovered(c) \/ Keeper!Silence(c)
            \/ Keeper!FramesAgain(c)
         \/ \E c \in Watched : Keeper!WriterBegins(c)
         \/ Keeper!WriterFinds \/ Keeper!WriterDone \/ UNCHANGED Keeper!vars
  PROVE  KeeperInv'
<1>1. UNCHANGED <<mutex, kpc, cmdq, cmd, Keeper!callers>>
  BY DEF Keeper!Assign, Keeper!Rediscovered, Keeper!Change, Keeper!Silence, Keeper!FramesAgain,
         Keeper!WriterBegins, Keeper!WriterFinds, Keeper!WriterDone, Keeper!vars,
         Keeper!keeper, Keeper!callers, Keeper!database
<1>2. KeeperTypes'
  <2>1. db' \in [Cameras -> CameraRecords] /\ changes' \in 0 .. MaxChanges
    <3>1. ASSUME NEW c \in Cameras, Keeper!Assign(c)
          PROVE  db' \in [Cameras -> CameraRecords] /\ changes' \in 0 .. MaxChanges
      <4>1. db[c] \in CameraRecords
        BY DEF KeeperInv, KeeperTypes
      <4>2. [db[c] EXCEPT !.assigned = ~@] \in CameraRecords
        BY <4>1 DEF CameraRecords
      <4> QED
        BY <3>1, <4>2, KeeperChange DEF Keeper!Assign
    <3>2. ASSUME NEW c \in Cameras, Keeper!Rediscovered(c)
          PROVE  db' \in [Cameras -> CameraRecords] /\ changes' \in 0 .. MaxChanges
      <4>1. db[c] \in CameraRecords
        BY DEF KeeperInv, KeeperTypes
      <4>2. [db[c] EXCEPT !.url = 1 - @] \in CameraRecords
        BY <4>1 DEF CameraRecords
      <4> QED
        BY <3>2, <4>2, KeeperChange DEF Keeper!Rediscovered
    <3>3. CASE UNCHANGED Keeper!database
      BY <3>3 DEF Keeper!database, KeeperInv, KeeperTypes
    <3> QED
      BY <3>1, <3>2, <3>3 DEF Keeper!Silence, Keeper!FramesAgain, Keeper!WriterBegins,
                              Keeper!WriterFinds, Keeper!WriterDone, Keeper!vars
  <2>2. streams' \in [Cameras -> Recordings \cup {Keeper!NoStream}] /\ faults' \in 0 .. MaxFaults
    <3>1. ASSUME NEW c \in Cameras, Keeper!Silence(c)
          PROVE  /\ streams' \in [Cameras -> Recordings \cup {Keeper!NoStream}]
                 /\ faults' \in 0 .. MaxFaults
      <4>1. streams[c] \in Recordings
        BY <3>1 DEF Keeper!Silence, Keeper!Present, KeeperInv, KeeperTypes
      <4>2. [streams[c] EXCEPT !.silent = TRUE] \in Recordings
        BY <4>1 DEF Recordings
      <4> QED
        BY <3>1, <4>2 DEF Keeper!Silence, KeeperInv, KeeperTypes, KeeperBounds
    <3>2. ASSUME NEW c \in Cameras, Keeper!FramesAgain(c)
          PROVE  /\ streams' \in [Cameras -> Recordings \cup {Keeper!NoStream}]
                 /\ faults' \in 0 .. MaxFaults
      <4>1. streams[c] \in Recordings
        BY <3>2 DEF Keeper!FramesAgain, Keeper!Present, KeeperInv, KeeperTypes
      <4>2. [streams[c] EXCEPT !.silent = FALSE] \in Recordings
        BY <4>1 DEF Recordings
      <4> QED
        BY <3>2, <4>2 DEF Keeper!FramesAgain, KeeperInv, KeeperTypes
    <3>3. CASE UNCHANGED <<streams, faults>>
      BY <3>3 DEF KeeperInv, KeeperTypes
    <3> QED
      BY <3>1, <3>2, <3>3 DEF Keeper!Assign, Keeper!Rediscovered, Keeper!Change,
                              Keeper!WriterBegins, Keeper!WriterFinds, Keeper!WriterDone,
                              Keeper!vars, Keeper!keeper
  <2> QED
    BY <1>1, <2>1, <2>2 DEF KeeperInv, KeeperTypes
<1>3. KeeperPlaces' /\ OneAsked' /\ FewMounts'
  BY <1>1 DEF KeeperInv, KeeperPlaces, OneAsked, FewMounts, Keeper!callers, Keeper!Mounts,
              Keeper!IsMount
<1> QED
  BY <1>2, <1>3 DEF KeeperInv

\* Some streams leave the map.
LEMMA KeeperErases ==
  ASSUME KeeperInv, NEW C, Keeper!Erase(C)
  PROVE  streams' \in [Cameras -> Recordings \cup {Keeper!NoStream}]
  BY DEF Keeper!Erase, KeeperInv, KeeperTypes

\* The part of a turn under the mutex.
LEMMA KeeperTurns ==
  ASSUME KeeperBounds, KeeperInv,
         Keeper!Top \/ Keeper!RemoveModified \/ Keeper!RemoveUnassigned \/ Keeper!Add
  PROVE  KeeperInv'
<1>1. /\ UNCHANGED <<Keeper!database, cmdq, cmd, Keeper!callers>>
      /\ kpc # "serve" /\ kpc' # "serve"
  BY DEF Keeper!Top, Keeper!RemoveModified, Keeper!RemoveUnassigned, Keeper!Add, Keeper!Query
<1>2. streams' \in [Cameras -> Recordings \cup {Keeper!NoStream}]
  <2>1. CASE Keeper!Top
    BY <2>1, KeeperErases DEF Keeper!Top, KeeperInv, KeeperTypes
  <2>2. CASE Keeper!RemoveModified
    BY <2>2, KeeperErases DEF Keeper!RemoveModified
  <2>3. CASE Keeper!RemoveUnassigned
    BY <2>3, KeeperErases DEF Keeper!RemoveUnassigned
  <2>4. CASE Keeper!Add
    <3>1. PICK C \in SUBSET Keeper!Missing : streams' = Keeper!Added(C)
      BY <2>4 DEF Keeper!Add
    <3>2. \A c \in Cameras : db[c] \in CameraRecords
      BY DEF KeeperInv, KeeperTypes
    <3>3. \A c \in Cameras :
            [rec |-> db[c], stopped |-> FALSE, silent |-> FALSE] \in Recordings
      BY <3>2 DEF Recordings
    <3> QED
      BY <3>1, <3>3 DEF Keeper!Added, KeeperInv, KeeperTypes
  <2> QED
    BY <2>1, <2>2, <2>3, <2>4
<1>3. faults' \in 0 .. MaxFaults
  BY DEF Keeper!Top, Keeper!RemoveModified, Keeper!RemoveUnassigned, Keeper!Add, Keeper!Query,
         KeeperInv, KeeperTypes, KeeperBounds
<1>4. KeeperTypes'
  BY <1>1, <1>2, <1>3 DEF KeeperInv, KeeperTypes, Keeper!database
<1>5. KeeperPlaces'
  BY <1>1 DEF Keeper!Top, Keeper!RemoveModified, Keeper!RemoveUnassigned, Keeper!Add, Keeper!Query,
              Keeper!callers, KeeperInv, KeeperPlaces
<1>6. OneAsked' /\ FewMounts'
  BY <1>1 DEF KeeperInv, OneAsked, FewMounts, Keeper!callers, Keeper!Mounts, Keeper!IsMount
<1> QED
  BY <1>4, <1>5, <1>6 DEF KeeperInv

\* A command that the user interface will wait for joins the queue.
LEMMA KeeperAsked ==
  ASSUME KeeperBounds, KeeperInv, NEW c \in KeeperCommands, ~Keeper!IsMount(c), Keeper!Ask(c),
         db' \in [Cameras -> CameraRecords], changes' \in 0 .. MaxChanges
  PROVE  KeeperInv'
<1>1. /\ recorder = "idle" /\ recorder' = "waiting" /\ cmdq' = Append(cmdq, c)
      /\ UNCHANGED <<streams, faults, mutex, kpc, cmd, recording, writer>>
  BY DEF Keeper!Ask
<1>2. cmdq \in Seq(KeeperCommands) /\ Len(cmdq) \in Nat
  BY DEF KeeperInv, KeeperTypes
<1>3. /\ cmdq' \in Seq(KeeperCommands) /\ Len(cmdq') = Len(cmdq) + 1 /\ cmdq'[Len(cmdq) + 1] = c
      /\ \A i \in 1 .. Len(cmdq) : cmdq'[i] = cmdq[i]
      /\ Cardinality(Keeper!Mounts(cmdq')) = Cardinality(Keeper!Mounts(cmdq))
  BY <1>1, <1>2, KeeperAppend
<1>4. /\ \A i \in 1 .. Len(cmdq) : Keeper!IsMount(cmdq[i])
      /\ kpc = "serve" => Keeper!IsMount(cmd)
  BY <1>1 DEF KeeperInv, OneAsked
<1>5. \A i \in 1 .. Len(cmdq') : ~Keeper!IsMount(cmdq'[i]) => i = Len(cmdq) + 1
  BY <1>2, <1>3, <1>4
<1>6. OneAsked'
  BY <1>1, <1>4, <1>5 DEF OneAsked, Keeper!IsMount
<1>7. KeeperTypes' /\ KeeperPlaces'
  BY <1>1, <1>3 DEF KeeperInv, KeeperTypes, KeeperPlaces
<1>8. FewMounts'
  BY <1>3 DEF KeeperInv, FewMounts, Keeper!Mounts, Keeper!IsMount
<1> QED
  BY <1>6, <1>7, <1>8 DEF KeeperInv

LEMMA KeeperAsks ==
  ASSUME KeeperBounds, KeeperInv, Keeper!AskRecording \/ \E c \in Cameras : Keeper!SaveSettings(c)
  PROVE  KeeperInv'
<1>1. CASE Keeper!AskRecording
  <2> DEFINE c == [cmd |-> "is_recording"]
  <2>1. c \in KeeperCommands /\ ~Keeper!IsMount(c)
    BY DEF KeeperCommands, Keeper!IsMount
  <2>2. Keeper!Ask(c) /\ UNCHANGED Keeper!database
    BY <1>1 DEF Keeper!AskRecording
  <2>3. db' \in [Cameras -> CameraRecords] /\ changes' \in 0 .. MaxChanges
    BY <2>2 DEF Keeper!database, KeeperInv, KeeperTypes
  <2> HIDE DEF c
  <2> QED
    BY <2>1, <2>2, <2>3, KeeperAsked
<1>2. ASSUME NEW cam \in Cameras, Keeper!SaveSettings(cam)
      PROVE  KeeperInv'
  <2> DEFINE c == [cmd |-> "stop", cam |-> cam]
  <2>1. c \in KeeperCommands /\ ~Keeper!IsMount(c)
    BY DEF KeeperCommands, Keeper!IsMount
  <2>2. Keeper!Ask(c)
    BY <1>2 DEF Keeper!SaveSettings
  <2>3. db' \in [Cameras -> CameraRecords] /\ changes' \in 0 .. MaxChanges
    <3>1. PICK url \in {0, 1} : Keeper!Change(cam, [db[cam] EXCEPT !.setting = @ + 1, !.url = url])
      BY <1>2 DEF Keeper!SaveSettings
    <3>2. db[cam] \in CameraRecords
      BY DEF KeeperInv, KeeperTypes
    <3>3. [db[cam] EXCEPT !.setting = @ + 1, !.url = url] \in CameraRecords
      <4> DEFINE r == db[cam]
                 saved == [r EXCEPT !.setting = @ + 1]
      <4>1. saved \in CameraRecords
        BY <3>2 DEF CameraRecords
      <4> HIDE DEF saved
      <4>2. [saved EXCEPT !.url = url] \in CameraRecords
        BY <4>1 DEF CameraRecords
      <4> QED
        BY <4>2 DEF saved
    <3> QED
      BY <3>1, <3>3, KeeperChange
  <2> HIDE DEF c
  <2> QED
    BY <2>1, <2>2, <2>3, KeeperAsked
<1> QED
  BY <1>1, <1>2

LEMMA KeeperAskMount ==
  ASSUME KeeperBounds, KeeperInv, Keeper!AskMount
  PROVE  KeeperInv'
<1> DEFINE c == [cmd |-> "mount"]
<1>1. /\ cmdq' = Append(cmdq, c) /\ Cardinality(Keeper!Mounts(cmdq)) < MaxMounts
      /\ UNCHANGED <<Keeper!database, streams, faults, mutex, kpc, cmd, Keeper!callers, writer>>
  BY DEF Keeper!AskMount, Keeper!Cardinality, Cardinality
<1>2. c \in KeeperCommands /\ Keeper!IsMount(c)
  BY DEF KeeperCommands, Keeper!IsMount
<1> HIDE DEF c
<1>3. cmdq \in Seq(KeeperCommands) /\ Len(cmdq) \in Nat
  BY DEF KeeperInv, KeeperTypes
<1>4. /\ cmdq' \in Seq(KeeperCommands) /\ Len(cmdq') = Len(cmdq) + 1 /\ cmdq'[Len(cmdq) + 1] = c
      /\ \A i \in 1 .. Len(cmdq) : cmdq'[i] = cmdq[i]
      /\ Cardinality(Keeper!Mounts(cmdq')) <= Cardinality(Keeper!Mounts(cmdq)) + 1
  BY <1>1, <1>2, <1>3, KeeperAppend
<1>5. /\ Cardinality(Keeper!Mounts(cmdq')) \in Nat
      /\ Cardinality(Keeper!Mounts(cmdq)) \in Nat /\ MaxMounts \in Nat
  BY <1>3, <1>4, KeeperQueue DEF KeeperBounds
<1>6. FewMounts'
  <2>1. Cardinality(Keeper!Mounts(cmdq')) <= MaxMounts
    BY <1>1, <1>4, <1>5
  <2> QED
    BY <2>1 DEF FewMounts, Keeper!Mounts, Keeper!IsMount
<1>7. \A i \in 1 .. Len(cmdq') : ~Keeper!IsMount(cmdq'[i]) =>
        i \in 1 .. Len(cmdq) /\ ~Keeper!IsMount(cmdq[i])
  BY <1>2, <1>3, <1>4
<1>8. \A i \in 1 .. Len(cmdq') : i \in 1 .. Len(cmdq) \/ i = Len(cmdq) + 1
  BY <1>3, <1>4
<1>9. OneAsked'
  BY <1>1, <1>2, <1>4, <1>7, <1>8 DEF KeeperInv, OneAsked, Keeper!callers, Keeper!IsMount
<1>10. KeeperTypes' /\ KeeperPlaces'
  BY <1>1, <1>4 DEF KeeperInv, KeeperTypes, KeeperPlaces, Keeper!database, Keeper!callers
<1> QED
  BY <1>6, <1>9, <1>10 DEF KeeperInv

LEMMA KeeperPolls ==
  ASSUME KeeperBounds, KeeperInv, Keeper!Poll
  PROVE  KeeperInv'
<1>1. kpc = "poll" /\ UNCHANGED <<Keeper!database, streams, faults, mutex, Keeper!callers, writer>>
  BY DEF Keeper!Poll
<1>2. CASE cmdq = << >>
  <2>1. kpc' = "top" /\ UNCHANGED <<cmdq, cmd>>
    BY <1>2 DEF Keeper!Poll
  <2>2. KeeperTypes' /\ KeeperPlaces'
    BY <1>1, <2>1 DEF KeeperInv, KeeperTypes, KeeperPlaces, Keeper!database, Keeper!callers
  <2>3. OneAsked' /\ FewMounts'
    BY <1>1, <2>1 DEF KeeperInv, OneAsked, FewMounts, Keeper!callers, Keeper!Mounts, Keeper!IsMount
  <2> QED
    BY <2>2, <2>3 DEF KeeperInv
<1>3. CASE cmdq # << >>
  <2>1. kpc' = "serve" /\ cmd' = Head(cmdq) /\ cmdq' = Tail(cmdq)
    BY <1>3 DEF Keeper!Poll
  <2>2. cmdq \in Seq(KeeperCommands)
    BY DEF KeeperInv, KeeperTypes
  <2>3. /\ cmd' \in KeeperCommands /\ cmd' = cmdq[1] /\ 1 \in 1 .. Len(cmdq)
        /\ cmdq' \in Seq(KeeperCommands)
        /\ \A i \in 1 .. Len(cmdq') : i + 1 \in 1 .. Len(cmdq) /\ cmdq'[i] = cmdq[i + 1]
        /\ Cardinality(Keeper!Mounts(cmdq')) <= Cardinality(Keeper!Mounts(cmdq))
    BY <1>3, <2>1, <2>2, KeeperTail
  <2>4. KeeperTypes' /\ KeeperPlaces'
    BY <1>1, <2>1, <2>3 DEF KeeperInv, KeeperTypes, KeeperPlaces, Keeper!database, Keeper!callers
  <2>5. FewMounts'
    <3>1. /\ Cardinality(Keeper!Mounts(cmdq')) \in Nat /\ Cardinality(Keeper!Mounts(cmdq)) \in Nat
          /\ MaxMounts \in Nat
      BY <2>2, <2>3, KeeperQueue DEF KeeperBounds
    <3>2. Cardinality(Keeper!Mounts(cmdq')) <= MaxMounts
      BY <2>3, <3>1 DEF KeeperInv, FewMounts
    <3> QED
      BY <3>2 DEF FewMounts, Keeper!Mounts, Keeper!IsMount
  <2>6. OneAsked'
    <3>1. \A i, j \in 1 .. Len(cmdq') : i + 1 = j + 1 => i = j
      OBVIOUS
    <3>2. \A i \in 1 .. Len(cmdq') : i + 1 # 1
      OBVIOUS
    <3>3. /\ \A i \in 1 .. Len(cmdq) : ~Keeper!IsMount(cmdq[i]) => recorder = "waiting"
          /\ \A i, j \in 1 .. Len(cmdq) : ~Keeper!IsMount(cmdq[i])
             /\ ~Keeper!IsMount(cmdq[j]) => i = j
      BY DEF KeeperInv, OneAsked
    <3>4. recorder' = recorder
      BY <1>1 DEF Keeper!callers
    <3>5. \A i \in 1 .. Len(cmdq') : ~Keeper!IsMount(cmdq'[i]) => recorder' = "waiting"
      BY <2>3, <3>3, <3>4
    <3>6. \A i, j \in 1 .. Len(cmdq') :
            ~Keeper!IsMount(cmdq'[i]) /\ ~Keeper!IsMount(cmdq'[j]) => i = j
      BY <2>3, <3>1, <3>3
    <3>7. ~Keeper!IsMount(cmd') =>
            recorder' = "waiting" /\ \A i \in 1 .. Len(cmdq') : Keeper!IsMount(cmdq'[i])
      BY <2>3, <3>2, <3>3, <3>4
    <3> QED
      BY <3>5, <3>6, <3>7 DEF OneAsked, Keeper!IsMount
  <2> QED
    BY <2>4, <2>5, <2>6 DEF KeeperInv
<1> QED
  BY <1>2, <1>3

LEMMA KeeperServes ==
  ASSUME KeeperBounds, KeeperInv, Keeper!ServeRecording \/ Keeper!ServeStop \/ Keeper!ServeMount
  PROVE  KeeperInv'
<1>1. /\ kpc = "serve" /\ mutex = "free" /\ kpc' = "top" /\ cmd' = Keeper!NoRef
      /\ UNCHANGED <<Keeper!database, faults, mutex, cmdq, recording, writer>>
      /\ IF Keeper!IsMount(cmd) THEN recorder' = recorder ELSE recorder' = "idle"
  BY DEF Keeper!ServeRecording, Keeper!ServeStop, Keeper!ServeMount, Keeper!IsMount, Keeper!callers
<1>2. streams' \in [Cameras -> Recordings \cup {Keeper!NoStream}]
  <2>1. CASE Keeper!ServeStop
    <3>1. \A c \in Cameras : Keeper!Stopped(c) \in Recordings \cup {Keeper!NoStream}
      BY DEF Keeper!Stopped, KeeperInv, KeeperTypes, Recordings
    <3> QED
      BY <2>1, <3>1 DEF Keeper!ServeStop, KeeperInv, KeeperTypes
  <2>2. CASE UNCHANGED streams
    BY <2>2 DEF KeeperInv, KeeperTypes
  <2> QED
    BY <2>1, <2>2 DEF Keeper!ServeRecording, Keeper!ServeMount
<1>3. KeeperTypes'
  BY <1>1, <1>2 DEF KeeperInv, KeeperTypes, Keeper!database
<1>4. ~Keeper!IsMount(cmd) =>
        recorder = "waiting" /\ \A i \in 1 .. Len(cmdq) : Keeper!IsMount(cmdq[i])
  BY <1>1 DEF KeeperInv, OneAsked
<1>5. KeeperPlaces'
  BY <1>1, <1>4 DEF KeeperInv, KeeperPlaces
<1>6. OneAsked'
  BY <1>1, <1>4 DEF KeeperInv, OneAsked, Keeper!IsMount
<1>7. FewMounts'
  BY <1>1 DEF KeeperInv, FewMounts, Keeper!Mounts, Keeper!IsMount
<1> QED
  BY <1>3, <1>5, <1>6, <1>7 DEF KeeperInv

\* stop before and after its critical section: the mutex stays where it is.
LEMMA KeeperStops ==
  ASSUME KeeperBounds, KeeperInv,
         Keeper!CallStop \/ Keeper!PluginsSeeStop \/ Keeper!PluginsJoined \/ Keeper!KeeperJoined
  PROVE  KeeperInv'
<1>1. /\ UNCHANGED <<Keeper!database, Keeper!keeper>>
      /\ recorder \notin {"waiting", "stopping"} /\ recorder' \notin {"waiting", "stopping"}
  BY DEF Keeper!CallStop, Keeper!PluginsSeeStop, Keeper!PluginsJoined, Keeper!KeeperJoined
<1>2. KeeperTypes'
  BY <1>1 DEF KeeperInv, KeeperTypes, Keeper!database, Keeper!keeper
<1>3. KeeperPlaces'
  BY <1>1 DEF Keeper!CallStop, Keeper!PluginsSeeStop, Keeper!PluginsJoined, Keeper!KeeperJoined,
              Keeper!keeper, KeeperInv, KeeperPlaces
<1>4. OneAsked' /\ FewMounts'
  BY <1>1 DEF KeeperInv, OneAsked, FewMounts, Keeper!keeper, Keeper!Mounts, Keeper!IsMount
<1> QED
  BY <1>2, <1>3, <1>4 DEF KeeperInv

\* stop takes the mutex, stops the streams one after the other and gives it back.
LEMMA KeeperStopsStreams ==
  ASSUME KeeperBounds, KeeperInv,
         \/ Keeper!LockStreams \/ Keeper!UnlockStreams
         \/ \E c \in Cameras : Keeper!StopOne(c)
  PROVE  KeeperInv'
<1>1. /\ UNCHANGED <<Keeper!database, faults, kpc, cmdq, cmd, recording>>
      /\ recorder # "waiting" /\ recorder' # "waiting"
  BY DEF Keeper!LockStreams, Keeper!UnlockStreams, Keeper!StopOne, Keeper!callers
<1>2. streams' \in [Cameras -> Recordings \cup {Keeper!NoStream}]
  <2>1. \A c \in Cameras : Keeper!Stopped(c) \in Recordings \cup {Keeper!NoStream}
    BY DEF Keeper!Stopped, KeeperInv, KeeperTypes, Recordings
  <2> QED
    BY <2>1 DEF Keeper!LockStreams, Keeper!UnlockStreams, Keeper!StopOne, KeeperInv, KeeperTypes
<1>3. KeeperTypes'
  BY <1>1, <1>2 DEF KeeperInv, KeeperTypes, Keeper!database
<1>4. KeeperPlaces'
  BY <1>1 DEF Keeper!LockStreams, Keeper!UnlockStreams, Keeper!StopOne, Keeper!callers,
              KeeperInv, KeeperPlaces
<1>5. OneAsked' /\ FewMounts'
  BY <1>1 DEF KeeperInv, OneAsked, FewMounts, Keeper!Mounts, Keeper!IsMount
<1> QED
  BY <1>3, <1>4, <1>5 DEF KeeperInv

LEMMA KeeperInvariance ==
  ASSUME KeeperBounds
  PROVE  Keeper!Spec => []KeeperInv
<1>1. Keeper!Init => KeeperInv
  BY KeeperInit
<1>2. KeeperInv /\ [Keeper!Next]_Keeper!vars => KeeperInv'
  BY KeeperQuiet, KeeperTurns, KeeperAsks, KeeperAskMount, KeeperPolls, KeeperServes, KeeperStops,
     KeeperStopsStreams DEF Keeper!Next, Keeper!Keeper, Keeper!Stop
<1> QED
  BY <1>1, <1>2, PTL DEF Keeper!Spec

\* The mutex is held in the keeper's critical section or in that of stop, never in both
\* and nowhere else, and the keeper's queue has at most one command besides the mounts
\* (r_stream_keeper::_entry_point, stop, _cmd_q).
THEOREM KeeperTypeCorrect ==
  ASSUME KeeperBounds
  PROVE  Keeper!Spec => []Keeper!TypeOK
<1>1. KeeperInv => Keeper!TypeOK
  <2> SUFFICES ASSUME KeeperInv
               PROVE  Keeper!TypeOK
    OBVIOUS
  <2>1. \A c \in Keeper!Present(streams) : {streams[c].stopped, streams[c].silent} \subseteq BOOLEAN
    BY DEF Keeper!Present, KeeperInv, KeeperTypes, Recordings
  <2>2. Len(cmdq) <= 1 + MaxMounts
    BY KeeperBound
  <2> QED
    BY <2>1, <2>2 DEF Keeper!TypeOK, KeeperInv, KeeperTypes, KeeperPlaces
<1> QED
  BY <1>1, KeeperInvariance, PTL

\* The user interface waits for one command at a time; it is in the queue or being
\* served, and every other command there is a mount, whose caller waits a second at
\* most (is_recording, bounce, _options_cb).
THEOREM OneCommandWaits ==
  ASSUME KeeperBounds
  PROVE  Keeper!Spec => []OneAsked
<1>1. KeeperInv => OneAsked
  BY DEF KeeperInv
<1> QED
  BY <1>1, KeeperInvariance, PTL

-----------------------------------------------------------------------------
(* The viewer.                                                             *)

ViewerBounds ==
  /\ {MaxPipes, MaxSamples} \subseteq Nat \ {0}
  /\ "none" \notin Cameras /\ "none" \notin Slots

Pictures == [Slots -> Cameras \cup {"none"}]
Pipelines ==
  [slot : Slots \cup {"none"}, cam : Cameras \cup {"none"},
   source : {"stopped", "live", "playback"},
   thread : {"none", "starting", "loop", "posting", "ended"},
   alive : BOOLEAN, samples : 0 .. MaxSamples, last : BOOLEAN, settled : BOOLEAN,
   video : BOOLEAN, audio : {"none", "old", "new"}, doomed : BOOLEAN]

ViewTypes ==
  /\ infos \in Pictures /\ waiting \in Pictures /\ shown \in Pictures
  /\ tracking \subseteq Slots

PipeTypes ==
  /\ pipes \in [Slots -> Viewer!Pipes \cup {Viewer!NoPipe}]
  /\ pipe \in [Viewer!Pipes -> Pipelines]

ThreadTypes ==
  /\ viewer \in [at : {"loop", "destroying", "stopping", "closing", "ended"},
                 old : SUBSET Viewer!Pipes]
  /\ host \in [at : {"asleep", "checking", "joining", "ended"}, todo : SUBSET Slots,
               victim : Viewer!Pipes \cup {Viewer!NoPipe}]
  /\ lock = (IF host.at \in {"checking", "joining"} THEN "host" ELSE "free")

\* A pipeline in the map is of its slot, is not being destroyed, and its thread
\* does not end.
InMap(r, n) ==
  /\ r.slot = n /\ ~r.doomed
  /\ r.thread = "starting" \/ (r.alive /\ r.thread \in {"loop", "posting"})

MapOK == \A n \in Slots : pipes[n] # Viewer!NoPipe => InMap(pipe[pipes[n]], n)

\* Pipelines are created in order, and exist from then on.
Made(r) == r.thread # "none"
InOrder ==
  /\ \A p \in Viewer!Pipes : ~Made(pipe[p]) => pipe[p] = Viewer!NotCreated
  /\ \A p, q \in Viewer!Pipes : p < q /\ Made(pipe[q]) => Made(pipe[p])

\* What the main thread destroys is out of the map, and what the host has still
\* to look at is in it.
Leaving ==
  /\ \A p \in viewer.old : Made(pipe[p]) /\ \A n \in Slots : pipes[n] # p
  /\ \A n \in host.todo : pipes[n] # Viewer!NoPipe
  /\ host.at \in {"asleep", "ended"} => host.todo = {}

ViewerInv == ViewTypes /\ PipeTypes /\ ThreadTypes /\ MapOK /\ InOrder /\ Leaving

LEMMA PipesAre ==
  ASSUME ViewerBounds
  PROVE  /\ MaxPipes \in Nat /\ MaxSamples \in Nat /\ Viewer!Pipes = 1 .. MaxPipes
         /\ Viewer!NoPipe = 0
         /\ Viewer!NoPipe \notin Viewer!Pipes /\ Viewer!NotCreated \in Pipelines
            /\ ~Made(Viewer!NotCreated)
<1>1. MaxPipes \in Nat /\ MaxSamples \in Nat /\ Viewer!Pipes = 1 .. MaxPipes
         /\ Viewer!NoPipe = 0
  BY DEF ViewerBounds, Viewer!Pipes, Viewer!NoPipe
<1>2. 0 \in 0 .. MaxSamples
  BY <1>1
<1>3. Viewer!NotCreated \in Pipelines
  BY <1>2 DEF Viewer!NotCreated, Pipelines
<1>4. ~Made(Viewer!NotCreated)
  BY DEF Viewer!NotCreated, Made
<1> QED
  BY <1>1, <1>3, <1>4

LEMMA ViewerInit == ViewerBounds /\ Viewer!Init => ViewerInv
<1> SUFFICES ASSUME ViewerBounds, Viewer!Init
             PROVE  ViewerInv
  OBVIOUS
<1>1. ViewTypes
  BY DEF Viewer!Init, ViewTypes, Pictures
<1>2. PipeTypes
  BY PipesAre DEF Viewer!Init, PipeTypes
<1>3. ThreadTypes
  BY DEF Viewer!Init, ThreadTypes
<1>4. MapOK
  BY DEF Viewer!Init, MapOK
<1>5. InOrder
  BY PipesAre DEF Viewer!Init, InOrder
<1>6. Leaving
  BY DEF Viewer!Init, Leaving
<1> QED
  BY <1>1, <1>2, <1>3, <1>4, <1>5, <1>6 DEF ViewerInv

\* Pipelines in the map are of slots of their own.
LEMMA OwnSlots ==
  ASSUME ViewerInv, NEW n \in Slots, pipes[n] # Viewer!NoPipe
  PROVE  /\ pipes[n] \in Viewer!Pipes /\ Made(pipe[pipes[n]]) /\ InMap(pipe[pipes[n]], n)
         /\ \A m \in Slots : pipes[m] = pipes[n] => m = n
<1>1. pipes[n] \in Viewer!Pipes /\ InMap(pipe[pipes[n]], n)
  BY DEF ViewerInv, PipeTypes, MapOK
<1> QED
  BY <1>1 DEF InMap, Made, ViewerInv, MapOK

\* A step that gives one pipeline another record of the same slot.
Rewrites(p, r) ==
  /\ pipe' = [pipe EXCEPT ![p] = r] /\ UNCHANGED <<pipes, lock, viewer, host>>

LEMMA RewriteStep ==
  ASSUME ViewerBounds, ViewerInv, ViewTypes', NEW p \in Viewer!Pipes,
         NEW r \in Pipelines, Rewrites(p, r),
         Made(pipe[p]), Made(r),
         \A n \in Slots : pipes[n] = p => InMap(r, n)
  PROVE  ViewerInv'
<1>1. /\ pipe' = [pipe EXCEPT ![p] = r] /\ pipe \in [Viewer!Pipes -> Pipelines]
      /\ UNCHANGED <<pipes, lock, viewer, host>>
  BY DEF Rewrites, ViewerInv, PipeTypes
<1>2. \A q \in Viewer!Pipes : pipe'[q] = IF q = p THEN r ELSE pipe[q]
  BY <1>1
<1>3. PipeTypes' /\ ThreadTypes'
  BY <1>1 DEF ViewerInv, PipeTypes, ThreadTypes
<1>4. MapOK'
  <2> SUFFICES ASSUME NEW n \in Slots, pipes[n] # Viewer!NoPipe
               PROVE  InMap(pipe'[pipes[n]], n)
    BY <1>1 DEF MapOK, InMap
  <2> QED
    BY <1>2, OwnSlots
<1>5. \A q \in Viewer!Pipes : Made(pipe'[q]) <=> Made(pipe[q])
  BY <1>2
<1>6. InOrder'
  <2>1. \A q \in Viewer!Pipes : ~Made(pipe'[q]) => pipe'[q] = Viewer!NotCreated
    BY <1>2, <1>5 DEF ViewerInv, InOrder
  <2>2. \A q, s \in Viewer!Pipes : q < s /\ Made(pipe'[s]) => Made(pipe'[q])
    BY <1>5 DEF ViewerInv, InOrder
  <2> QED
    BY <2>1, <2>2 DEF InOrder, Made
<1>7. Leaving'
  <2>1. viewer.old \in SUBSET Viewer!Pipes
    BY DEF ViewerInv, ThreadTypes
  <2> QED
    BY <1>1, <1>5, <2>1 DEF ViewerInv, Leaving, Made
<1> QED
  BY <1>3, <1>4, <1>6, <1>7 DEF ViewerInv

\* The number of samples and what arrived do not concern the map.
LEMMA SamplesChange ==
  ASSUME NEW o \in Pipelines, NEW k \in 0 .. MaxSamples
  PROVE  LET r == [o EXCEPT !.samples = k]
         IN r \in Pipelines /\ r.thread = o.thread /\ r.alive = o.alive
            /\ r.doomed = o.doomed /\ r.slot = o.slot
  BY DEF Pipelines

\* The threads of pipelines, samples and time.
LEMMA PipeSteps ==
  ASSUME ViewerBounds, ViewerInv, NEW p \in Viewer!Pipes,
         \/ Viewer!VideoSample(p) \/ Viewer!AudioSample(p) \/ Viewer!Settle(p)
            \/ Viewer!Thread(p) \/ Viewer!PostVideoFrame(p)
         \/ Viewer!DestroyNext(p)
  PROVE  ViewerInv'
<1> DEFINE o == pipe[p]
<1>1. /\ o \in Pipelines /\ (o.thread = "none" => o = Viewer!NotCreated)
      /\ \A n \in Slots : pipes[n] = p => InMap(o, n)
      /\ MaxSamples \in Nat
  BY PipesAre DEF ViewerInv, PipeTypes, InOrder, MapOK, Made
<1>2. \A n \in Slots : infos[n] \in Cameras \cup {"none"}
  BY DEF ViewerInv, ViewTypes, Pictures
<1>3. o.samples \in 0 .. MaxSamples /\ o.cam \in Cameras \cup {"none"}
  BY <1>1 DEF Pipelines
<1>4. CASE Viewer!VideoSample(p)
  <2> DEFINE s == [o EXCEPT !.samples = @ + 1]
             r == [s EXCEPT !.video = TRUE]
  <2>1. o.source # "stopped" /\ o.samples < MaxSamples /\ Rewrites(p, r) /\ UNCHANGED Viewer!view
    BY <1>4 DEF Viewer!VideoSample, Rewrites
  <2>2. r \in Pipelines /\ r.thread = o.thread /\ \A n \in Slots : InMap(o, n) => InMap(r, n)
    <3>1. o.samples + 1 \in 0 .. MaxSamples
      BY <1>1, <1>3, <2>1
    <3>2. /\ s \in Pipelines /\ s.thread = o.thread /\ s.alive = o.alive
          /\ s.doomed = o.doomed /\ s.slot = o.slot
      BY <1>1, <3>1, SamplesChange
    <3> HIDE DEF s
    <3>3. /\ r \in Pipelines /\ r.thread = s.thread /\ r.alive = s.alive
          /\ r.doomed = s.doomed /\ r.slot = s.slot
      BY <3>2 DEF Pipelines
    <3> QED
      BY <3>2, <3>3 DEF InMap
  <2>3. Made(o) /\ Made(r)
    BY <1>1, <2>1, <2>2 DEF Made, Viewer!NotCreated
  <2>4. ViewTypes'
    BY <2>1 DEF Viewer!view, ViewerInv, ViewTypes
  <2> HIDE DEF r
  <2> QED
    BY <1>1, <2>1, <2>2, <2>3, <2>4, RewriteStep
<1>5. CASE Viewer!AudioSample(p)
  <2> DEFINE r == [o EXCEPT !.audio = "new"]
  <2>1. o.source # "stopped" /\ Rewrites(p, r) /\ UNCHANGED Viewer!view
    BY <1>5 DEF Viewer!AudioSample, Rewrites
  <2>2. r \in Pipelines /\ r.thread = o.thread /\ \A n \in Slots : InMap(o, n) => InMap(r, n)
    BY <1>1 DEF Pipelines, InMap
  <2>3. Made(o) /\ Made(r)
    BY <1>1, <2>1, <2>2 DEF Made, Viewer!NotCreated
  <2>4. ViewTypes'
    BY <2>1 DEF Viewer!view, ViewerInv, ViewTypes
  <2> HIDE DEF r
  <2> QED
    BY <1>1, <2>1, <2>2, <2>3, <2>4, RewriteStep
<1>6. CASE Viewer!Settle(p)
  <2> DEFINE r == [o EXCEPT !.settled = TRUE]
  <2>1. o.source # "stopped" /\ Rewrites(p, r) /\ UNCHANGED Viewer!view
    BY <1>6 DEF Viewer!Settle, Rewrites
  <2>2. r \in Pipelines /\ r.thread = o.thread /\ \A n \in Slots : InMap(o, n) => InMap(r, n)
    BY <1>1 DEF Pipelines, InMap
  <2>3. Made(o) /\ Made(r)
    BY <1>1, <2>1, <2>2 DEF Made, Viewer!NotCreated
  <2>4. ViewTypes'
    BY <2>1 DEF Viewer!view, ViewerInv, ViewTypes
  <2> HIDE DEF r
  <2> QED
    BY <1>1, <2>1, <2>2, <2>3, <2>4, RewriteStep
<1>7. CASE Viewer!ThreadStarts(p)
  <2> DEFINE r == [o EXCEPT !.thread = "loop", !.alive = TRUE]
  <2>1. o.thread = "starting" /\ Rewrites(p, r) /\ UNCHANGED Viewer!view
    BY <1>7 DEF Viewer!ThreadStarts, Rewrites
  <2>2. r \in Pipelines /\ r.thread = "loop" /\ \A n \in Slots : InMap(o, n) => InMap(r, n)
    BY <1>1 DEF Pipelines, InMap
  <2>3. Made(o) /\ Made(r)
    BY <2>1, <2>2 DEF Made
  <2>4. ViewTypes'
    BY <2>1 DEF Viewer!view, ViewerInv, ViewTypes
  <2> HIDE DEF r
  <2> QED
    BY <1>1, <2>1, <2>2, <2>3, <2>4, RewriteStep
<1>8. CASE Viewer!Decode(p)
  <2>1. PICK next \in {"loop", "posting"} :
          pipe' = [pipe EXCEPT ![p].samples = @ - 1, ![p].last = TRUE, ![p].thread = next]
    BY <1>8 DEF Viewer!Decode
  <2> DEFINE s == [o EXCEPT !.samples = @ - 1]
             d == [s EXCEPT !.last = TRUE]
             r == [d EXCEPT !.thread = next]
  <2>2. o.thread = "loop" /\ o.alive /\ o.samples > 0 /\ Rewrites(p, r) /\ UNCHANGED Viewer!view
    BY <1>8, <2>1 DEF Viewer!Decode, Rewrites
  <2>3. r \in Pipelines /\ r.thread = next /\ \A n \in Slots : InMap(o, n) => InMap(r, n)
    <3>1. o.samples - 1 \in 0 .. MaxSamples
      BY <1>1, <1>3, <2>2
    <3>2. /\ s \in Pipelines /\ s.alive = o.alive /\ s.doomed = o.doomed /\ s.slot = o.slot
      BY <1>1, <3>1, SamplesChange
    <3> HIDE DEF s
    <3>3. /\ d \in Pipelines /\ d.alive = s.alive /\ d.doomed = s.doomed /\ d.slot = s.slot
      BY <3>2 DEF Pipelines
    <3> HIDE DEF d
    <3>4. /\ r \in Pipelines /\ r.thread = next
          /\ r.alive = d.alive /\ r.doomed = d.doomed /\ r.slot = d.slot
      BY <3>3 DEF Pipelines
    <3> QED
      BY <2>2, <3>2, <3>3, <3>4 DEF InMap
  <2>4. Made(o) /\ Made(r)
    BY <2>2, <2>3 DEF Made
  <2>5. ViewTypes'
    BY <2>2 DEF Viewer!view, ViewerInv, ViewTypes
  <2> HIDE DEF r
  <2> QED
    BY <1>1, <2>2, <2>3, <2>4, <2>5, RewriteStep
<1>9. CASE Viewer!ThreadEnds(p)
  <2>1. o.thread = "loop" /\ ~o.alive /\ Rewrites(p, Viewer!Ended) /\ UNCHANGED Viewer!view
    BY <1>9 DEF Viewer!ThreadEnds, Rewrites
  <2>2. Viewer!Ended \in Pipelines /\ Made(Viewer!Ended)
    BY PipesAre DEF Viewer!Ended, Pipelines, Made, Viewer!NotCreated
  <2>3. \A n \in Slots : pipes[n] # p
    BY <1>1, <2>1 DEF InMap
  <2>4. ViewTypes' /\ Made(o)
    BY <2>1 DEF Viewer!view, ViewerInv, ViewTypes, Made
  <2> QED
    BY <1>1, <2>1, <2>2, <2>3, <2>4, RewriteStep
<1>10. CASE Viewer!PostVideoFrame(p)
  <2> DEFINE r == [o EXCEPT !.thread = "loop"]
  <2>1. /\ o.thread = "posting" /\ Rewrites(p, r) /\ UNCHANGED <<infos, shown, tracking>>
        /\ waiting' = [waiting EXCEPT ![o.slot] = IF @ = "none" THEN o.cam ELSE @]
    BY <1>10 DEF Viewer!PostVideoFrame, Rewrites
  <2>2. r \in Pipelines /\ r.thread = "loop" /\ \A n \in Slots : InMap(o, n) => InMap(r, n)
    BY <1>1, <2>1 DEF Pipelines, InMap
  <2>3. Made(o) /\ Made(r)
    BY <2>1, <2>2 DEF Made
  <2>4. ViewTypes'
    BY <1>3, <2>1 DEF ViewerInv, ViewTypes, Pictures
  <2> HIDE DEF r
  <2> QED
    BY <1>1, <2>1, <2>2, <2>3, <2>4, RewriteStep
<1>11. CASE Viewer!DestroyNext(p)
  <2> DEFINE r == Viewer!Doom(p)
  <2>1. p \in viewer.old /\ Rewrites(p, r) /\ UNCHANGED Viewer!view
    BY <1>11 DEF Viewer!DestroyNext, Rewrites
  <2>2. Made(o) /\ \A n \in Slots : pipes[n] # p
    BY <2>1 DEF ViewerInv, Leaving
  <2>3. r \in Pipelines /\ r.thread = o.thread
    BY <1>1 DEF Viewer!Doom, Pipelines
  <2>4. ViewTypes' /\ Made(r)
    BY <2>1, <2>2, <2>3 DEF Viewer!view, ViewerInv, ViewTypes, Made
  <2> HIDE DEF r
  <2> QED
    BY <1>1, <2>1, <2>2, <2>3, <2>4, RewriteStep
<1> QED
  BY <1>4, <1>5, <1>6, <1>7, <1>8, <1>9, <1>10, <1>11 DEF Viewer!Thread

\* Steps that change no pipeline and put none into the map.
LEMMA ShrinkStep ==
  ASSUME ViewerBounds, ViewerInv, ViewTypes', ThreadTypes', UNCHANGED pipe,
         pipes' \in [Slots -> Viewer!Pipes \cup {Viewer!NoPipe}],
         \A n \in Slots : pipes'[n] = pipes[n] \/ pipes'[n] = Viewer!NoPipe,
         \A p \in viewer'.old : Made(pipe[p]) /\ \A n \in Slots : pipes'[n] # p,
         \A n \in host'.todo : pipes'[n] # Viewer!NoPipe,
         host'.at \in {"asleep", "ended"} => host'.todo = {}
  PROVE  ViewerInv'
<1>1. PipeTypes'
  BY DEF ViewerInv, PipeTypes
<1>2. MapOK'
  BY DEF ViewerInv, MapOK, InMap
<1>3. InOrder'
  BY DEF ViewerInv, InOrder, Made
<1>4. Leaving'
  BY DEF Leaving, Made
<1> QED
  BY <1>1, <1>2, <1>3, <1>4 DEF ViewerInv

\* While the lock is free, the host has nothing to look at.
LEMMA FreeLock ==
  ASSUME ViewerInv, lock = "free"
  PROVE  host.todo = {}
  BY DEF ViewerInv, ThreadTypes, Leaving

LEMMA OwnedAre ==
  ASSUME ViewerBounds, ViewerInv, NEW p \in Viewer!Owned
  PROVE  p \in Viewer!Pipes /\ p # Viewer!NoPipe /\ Made(pipe[p])
  BY OwnSlots, PipesAre DEF Viewer!Owned

\* The user changes the layout or the camera of a slot.
LEMMA LayoutStep ==
  ASSUME ViewerBounds, ViewerInv, NEW new \in [Slots -> Cameras \cup {"none"}],
         Viewer!ChangeLayout(new)
  PROVE  ViewerInv'
<1>1. /\ lock = "free" /\ infos' = new /\ pipes' = [n \in Slots |-> Viewer!NoPipe]
      /\ waiting' = [n \in Slots |-> "none"] /\ shown' = [n \in Slots |-> "none"]
      /\ viewer' = IF Viewer!Owned = {} THEN viewer ELSE [at |-> "destroying", old |-> Viewer!Owned]
      /\ UNCHANGED <<pipe, tracking, validated, lock, host>>
  BY DEF Viewer!ChangeLayout, Viewer!Looping, Viewer!DestroyLater
<1>2. ViewTypes'
  BY <1>1 DEF ViewerInv, ViewTypes, Pictures
<1>3. Viewer!Owned \in SUBSET Viewer!Pipes
  BY OwnedAre
<1>4. ThreadTypes'
  BY <1>1, <1>3 DEF ViewerInv, ThreadTypes
<1>5. \A p \in viewer'.old : Made(pipe[p]) /\ p \in Viewer!Pipes
  BY <1>1, OwnedAre DEF ViewerInv, Leaving, ThreadTypes
<1>6. \A p \in viewer'.old : \A n \in Slots : pipes'[n] # p
  BY <1>1, <1>5, PipesAre
<1>7. host'.todo = {}
  BY <1>1, FreeLock
<1> QED
  BY <1>1, <1>2, <1>4, <1>5, <1>6, <1>7, ShrinkStep

LEMMA ReplaceStep ==
  ASSUME ViewerBounds, ViewerInv, NEW n \in Slots, NEW cam \in Cameras \cup {"none"},
         Viewer!Replace(n, cam)
  PROVE  ViewerInv'
<1> DEFINE old == {pipes[n]} \ {Viewer!NoPipe}
<1>1. /\ lock = "free" /\ infos' = [infos EXCEPT ![n] = cam]
      /\ shown' = [shown EXCEPT ![n] = "none"] /\ pipes' = [pipes EXCEPT ![n] = Viewer!NoPipe]
      /\ viewer' = IF old = {} THEN viewer ELSE [at |-> "destroying", old |-> old]
      /\ UNCHANGED <<pipe, waiting, tracking, validated, lock, host>>
  BY DEF Viewer!Replace, Viewer!Looping, Viewer!DestroyLater
<1>2. ViewTypes'
  BY <1>1 DEF ViewerInv, ViewTypes, Pictures
<1>3. \A p \in old : /\ p \in Viewer!Pipes /\ Made(pipe[p])
                     /\ \A m \in Slots : pipes[m] = p => m = n
  BY OwnSlots
<1> HIDE DEF old
<1>4. ThreadTypes'
  BY <1>1, <1>3 DEF ViewerInv, ThreadTypes
<1>5. /\ pipes \in [Slots -> Viewer!Pipes \cup {Viewer!NoPipe}] /\ Viewer!NoPipe \notin Viewer!Pipes
      /\ \A p \in viewer.old : p \in Viewer!Pipes /\ Made(pipe[p]) /\ \A m \in Slots : pipes[m] # p
  BY PipesAre DEF ViewerInv, PipeTypes, ThreadTypes, Leaving
<1>6. \A p \in viewer'.old : Made(pipe[p]) /\ \A m \in Slots : pipes'[m] # p
  BY <1>1, <1>3, <1>5
<1>7. host'.todo = {}
  BY <1>1, FreeLock
<1>8. /\ pipes' \in [Slots -> Viewer!Pipes \cup {Viewer!NoPipe}]
      /\ \A m \in Slots : pipes'[m] = pipes[m] \/ pipes'[m] = Viewer!NoPipe
  BY <1>1, <1>5
<1> QED
  BY <1>1, <1>2, <1>4, <1>6, <1>7, <1>8, ShrinkStep

\* Steps that leave the pipelines where they are.
LEMMA StillSteps ==
  ASSUME ViewerBounds, ViewerInv,
         \/ Viewer!Validate \/ Viewer!LoadTextures \/ Viewer!Quit \/ Viewer!HostEnds
            \/ Viewer!DeadCheck \/ Viewer!Joined \/ Viewer!CheckDone
         \/ UNCHANGED Viewer!vars
  PROVE  ViewerInv'
<1>1. UNCHANGED <<pipe, pipes, infos, tracking>> /\ viewer'.old = viewer.old
  BY DEF Viewer!Validate, Viewer!LoadTextures, Viewer!Quit, Viewer!HostEnds, Viewer!DeadCheck,
         Viewer!Joined, Viewer!CheckDone, Viewer!vars, Viewer!view,
         ViewerInv, ThreadTypes
<1>2. ViewTypes'
  BY <1>1 DEF Viewer!Validate, Viewer!LoadTextures, Viewer!Quit, Viewer!HostEnds, Viewer!DeadCheck,
              Viewer!Joined, Viewer!CheckDone, Viewer!vars, Viewer!view,
              ViewerInv, ViewTypes, Pictures
<1>3. ThreadTypes'
  BY PipesAre DEF Viewer!Validate, Viewer!LoadTextures, Viewer!Quit, Viewer!HostEnds,
                  Viewer!DeadCheck, Viewer!Joined, Viewer!CheckDone, Viewer!vars,
                  Viewer!LockFree, ViewerInv, ThreadTypes
<1>4. \A n \in host'.todo : pipes[n] # Viewer!NoPipe
  <2>1. CASE Viewer!DeadCheck
    BY <2>1 DEF Viewer!DeadCheck, ViewerInv, ThreadTypes
  <2>2. CASE ~Viewer!DeadCheck
    <3>1. host'.todo = host.todo
      BY <2>2 DEF Viewer!Validate, Viewer!LoadTextures, Viewer!Quit, Viewer!HostEnds,
                  Viewer!Joined, Viewer!CheckDone, Viewer!vars,
                  ViewerInv, ThreadTypes
    <3> QED
      BY <3>1 DEF ViewerInv, Leaving
  <2> QED
    BY <2>1, <2>2
<1>5. host'.at \in {"asleep", "ended"} => host'.todo = {}
  BY DEF Viewer!Validate, Viewer!LoadTextures, Viewer!Quit, Viewer!HostEnds, Viewer!DeadCheck,
         Viewer!Joined, Viewer!CheckDone, Viewer!vars,
         ViewerInv, ThreadTypes, Leaving
<1>6. \A p \in viewer.old : Made(pipe[p]) /\ \A n \in Slots : pipes[n] # p
  BY DEF ViewerInv, Leaving
<1>7. pipes \in [Slots -> Viewer!Pipes \cup {Viewer!NoPipe}]
  BY DEF ViewerInv, PipeTypes
<1> QED
  BY <1>1, <1>2, <1>3, <1>4, <1>5, <1>6, <1>7, ShrinkStep

\* The destructor of the host takes the map, and pipelines are gone.
LEMMA DestroySteps ==
  ASSUME ViewerBounds, ViewerInv, Viewer!HostJoined \/ \E p \in Viewer!Pipes : Viewer!Destroyed(p)
  PROVE  ViewerInv'
<1>1. CASE Viewer!HostJoined
  <2>1. /\ host.at = "ended" /\ pipes' = [n \in Slots |-> Viewer!NoPipe]
        /\ viewer' = [at |-> IF Viewer!Owned = {} THEN "ended" ELSE "closing", old |-> Viewer!Owned]
        /\ UNCHANGED <<Viewer!view, pipe, lock, host>>
    BY <1>1 DEF Viewer!HostJoined
  <2>2. ViewTypes'
    BY <2>1 DEF Viewer!view, ViewerInv, ViewTypes
  <2>3. \A p \in Viewer!Owned : p \in Viewer!Pipes /\ p # Viewer!NoPipe /\ Made(pipe[p])
    BY OwnedAre
  <2>4. ThreadTypes'
    BY <2>1, <2>3 DEF ViewerInv, ThreadTypes
  <2>5. host'.todo = {}
    BY <2>1 DEF ViewerInv, Leaving
  <2> QED
    BY <2>1, <2>2, <2>3, <2>4, <2>5, ShrinkStep
<1>2. ASSUME NEW p \in Viewer!Pipes, Viewer!Destroyed(p)
      PROVE  ViewerInv'
  <2>1. UNCHANGED <<Viewer!view, pipes, pipe, lock, host>>
    BY <1>2 DEF Viewer!Destroyed
  <2>2. ViewTypes'
    BY <2>1 DEF Viewer!view, ViewerInv, ViewTypes
  <2>3. ThreadTypes' /\ viewer'.old \subseteq viewer.old
    BY <1>2, <2>1 DEF Viewer!Destroyed, ViewerInv, ThreadTypes
  <2>4. /\ \A q \in viewer.old : Made(pipe[q]) /\ \A n \in Slots : pipes[n] # q
        /\ \A n \in host.todo : pipes[n] # Viewer!NoPipe
        /\ host.at \in {"asleep", "ended"} => host.todo = {}
        /\ pipes \in [Slots -> Viewer!Pipes \cup {Viewer!NoPipe}]
    BY DEF ViewerInv, Leaving, PipeTypes
  <2> QED
    BY <2>1, <2>2, <2>3, <2>4, ShrinkStep
<1> QED
  BY <1>1, <1>2

\* The user looks at, drags and plays what a slot has.
LEMMA ControlSteps ==
  ASSUME ViewerBounds, ViewerInv, NEW n \in Slots,
         \/ Viewer!Resize(n) \/ Viewer!ControlBar(n)
         \/ \E source \in {"live", "playback"} : Viewer!PlayButton(n, source)
  PROVE  ViewerInv'
<1> DEFINE p == pipes[n]
           o == pipe[p]
<1>1. p # Viewer!NoPipe
  BY DEF Viewer!Resize, Viewer!ControlBar, Viewer!PlayButton
<1>2. /\ p \in Viewer!Pipes /\ Made(o) /\ InMap(o, n) /\ \A m \in Slots : pipes[m] = p => m = n
      /\ o \in Pipelines /\ MaxSamples \in Nat
  BY <1>1, OwnSlots, PipesAre DEF ViewerInv, PipeTypes
<1>3. o.samples \in 0 .. MaxSamples
  BY <1>2 DEF Pipelines
<1> HIDE DEF p
<1>4. ASSUME NEW r \in Pipelines, Rewrites(p, r), ViewTypes', r.thread = o.thread,
             r.alive = o.alive, r.doomed = o.doomed, r.slot = o.slot
      PROVE  ViewerInv'
  BY <1>2, <1>4, RewriteStep DEF InMap, Made
<1> HIDE DEF o
<1>5. CASE Viewer!Resize(n)
  <2> DEFINE r == [o EXCEPT !.samples = @ + 1]
  <2>1. o.samples < MaxSamples /\ Rewrites(p, r) /\ UNCHANGED Viewer!view
    BY <1>5 DEF Viewer!Resize, Rewrites, o, p
  <2>2. ViewTypes' /\ o.samples + 1 \in 0 .. MaxSamples
    BY <1>2, <1>3, <2>1 DEF Viewer!view, ViewerInv, ViewTypes
  <2> QED
    BY <1>2, <1>4, <2>1, <2>2, SamplesChange
<1>6. CASE Viewer!ControlBar(n)
  <2>1. PICK still \in {0, 1} :
          /\ still = 1 => o.samples < MaxSamples
          /\ pipe' = [pipe EXCEPT ![p].source = "stopped", ![p].samples = @ + still]
    BY <1>6 DEF Viewer!ControlBar, o, p
  <2> DEFINE s == [o EXCEPT !.source = "stopped"]
             r == [s EXCEPT !.samples = @ + still]
  <2>2. Rewrites(p, r) /\ tracking' = tracking \ {n} /\ UNCHANGED <<infos, waiting, shown>>
    <3> DEFINE k == o.samples + still
    <3>1. pipe' = [pipe EXCEPT ![p].source = "stopped", ![p].samples = k]
      BY <1>2, <2>1 DEF o
    <3>2. r = [s EXCEPT !.samples = k]
      BY <1>2 DEF Pipelines
    <3> HIDE DEF k, r
    <3>3. pipe' = [pipe EXCEPT ![p] = [s EXCEPT !.samples = k]]
      BY <3>1 DEF o
    <3> QED
      BY <1>6, <3>2, <3>3 DEF Viewer!ControlBar, Rewrites
  <2>3. ViewTypes' /\ o.samples + still \in 0 .. MaxSamples
    BY <1>2, <1>3, <2>1, <2>2 DEF ViewerInv, ViewTypes
  <2>4. /\ s \in Pipelines /\ s.thread = o.thread /\ s.alive = o.alive
        /\ s.doomed = o.doomed /\ s.slot = o.slot /\ s.samples = o.samples
    BY <1>2 DEF Pipelines
  <2> HIDE DEF s
  <2>5. /\ r \in Pipelines /\ r.thread = s.thread /\ r.alive = s.alive
        /\ r.doomed = s.doomed /\ r.slot = s.slot
    BY <2>3, <2>4, SamplesChange
  <2> HIDE DEF r
  <2> QED
    BY <1>4, <2>2, <2>3, <2>4, <2>5
<1>7. ASSUME NEW source \in {"live", "playback"}, Viewer!PlayButton(n, source)
      PROVE  ViewerInv'
  <2> DEFINE s == [o EXCEPT !.source = source]
             r == [s EXCEPT !.settled = FALSE]
  <2>1. Rewrites(p, r) /\ UNCHANGED <<infos, waiting, shown>>
    BY <1>7 DEF Viewer!PlayButton, Rewrites, o, p
  <2>2. ViewTypes'
    BY <1>7, <2>1 DEF Viewer!PlayButton, ViewerInv, ViewTypes
  <2>3. /\ s \in Pipelines /\ s.thread = o.thread /\ s.alive = o.alive
        /\ s.doomed = o.doomed /\ s.slot = o.slot
    BY <1>2 DEF Pipelines
  <2> HIDE DEF s
  <2>4. /\ r \in Pipelines /\ r.thread = s.thread /\ r.alive = s.alive
        /\ r.doomed = s.doomed /\ r.slot = s.slot
    BY <2>3 DEF Pipelines
  <2> HIDE DEF r
  <2> QED
    BY <1>4, <2>1, <2>2, <2>3, <2>4
<1> QED
  BY <1>5, <1>6, <1>7

\* The pipeline the user interface makes is a new one.
LEMMA NextPipe ==
  ASSUME ViewerBounds, ViewerInv, NEW p \in Viewer!Pipes,
         p = 1 + Cardinality({q \in Viewer!Pipes : pipe[q] # Viewer!NotCreated})
  PROVE  ~Made(pipe[p]) /\ \A q \in Viewer!Pipes : q < p => Made(pipe[q])
<1> DEFINE C == {q \in Viewer!Pipes : pipe[q] # Viewer!NotCreated}
<1>1. /\ MaxPipes \in Nat /\ Viewer!Pipes = 1 .. MaxPipes
      /\ \A q \in Viewer!Pipes : q \in C <=> Made(pipe[q])
      /\ \A q, s \in Viewer!Pipes : q < s /\ Made(pipe[s]) => Made(pipe[q])
  BY PipesAre DEF ViewerInv, InOrder
<1>2. C \in SUBSET Viewer!Pipes /\ p = 1 + Cardinality(C)
  OBVIOUS
<1> HIDE DEF C
<1>3. IsFiniteSet(C) /\ Cardinality(C) \in Nat
  <2>1. 1 \in Int /\ MaxPipes \in Int
    BY <1>1
  <2>2. IsFiniteSet(1 .. MaxPipes)
    BY <2>1, FS_Interval
  <2>3. IsFiniteSet(C)
    BY <1>1, <1>2, <2>2, FS_Subset
  <2> QED
    BY <2>3, FS_CardinalityType
<1>4. ~Made(pipe[p])
  <2> SUFFICES ASSUME Made(pipe[p])
               PROVE  FALSE
    OBVIOUS
  <2>1. 1 \in Int /\ p \in Int /\ p >= 1
    BY <1>1
  <2>2. ASSUME NEW q \in 1 .. p
        PROVE  q \in C
    <3>1. q \in Viewer!Pipes /\ (q < p \/ q = p)
      BY <1>1, <2>1
    <3> QED
      BY <1>1, <3>1
  <2>3. 1 .. p \in SUBSET C
    BY <2>2
  <2>4. Cardinality(1 .. p) = IF 1 > p THEN 0 ELSE p - 1 + 1
    BY <2>1, FS_Interval
  <2>5. Cardinality(1 .. p) <= Cardinality(C)
    BY <1>3, <2>3, FS_Subset
  <2> QED
    BY <1>2, <1>3, <2>1, <2>4, <2>5
<1>5. ASSUME NEW q \in Viewer!Pipes, q < p, ~Made(pipe[q])
      PROVE  FALSE
  <2> DEFINE k == q - 1
  <2>1. 1 \in Int /\ k \in Int /\ q \in Int /\ p \in Int /\ q >= 1
    BY <1>1
  <2>2. ASSUME NEW s \in C
        PROVE  s \in 1 .. k
    <3>1. s \in Viewer!Pipes /\ Made(pipe[s])
      BY <1>1, <1>2
    <3>2. s # q /\ ~(q < s)
      BY <1>1, <1>5, <3>1
    <3> QED
      BY <1>1, <3>1, <3>2
  <2>3. C \in SUBSET (1 .. k)
    BY <2>2
  <2>4. q = k + 1
    BY <2>1
  <2> HIDE DEF k
  <2>5. IsFiniteSet(1 .. k) /\ Cardinality(1 .. k) = IF 1 > k THEN 0 ELSE k - 1 + 1
    BY <2>1, FS_Interval
  <2>6. Cardinality(C) <= Cardinality(1 .. k)
    BY <2>3, <2>5, FS_Subset
  <2> QED
    BY <1>2, <1>3, <1>5, <2>1, <2>4, <2>5, <2>6
<1> QED
  BY <1>4, <1>5

LEMMA CreateStep ==
  ASSUME ViewerBounds, ViewerInv, NEW n \in Slots, Viewer!CreatePipe(n)
  PROVE  ViewerInv'
<1> DEFINE r(p) == [Viewer!NotCreated EXCEPT !.slot = n, !.cam = infos[n], !.source = "live",
                                      !.thread = "starting"]
<1>1. PICK p \in Viewer!Pipes :
        /\ p = 1 + Cardinality({q \in Viewer!Pipes : pipe[q] # Viewer!NotCreated})
        /\ pipes' = [pipes EXCEPT ![n] = p] /\ pipe' = [pipe EXCEPT ![p] = r(p)]
  BY DEF Viewer!CreatePipe, Viewer!Cardinality, Cardinality
<1>2. lock = "free" /\ pipes[n] = Viewer!NoPipe /\ UNCHANGED <<Viewer!view, lock, viewer, host>>
  BY DEF Viewer!CreatePipe, Viewer!Looping
<1>3. ~Made(pipe[p]) /\ \A q \in Viewer!Pipes : q < p => Made(pipe[q])
  BY <1>1, NextPipe
<1>4. infos[n] \in Cameras \cup {"none"}
  BY DEF ViewerInv, ViewTypes, Pictures
<1>5. r(p) \in Pipelines /\ Made(r(p)) /\ InMap(r(p), n)
  BY <1>4, PipesAre DEF Viewer!NotCreated, Pipelines, Made, InMap
<1> DEFINE t == r(p)
<1>6. pipe' = [pipe EXCEPT ![p] = t] /\ t \in Pipelines /\ Made(t) /\ InMap(t, n)
  BY <1>1, <1>5
<1> HIDE DEF r, t
<1>7. /\ pipes \in [Slots -> Viewer!Pipes \cup {Viewer!NoPipe}]
      /\ pipe \in [Viewer!Pipes -> Pipelines]
      /\ Viewer!NoPipe \notin Viewer!Pipes
  BY PipesAre DEF ViewerInv, PipeTypes
<1>8. /\ \A q \in Viewer!Pipes : pipe'[q] = IF q = p THEN t ELSE pipe[q]
      /\ \A m \in Slots : pipes'[m] = IF m = n THEN p ELSE pipes[m]
  BY <1>1, <1>6, <1>7
<1>9. ViewTypes' /\ ThreadTypes'
  BY <1>2 DEF Viewer!view, ViewerInv, ViewTypes, ThreadTypes
<1>10. PipeTypes'
  BY <1>1, <1>6, <1>7 DEF PipeTypes
<1>11. MapOK'
  <2> SUFFICES ASSUME NEW m \in Slots, pipes'[m] # Viewer!NoPipe
               PROVE  InMap(pipe'[pipes'[m]], m)
    BY DEF MapOK, InMap
  <2>1. CASE m = n
    BY <1>6, <1>8, <2>1
  <2>2. CASE m # n
    <3>1. pipes'[m] = pipes[m] /\ pipes[m] # p
      BY <1>3, <1>8, <2>2, OwnSlots
    <3> QED
      BY <1>8, <3>1, OwnSlots
  <2> QED
    BY <2>1, <2>2
<1>12. \A q \in Viewer!Pipes : Made(pipe'[q]) <=> q = p \/ Made(pipe[q])
  BY <1>6, <1>8
<1>13. InOrder'
  <2>1. \A q \in Viewer!Pipes : ~Made(pipe'[q]) => pipe'[q] = Viewer!NotCreated
    BY <1>8, <1>12 DEF ViewerInv, InOrder
  <2>2. \A q, s \in Viewer!Pipes : q < s /\ Made(pipe'[s]) => Made(pipe'[q])
    BY <1>3, <1>12 DEF ViewerInv, InOrder
  <2> QED
    BY <2>1, <2>2 DEF InOrder, Made
<1>14. Leaving'
  <2>1. host.todo = {}
    BY <1>2, FreeLock
  <2>2. viewer.old \subseteq Viewer!Pipes
    BY DEF ViewerInv, ThreadTypes
  <2>3. \A q \in viewer.old : Made(pipe[q]) /\ \A m \in Slots : pipes[m] # q
    BY DEF ViewerInv, Leaving
  <2>4. \A q \in viewer.old : Made(pipe'[q]) /\ \A m \in Slots : pipes'[m] # q
    BY <1>3, <1>8, <1>12, <2>2, <2>3
  <2> QED
    BY <1>2, <2>1, <2>4 DEF Leaving, Made
<1> QED
  BY <1>9, <1>10, <1>11, <1>13, <1>14 DEF ViewerInv

\* The dead check: a pipeline that is alive stays, a dead one is taken out.
LEMMA AliveStep ==
  ASSUME ViewerBounds, ViewerInv, NEW n \in Slots, Viewer!CheckAlive(n)
  PROVE  ViewerInv'
<1> DEFINE p == pipes[n]
           o == pipe[p]
           s == [o EXCEPT !.video = FALSE]
           r == [s EXCEPT !.audio = IF @ = "none" THEN @ ELSE "old"]
<1>1. /\ host.at = "checking" /\ n \in host.todo /\ pipe' = [pipe EXCEPT ![p] = r]
      /\ host' = [host EXCEPT !.todo = @ \ {n}] /\ UNCHANGED <<Viewer!view, pipes, lock, viewer>>
  BY DEF Viewer!CheckAlive
<1>2. p # Viewer!NoPipe
  BY <1>1 DEF ViewerInv, Leaving
<1>3. /\ p \in Viewer!Pipes /\ Made(o) /\ InMap(o, n) /\ \A m \in Slots : pipes[m] = p => m = n
      /\ o \in Pipelines /\ pipe \in [Viewer!Pipes -> Pipelines]
  BY <1>2, OwnSlots DEF ViewerInv, PipeTypes
<1> HIDE DEF p, o
<1>4. /\ s \in Pipelines /\ s.thread = o.thread /\ s.alive = o.alive
      /\ s.doomed = o.doomed /\ s.slot = o.slot
  BY <1>3 DEF Pipelines
<1> HIDE DEF s
<1>5. /\ r \in Pipelines /\ r.thread = s.thread /\ r.alive = s.alive
      /\ r.doomed = s.doomed /\ r.slot = s.slot
  BY <1>4 DEF Pipelines
<1> HIDE DEF r
<1>6. InMap(r, n) /\ Made(r)
  BY <1>3, <1>4, <1>5 DEF InMap, Made
<1>7. \A q \in Viewer!Pipes : pipe'[q] = IF q = p THEN r ELSE pipe[q]
  BY <1>1, <1>3
<1>8. \A q \in Viewer!Pipes : Made(pipe'[q]) <=> Made(pipe[q])
  BY <1>3, <1>6, <1>7 DEF o
<1>9. ViewTypes' /\ PipeTypes'
  BY <1>1, <1>3, <1>5 DEF Viewer!view, ViewerInv, ViewTypes, PipeTypes
<1>10. ThreadTypes'
  BY <1>1 DEF ViewerInv, ThreadTypes
<1>11. MapOK'
  <2> SUFFICES ASSUME NEW m \in Slots, pipes[m] # Viewer!NoPipe
               PROVE  InMap(pipe'[pipes[m]], m)
    BY <1>1 DEF MapOK, InMap
  <2> QED
    BY <1>3, <1>6, <1>7, OwnSlots
<1>12. InOrder'
  <2>1. \A q \in Viewer!Pipes : ~Made(pipe'[q]) => pipe'[q] = Viewer!NotCreated
    BY <1>6, <1>7, <1>8 DEF ViewerInv, InOrder
  <2>2. \A q, t \in Viewer!Pipes : q < t /\ Made(pipe'[t]) => Made(pipe'[q])
    BY <1>8 DEF ViewerInv, InOrder
  <2> QED
    BY <2>1, <2>2 DEF InOrder, Made
<1>13. Leaving'
  <2>1. viewer.old \subseteq Viewer!Pipes /\ host'.at = "checking" /\ host'.todo \subseteq host.todo
    BY <1>1 DEF ViewerInv, ThreadTypes
  <2> QED
    BY <1>1, <1>8, <2>1 DEF ViewerInv, Leaving, Made
<1> QED
  BY <1>9, <1>10, <1>11, <1>12, <1>13 DEF ViewerInv

LEMMA DeadStep ==
  ASSUME ViewerBounds, ViewerInv, NEW n \in Slots, Viewer!CheckDead(n)
  PROVE  ViewerInv'
<1> DEFINE p == pipes[n]
           o == pipe[p]
           r == Viewer!Doom(p)
<1>1. /\ host.at = "checking" /\ n \in host.todo /\ pipe' = [pipe EXCEPT ![p] = r]
      /\ pipes' = [pipes EXCEPT ![n] = Viewer!NoPipe]
      /\ host' = [at |-> "joining", todo |-> host.todo \ {n}, victim |-> p]
      /\ UNCHANGED <<Viewer!view, lock, viewer>>
  BY DEF Viewer!CheckDead
<1>2. p # Viewer!NoPipe
  BY <1>1 DEF ViewerInv, Leaving
<1>3. /\ p \in Viewer!Pipes /\ Made(o) /\ \A m \in Slots : pipes[m] = p => m = n
      /\ o \in Pipelines /\ pipe \in [Viewer!Pipes -> Pipelines]
      /\ pipes \in [Slots -> Viewer!Pipes \cup {Viewer!NoPipe}]
  BY <1>2, OwnSlots DEF ViewerInv, PipeTypes
<1> HIDE DEF p
<1>4. r \in Pipelines /\ r.thread = o.thread
  BY <1>3 DEF Viewer!Doom, Pipelines
<1> HIDE DEF r
<1>5. /\ \A q \in Viewer!Pipes : pipe'[q] = IF q = p THEN r ELSE pipe[q]
      /\ \A m \in Slots : pipes'[m] = IF m = n THEN Viewer!NoPipe ELSE pipes[m]
  BY <1>1, <1>3
<1>6. \A q \in Viewer!Pipes : Made(pipe'[q]) <=> Made(pipe[q])
  BY <1>3, <1>4, <1>5 DEF Made
<1>7. ViewTypes' /\ PipeTypes'
  BY <1>1, <1>3, <1>4 DEF Viewer!view, ViewerInv, ViewTypes, PipeTypes
<1>8. ThreadTypes'
  <2>1. host.todo \subseteq Slots
    BY DEF ViewerInv, ThreadTypes
  <2> QED
    BY <1>1, <1>3, <2>1 DEF ViewerInv, ThreadTypes
<1>9. MapOK'
  <2> SUFFICES ASSUME NEW m \in Slots, pipes'[m] # Viewer!NoPipe
               PROVE  InMap(pipe'[pipes'[m]], m)
    BY DEF MapOK, InMap
  <2>1. m # n /\ pipes'[m] = pipes[m] /\ pipes[m] # p
    BY <1>3, <1>5
  <2> QED
    BY <1>5, <2>1, OwnSlots
<1>10. InOrder'
  <2>1. \A q \in Viewer!Pipes : ~Made(pipe'[q]) => pipe'[q] = Viewer!NotCreated
    BY <1>3, <1>5, <1>6 DEF ViewerInv, InOrder
  <2>2. \A q, t \in Viewer!Pipes : q < t /\ Made(pipe'[t]) => Made(pipe'[q])
    BY <1>6 DEF ViewerInv, InOrder
  <2> QED
    BY <2>1, <2>2 DEF InOrder, Made
<1>11. Leaving'
  <2>1. /\ viewer.old \subseteq Viewer!Pipes /\ Viewer!NoPipe \notin Viewer!Pipes
        /\ host.todo \subseteq Slots
        /\ host'.at = "joining" /\ host'.todo = host.todo \ {n}
    BY <1>1, PipesAre DEF ViewerInv, ThreadTypes
  <2>2. \A q \in viewer'.old : Made(pipe'[q]) /\ \A m \in Slots : pipes'[m] # q
    BY <1>1, <1>5, <1>6, <2>1 DEF ViewerInv, Leaving
  <2>3. \A m \in host'.todo : pipes'[m] # Viewer!NoPipe
    BY <1>5, <2>1 DEF ViewerInv, Leaving
  <2> QED
    BY <2>1, <2>2, <2>3 DEF Leaving, Made
<1> QED
  BY <1>7, <1>8, <1>9, <1>10, <1>11 DEF ViewerInv

LEMMA ViewerNext ==
  ASSUME ViewerBounds, ViewerInv, [Viewer!Next]_Viewer!vars
  PROVE  ViewerInv'
<1>1. CASE \E new \in [Slots -> Cameras \cup {"none"}] : Viewer!ChangeLayout(new)
  BY <1>1, LayoutStep
<1>2. ASSUME NEW n \in Slots,
             (\E cam \in Cameras : Viewer!UpdateStream(n, cam)) \/ Viewer!DisconnectStream(n)
      PROVE  ViewerInv'
  BY <1>2, ReplaceStep DEF Viewer!UpdateStream, Viewer!DisconnectStream
<1>3. ASSUME NEW n \in Slots,
             Viewer!CreatePipe(n) \/ Viewer!Resize(n) \/ Viewer!ControlBar(n)
             \/ \E source \in {"live", "playback"} : Viewer!PlayButton(n, source)
      PROVE  ViewerInv'
  BY <1>3, CreateStep, ControlSteps
<1>4. ASSUME NEW p \in Viewer!Pipes,
             \/ Viewer!VideoSample(p) \/ Viewer!AudioSample(p) \/ Viewer!Settle(p)
             \/ Viewer!Thread(p) \/ Viewer!PostVideoFrame(p)
      PROVE  ViewerInv'
  BY <1>4, PipeSteps
<1>5. CASE Viewer!Destroy
  BY <1>5, PipeSteps, DestroySteps DEF Viewer!Destroy
<1>6. CASE Viewer!Host
  BY <1>6, StillSteps, AliveStep, DeadStep DEF Viewer!Host
<1>7. CASE Viewer!Validate \/ Viewer!LoadTextures \/ Viewer!Quit \/ UNCHANGED Viewer!vars
  BY <1>7, StillSteps
<1> QED
  BY <1>1, <1>2, <1>3, <1>4, <1>5, <1>6, <1>7 DEF Viewer!Next

LEMMA ViewerImplies == ViewerBounds /\ ViewerInv => Viewer!TypeOK
<1> SUFFICES ASSUME ViewerBounds, ViewerInv
             PROVE  Viewer!TypeOK
  OBVIOUS
<1>1. \A n \in Slots : pipes[n] # Viewer!NoPipe => pipe[pipes[n]].slot = n /\ ~pipe[pipes[n]].doomed
  BY DEF ViewerInv, MapOK, InMap
<1>2. \A p \in Viewer!Pipes : pipe[p].samples \in 0 .. MaxSamples
  BY DEF ViewerInv, PipeTypes, Pipelines
<1>3. viewer.at \in {"loop", "destroying", "stopping", "closing", "ended"}
  BY DEF ViewerInv, ThreadTypes
<1> QED
  BY <1>1, <1>2, <1>3 DEF Viewer!TypeOK, ViewerInv, ViewTypes, ThreadTypes, Pictures

LEMMA ViewerInvariance ==
  ASSUME ViewerBounds
  PROVE  Viewer!Spec => []ViewerInv
<1>1. Viewer!Init => ViewerInv
  BY ViewerInit
<1>2. ViewerInv /\ [Viewer!Next]_Viewer!vars => ViewerInv'
  BY ViewerNext
<1> QED
  BY <1>1, <1>2, PTL DEF Viewer!Spec

\* A pipeline in the map is of its slot and is not being destroyed, queues keep to
\* their bound, and the lock is held only while the host looks for dead pipelines
\* (pipeline_host.cpp).
THEOREM ViewerTypeCorrect ==
  ASSUME ViewerBounds
  PROVE  Viewer!Spec => []Viewer!TypeOK
<1>1. ViewerInv => Viewer!TypeOK
  BY ViewerImplies
<1> QED
  BY <1>1, ViewerInvariance, PTL

\* No slot shows a pipeline whose thread has ended, and what the main thread destroys
\* without the lock is in no slot any more, so that nothing else reaches it
\* (update_stream, change_layout, pipeline_host's dead check).
THEOREM MapHoldsTheLiving ==
  ASSUME ViewerBounds
  PROVE  Viewer!Spec => [](MapOK /\ Leaving)
<1>1. ViewerInv => MapOK /\ Leaving
  BY DEF ViewerInv
<1> QED
  BY <1>1, ViewerInvariance, PTL
=============================================================================
