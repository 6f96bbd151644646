----------------------------- MODULE Prune_proofs -----------------------------
(***************************************************************************)
(* For any number of cameras and every setting: pruning keeps the video it *)
(* must keep, and removes none with motion, on an answered query, but of   *)
(* events the ring heard of Overlap seconds or more after they began.      *)
(*                                                                         *)
(* The second part is about the time between the judgement of a block and  *)
(* its removal.  What the ring did not show then may not appear there      *)
(* later, unless it is late: an event that is written later began either   *)
(* after the end of the block or, since the block is older than the        *)
(* overlap, so long ago that it is late.                                   *)
(***************************************************************************)
EXTENDS Prune, FiniteSetTheorems, SequenceTheorems, TLAPS

-----------------------------------------------------------------------------
(* Numbers by their rank.                                                  *)

Below(S, x) == {y \in S : y < x}

\* In a finite set of numbers every rank is taken, by one number.
LEMMA Ranked ==
  ASSUME NEW S \in SUBSET Nat, IsFiniteSet(S), NEW i \in 1 .. Cardinality(S)
  PROVE  \E x \in S : Cardinality(Below(S, x)) = i - 1
<1> DEFINE n == Cardinality(S)
           ranks == 0 .. n - 1
           rank == [x \in S |-> Cardinality(Below(S, x))]
<1>1. n \in Nat
  BY FS_CardinalityType
<1>2. ASSUME NEW x \in S
      PROVE  /\ IsFiniteSet(Below(S, x)) /\ Cardinality(Below(S, x)) \in ranks
  <2>1. x \notin Below(S, x) /\ Below(S, x) \in SUBSET S
    BY DEF Below
  <2>2. /\ IsFiniteSet(Below(S, x)) /\ Cardinality(Below(S, x)) <= n
        /\ Cardinality(Below(S, x)) # n
    BY <2>1, FS_Subset
  <2>3. Cardinality(Below(S, x)) \in Nat
    BY <2>2, FS_CardinalityType
  <2> QED
    BY <1>1, <2>2, <2>3
<1>3. ASSUME NEW x \in S, NEW y \in S, x < y
      PROVE  rank[x] # rank[y]
  <2>1. /\ \A z \in S : z < x => z < y
        /\ ~(x < x)
    BY <1>3
  <2>2. Below(S, x) \in SUBSET Below(S, y) /\ x \in Below(S, y) /\ x \notin Below(S, x)
    BY <1>3, <2>1 DEF Below
  <2>3. Cardinality(Below(S, x)) # Cardinality(Below(S, y))
    BY <1>2, <2>2, FS_Subset
  <2> QED
    BY <2>3
<1>4. rank \in Injection(S, ranks)
  <2>1. rank \in [S -> ranks]
    BY <1>2
  <2>2. \A x, y \in S : x # y => x < y \/ y < x
    OBVIOUS
  <2>3. \A x, y \in S : rank[x] = rank[y] => x = y
    BY <1>3, <2>2
  <2> QED
    BY <2>1, <2>3 DEF Injection, IsInjective
<1>5. IsFiniteSet(ranks) /\ Cardinality(ranks) = n
  <2>1. 0 \in Int /\ n - 1 \in Int /\ (IF 0 > n - 1 THEN 0 ELSE (n - 1) - 0 + 1) = n
    BY <1>1
  <2> QED
    BY <2>1, FS_Interval
<1>6. rank \in Surjection(S, ranks)
  BY <1>4, <1>5, FS_Injection
<1>7. \E x \in S : rank[x] = i - 1
  <2> HIDE DEF rank, ranks, n
  <2>1. i - 1 \in ranks
    BY <1>1 DEF ranks, n
  <2> QED
    BY <1>6, <2>1 DEF Surjection
<1> QED
  BY <1>7

LEMMA NthIn ==
  ASSUME NEW S \in SUBSET Nat, IsFiniteSet(S), NEW i \in 1 .. Cardinality(S)
  PROVE  Nth(S, i) \in S
BY Ranked DEF Nth, Below

LEMMA MaxIn ==
  ASSUME NEW S \in SUBSET Nat, IsFiniteSet(S), S # {}
  PROVE  Max(S) \in S
<1>1. Cardinality(S) \in Nat \ {0}
  BY FS_CardinalityType, FS_EmptySet
<1>2. PICK x \in S : Cardinality(Below(S, x)) = Cardinality(S) - 1
  BY <1>1, Ranked
<1>3. ASSUME NEW y \in S, y > x
      PROVE  FALSE
  <2>1. /\ IsFiniteSet(S \ {y}) /\ Cardinality(S \ {y}) = Cardinality(S) - 1
    BY FS_RemoveElement
  <2>2. Below(S, x) \in SUBSET (S \ {y})
    BY <1>3 DEF Below
  <2>3. Below(S, x) = S \ {y}
    BY <1>2, <2>1, <2>2, FS_Subset
  <2>4. x \in S \ {y} /\ x \notin Below(S, x)
    BY <1>3 DEF Below
  <2> QED
    BY <2>3, <2>4
<1>4. \A y \in S : x >= y
  BY <1>3
<1> QED
  BY <1>4 DEF Max

\* What query_blocks returns, for video of a time up to n.
LEMMA BlocksType ==
  ASSUME NEW n \in Nat, NEW V \in SUBSET (0 .. n)
  PROVE  Blocks(V) \in Seq((0 .. n) \X (0 .. n))
<1>1. IsFiniteSet(0 .. n) /\ 0 .. n \subseteq Nat
  BY FS_Interval
<1>2. Starts(V) \in SUBSET V /\ Starts(V) \in SUBSET Nat
  BY <1>1 DEF Starts
<1>3. IsFiniteSet(Starts(V)) /\ Cardinality(Starts(V)) \in Nat
  BY <1>1, <1>2, FS_Subset, FS_CardinalityType
<1>4. ASSUME NEW i \in 1 .. Cardinality(Starts(V))
      PROVE  BlockFrom(V, Nth(Starts(V), i)) \in (0 .. n) \X (0 .. n)
  <2> DEFINE s == Nth(Starts(V), i)
             run == {v \in V : v >= s /\ ~\E t \in Starts(V) : s < t /\ t <= v}
  <2>1. s \in V
    BY <1>2, <1>3, NthIn
  <2> HIDE DEF s
  <2>2. s \in run
    BY <1>1, <1>2, <2>1
  <2>3. run \in SUBSET Nat /\ IsFiniteSet(run) /\ run \in SUBSET V
    BY <1>1, FS_Subset
  <2>4. Max(run) \in V
    BY <2>2, <2>3, MaxIn
  <2> QED
    BY <2>1, <2>4 DEF BlockFrom, s
<1> QED
  BY <1>3, <1>4 DEF Blocks

-----------------------------------------------------------------------------
(* The cache of cameras.                                                   *)

\* A camera that had its turn goes to the end.
LEMMA RotateKeeps ==
  ASSUME NEW s \in Seq(Cameras), s # << >>, IsInjective(s)
  PROVE  /\ Rotate(s) \in Seq(Cameras) /\ Rotate(s) # << >> /\ IsInjective(Rotate(s))
         /\ ToSet(Rotate(s)) \subseteq ToSet(s)
<1> DEFINE n == Len(s)
           r == Append(Tail(s), Head(s))
<1>1. n \in Nat \ {0} /\ s \in [1 .. n -> Cameras] /\ DOMAIN s = 1 .. n
  BY LenProperties, EmptySeq
<1>2. /\ Tail(s) \in Seq(Cameras) /\ Len(Tail(s)) = n - 1
      /\ \A i \in 1 .. Len(Tail(s)) : Tail(s)[i] = s[i + 1]
      /\ Head(s) \in Cameras /\ Head(s) = s[1]
  BY HeadTailProperties DEF Head
<1>3. /\ r \in Seq(Cameras) /\ Len(r) = n
      /\ \A i \in 1 .. n - 1 : r[i] = Tail(s)[i]
      /\ r[n] = Head(s)
  <2>1. /\ Append(Tail(s), Head(s)) \in Seq(Cameras)
        /\ Len(Append(Tail(s), Head(s))) = Len(Tail(s)) + 1
        /\ \A i \in 1 .. Len(Tail(s)) : Append(Tail(s), Head(s))[i] = Tail(s)[i]
        /\ Append(Tail(s), Head(s))[Len(Tail(s)) + 1] = Head(s)
    BY <1>2, AppendProperties
  <2> QED
    BY <1>1, <1>2, <2>1
<1>4. DOMAIN r = 1 .. n /\ r # << >>
  BY <1>1, <1>3, LenProperties, EmptySeq
<1> HIDE DEF r
<1> HIDE DEF n
<1>5. /\ r[n] = s[1] /\ 1 \in 1 .. n /\ n \in 1 .. n
      /\ \A i \in 1 .. n - 1 : i + 1 \in 1 .. n /\ i + 1 # 1 /\ r[i] = s[i + 1]
  BY <1>1, <1>2, <1>3
<1>6. \A i \in 1 .. n : i = n \/ i \in 1 .. n - 1
  BY <1>1
<1>7. \A i, j \in 1 .. n - 1 : i + 1 = j + 1 => i = j
  BY <1>1
<1>8. IsInjective(r)
  <2>1. \A i, j \in 1 .. n : s[i] = s[j] => i = j
    BY <1>1 DEF IsInjective
  <2>2. ASSUME NEW i \in 1 .. n, NEW j \in 1 .. n, r[i] = r[j]
        PROVE  i = j
    <3>1. CASE i = n /\ j = n
      BY <3>1
    <3>2. CASE i = n /\ j \in 1 .. n - 1
      BY <1>5, <2>1, <2>2, <3>2
    <3>3. CASE i \in 1 .. n - 1 /\ j = n
      BY <1>5, <2>1, <2>2, <3>3
    <3>4. CASE i \in 1 .. n - 1 /\ j \in 1 .. n - 1
      BY <1>5, <1>7, <2>1, <2>2, <3>4
    <3> QED
      BY <1>6, <3>1, <3>2, <3>3, <3>4
  <2> QED
    BY <1>4, <2>2 DEF IsInjective
<1>9. ToSet(r) \subseteq ToSet(s)
  <2>1. \A i \in 1 .. n : \E j \in 1 .. n : r[i] = s[j]
    BY <1>5, <1>6
  <2> QED
    BY <1>1, <1>4, <2>1 DEF ToSet
<1> QED
  BY <1>3, <1>4, <1>8, <1>9 DEF Rotate, r

\* Cameras to prune enter the cache, behind those that are in it.
LEMMA UpdatedKeeps ==
  ASSUME NEW s \in Seq(Cameras), IsInjective(s), known \subseteq Cameras
  PROVE  /\ Updated(s) \in Seq(Cameras) /\ IsInjective(Updated(s))
         /\ ToSet(Updated(s)) \subseteq ToSet(s) \cup (known \cap pruning)
         /\ s # << >> => Updated(s) # << >> /\ Head(Updated(s)) = Head(s)
<1> DEFINE new == {c \in known : c \in pruning /\ c \notin ToSet(s)}
           u == SetToSeq(new)
           m == Len(s)
           k == Cardinality(new)
<1>1. IsFiniteSet(new) /\ new \subseteq Cameras
  BY PruneConstants, FS_Subset
<1>2. k \in Nat /\ u \in [1 .. k -> new] /\ IsInjective(u)
  <2>1. k \in Nat /\ \E f \in [1 .. k -> new] : IsInjective(f)
    <3>1. k \in Nat /\ ExistsBijection(1 .. k, new)
      BY <1>1, FS_CardinalityType
    <3> QED
      BY <3>1 DEF ExistsBijection, Bijection, Injection
  <2> QED
    BY <2>1 DEF SetToSeq
<1>3. \A c \in new : c \notin ToSet(s) /\ c \in known \cap pruning
  OBVIOUS
<1> HIDE DEF new, u, k
<1>4. u \in Seq(Cameras) /\ Len(u) = k /\ m \in Nat /\ s \in [1 .. m -> Cameras]
  <2>1. u \in [1 .. k -> Cameras]
    BY <1>1, <1>2
  <2>2. u \in Seq(Cameras)
    BY <1>2, <2>1, SeqDef
  <2> QED
    BY <1>2, <2>2, LenProperties
<1>5. /\ s \o u \in Seq(Cameras) /\ Len(s \o u) = m + k
      /\ \A i \in 1 .. m + k : (s \o u)[i] = IF i <= m THEN s[i] ELSE u[i - m]
  BY <1>4, ConcatProperties
<1> DEFINE w == s \o u
<1>6. DOMAIN w = 1 .. m + k
  BY <1>5, LenProperties
<1> HIDE DEF w
<1>7. \A i \in 1 .. m + k : (i <= m /\ i \in 1 .. m /\ w[i] = s[i] /\ w[i] \in ToSet(s))
                            \/ (i > m /\ i - m \in 1 .. k /\ w[i] = u[i - m] /\ w[i] \in new)
  <2> SUFFICES ASSUME NEW i \in 1 .. m + k
               PROVE  (i <= m /\ i \in 1 .. m /\ w[i] = s[i] /\ w[i] \in ToSet(s))
                      \/ (i > m /\ i - m \in 1 .. k /\ w[i] = u[i - m] /\ w[i] \in new)
    OBVIOUS
  <2>1. CASE i <= m
    <3>1. i \in 1 .. m /\ w[i] = s[i]
      BY <1>2, <1>4, <1>5, <2>1 DEF w
    <3> QED
      BY <1>4, <2>1, <3>1 DEF ToSet
  <2>2. CASE i > m
    <3>1. i - m \in 1 .. k /\ w[i] = u[i - m]
      BY <1>2, <1>4, <1>5, <2>2 DEF w
    <3> QED
      BY <1>2, <2>2, <3>1
  <2> QED
    BY <1>2, <1>4, <2>1, <2>2
<1>8. IsInjective(w)
  <2> SUFFICES ASSUME NEW i \in 1 .. m + k, NEW j \in 1 .. m + k, w[i] = w[j]
               PROVE  i = j
    BY <1>6 DEF IsInjective
  <2>1. CASE i <= m /\ j <= m
    BY <1>4, <1>7, <2>1 DEF IsInjective
  <2>2. CASE i > m /\ j > m
    <3>1. /\ i - m \in 1 .. k /\ j - m \in 1 .. k /\ u[i - m] = u[j - m]
      BY <1>7, <2>2
    <3>2. \A a, b \in 1 .. k : u[a] = u[b] => a = b
      BY <1>2 DEF IsInjective
    <3>3. i - m = j - m
      BY <3>1, <3>2
    <3> QED
      BY <1>2, <1>4, <3>3
  <2> QED
    BY <1>2, <1>3, <1>4, <1>7, <2>1, <2>2
<1>9. ToSet(w) \subseteq ToSet(s) \cup (known \cap pruning)
  BY <1>3, <1>6, <1>7 DEF ToSet
<1>10. s # << >> => w # << >> /\ Head(w) = Head(s)
  <2> SUFFICES ASSUME s # << >>
               PROVE  w # << >> /\ Head(w) = Head(s)
    OBVIOUS
  <2>1. m # 0
    BY EmptySeq
  <2>2. 1 \in 1 .. m + k /\ w[1] = s[1] /\ Len(w) # 0
    BY <1>2, <1>4, <1>5, <2>1 DEF w
  <2> QED
    BY <1>5, <2>2, EmptySeq DEF Head, w
<1> QED
  BY <1>5, <1>8, <1>9, <1>10 DEF Updated, w, u, new

-----------------------------------------------------------------------------
(* The inductive invariant.                                                *)

Snapshots == [cam : Cameras, blocks : Seq(Nat \X Nat), bi : Nat, answered : BOOLEAN]

World ==
  /\ now \in 0 .. MaxNow /\ known \subseteq Cameras /\ pruning \subseteq Cameras
  /\ video \in [Cameras -> SUBSET (0 .. now)]
  /\ flags \in [Cameras -> SUBSET (0 .. now)]
  /\ event \in [Cameras -> 0 .. now \cup {None}]
  /\ late \in [Cameras -> SUBSET (0 .. now)] /\ \A c \in Cameras : late[c] \subseteq flags[c]

Pruner ==
  /\ tnow \in 0 .. now /\ lastFetch \in 0 .. now
  /\ pc \in {"sleep", "work", "remove", "advance"}
  /\ cache \in Seq(Cameras) /\ IsInjective(cache)
  /\ ps \in Snapshots \cup {NoPs}
  /\ pc # "sleep" => cache # << >>
  /\ ps # NoPs => /\ ps.bi \in 1 .. Len(ps.blocks)
                  /\ cache # << >> /\ ps.cam = Head(cache)
  /\ pc \in {"remove", "advance"} => ps # NoPs
  /\ pc = "remove" => End + Overlap <= tnow

IInv == World /\ Pruner

LEMMA Bounds ==
  ASSUME World
  PROVE  /\ now \in Nat /\ MaxNow \in Nat /\ Overlap \in Nat /\ N \in Nat
         /\ Begin \in Nat /\ Begin <= MaxNow /\ Keep \in Nat /\ N > 0
  BY PruneConstants, NAssumption DEF World

LEMMA InitInv == Init => IInv
<1> SUFFICES ASSUME Init
             PROVE  IInv
  OBVIOUS
<1>1. now \in 0 .. MaxNow
  BY PruneConstants DEF Init
<1>2. World
  BY <1>1, PruneConstants DEF Init, World, None
<1>3. cache \in Seq(Cameras) /\ IsInjective(cache)
  BY EmptySeq DEF Init, IsInjective
<1> QED
  BY <1>1, <1>2, <1>3 DEF Init, Pruner, IInv

\* What happens around the loop does not disturb it.
LEMMA WorldSteps ==
  ASSUME IInv,
         \/ Tick
         \/ \E c \in Cameras : \/ EventBegins(c) \/ EventEnds(c) \/ EventLost(c)
                               \/ SetPruning(c) \/ DeleteCamera(c)
  PROVE  IInv' /\ UNCHANGED prune
<1>1. UNCHANGED prune
  BY DEF Tick, EventBegins, EventEnds, EventLost, SetPruning, DeleteCamera
<1>2. World'
  <2>1. CASE Tick
    <3>1. /\ now' = now + 1 /\ now' \in 0 .. MaxNow /\ 0 .. now \subseteq 0 .. now'
          /\ now \in 0 .. now' /\ UNCHANGED <<known, pruning, event, flags, late>>
      BY <2>1, Bounds DEF Tick, IInv, World
    <3>2. video' \in [Cameras -> SUBSET (0 .. now')]
      BY <2>1, <3>1 DEF Tick, IInv, World
    <3>3. /\ event' \in [Cameras -> 0 .. now' \cup {None}]
          /\ flags' \in [Cameras -> SUBSET (0 .. now')] /\ late' \in [Cameras -> SUBSET (0 .. now')]
      BY <3>1 DEF IInv, World
    <3> QED
      BY <3>1, <3>2, <3>3 DEF IInv, World
  <2>2. ASSUME NEW c \in Cameras, EventBegins(c)
        PROVE  World'
    <3>1. /\ UNCHANGED <<now, known, pruning, video, flags, late>>
          /\ event' = [event EXCEPT ![c] = now] /\ now \in 0 .. now
      BY <2>2, Bounds DEF EventBegins, IInv, World
    <3> QED
      BY <3>1 DEF IInv, World
  <2>3. ASSUME NEW c \in Cameras, EventEnds(c)
        PROVE  World'
    <3>1. PICK e \in event[c] .. now :
            /\ flags' = [flags EXCEPT ![c] = @ \cup event[c] .. e]
            /\ late' = [late EXCEPT ![c] = @ \cup Late(c, event[c] .. e)]
      BY <2>3 DEF EventEnds
    <3>2. event[c] .. e \subseteq 0 .. now /\ Late(c, event[c] .. e) \subseteq event[c] .. e
      BY <2>3, Bounds DEF EventEnds, Late, IInv, World
    <3>3. /\ flags' \in [Cameras -> SUBSET (0 .. now)] /\ late' \in [Cameras -> SUBSET (0 .. now)]
          /\ \A d \in Cameras : late'[d] \subseteq flags'[d]
      BY <3>1, <3>2 DEF IInv, World
    <3>4. /\ UNCHANGED <<now, known, pruning, video>>
          /\ event' \in [Cameras -> 0 .. now \cup {None}]
      BY <2>3 DEF EventEnds, IInv, World
    <3> QED
      BY <3>3, <3>4 DEF IInv, World
  <2>4. ASSUME NEW c \in Cameras, EventLost(c) \/ DeleteCamera(c)
        PROVE  World'
    <3>1. /\ UNCHANGED <<now, pruning, video, flags, late>> /\ known' \subseteq Cameras
          /\ event' \in [Cameras -> 0 .. now \cup {None}]
      BY <2>4 DEF EventLost, DeleteCamera, IInv, World
    <3> QED
      BY <3>1 DEF IInv, World
  <2>5. ASSUME NEW c \in Cameras, SetPruning(c)
        PROVE  World'
    BY <2>5 DEF SetPruning, IInv, World
  <2> QED
    BY <2>1, <2>2, <2>3, <2>4, <2>5
<1>3. Pruner'
  <2>1. now' \in Nat /\ now' >= now /\ now \in Nat
    BY Bounds DEF IInv, World, Tick, EventBegins, EventEnds, EventLost, SetPruning, DeleteCamera
  <2>2. tnow' \in 0 .. now' /\ lastFetch' \in 0 .. now'
    BY <1>1, <2>1 DEF IInv, Pruner, prune
  <2> QED
    BY <1>1, <2>2 DEF IInv, Pruner, prune, End
<1> QED
  BY <1>1, <1>2, <1>3 DEF IInv

\* The steps of the loop before a block is judged.
LEMMA BeforeBlock ==
  ASSUME IInv, Wakes \/ TakeBlocks \/ SkipRecent
  PROVE  IInv'
<1>1. UNCHANGED <<world, video>> /\ World'
  BY DEF Wakes, TakeBlocks, SkipRecent, IInv, World, world
<1>2. /\ cache \in Seq(Cameras) /\ IsInjective(cache) /\ known \subseteq Cameras
      /\ now \in Nat /\ now' = now
  BY <1>1, Bounds DEF IInv, Pruner, World, world
<1>3. CASE Wakes
  <2>1. /\ tnow' \in 0 .. now' /\ lastFetch' \in 0 .. now' /\ UNCHANGED ps
        /\ pc' \in {"sleep", "work"}
        /\ pc' # "sleep" => cache' # << >>
        /\ cache' = cache \/ cache' = Updated(cache)
    BY <1>2, <1>3 DEF Wakes, IInv, Pruner
  <2>2. /\ cache' \in Seq(Cameras) /\ IsInjective(cache')
        /\ cache # << >> => cache' # << >> /\ Head(cache') = Head(cache)
    BY <1>2, <2>1, UpdatedKeeps
  <2> QED
    BY <1>1, <2>1, <2>2 DEF IInv, Pruner
<1>4. CASE TakeBlocks
  <2> DEFINE c == Head(cache)
  <2>1. cache # << >> /\ c \in Cameras
    BY <1>2, <1>4, HeadTailProperties DEF TakeBlocks, IInv, Pruner
  <2>2. Blocks(video[c]) \in Seq(Nat \X Nat)
    <3>1. video[c] \in SUBSET (0 .. now) /\ (0 .. now) \X (0 .. now) \subseteq Nat \X Nat
      BY <1>2, <2>1 DEF IInv, World
    <3>2. Blocks(video[c]) \in Seq((0 .. now) \X (0 .. now))
      BY <1>2, <3>1, BlocksType
    <3> QED
      BY <3>1, <3>2, SeqMonotonic
  <2>3. /\ UNCHANGED <<lastFetch, tnow>> /\ pc' = "sleep"
        /\ \/ UNCHANGED ps /\ cache' = Rotate(cache)
           \/ UNCHANGED <<cache, ps>>
           \/ /\ ps' = [cam |-> c, blocks |-> Blocks(video[c]), bi |-> 1, answered |-> FALSE]
              /\ Blocks(video[c]) # << >> /\ UNCHANGED cache
    BY <1>4 DEF TakeBlocks
  <2>4. ps = NoPs
    BY <1>4 DEF TakeBlocks
  <2>5. CASE UNCHANGED <<cache, ps>>
    BY <1>1, <1>2, <2>3, <2>5 DEF IInv, Pruner
  <2>6. CASE UNCHANGED ps /\ cache' = Rotate(cache)
    BY <1>1, <1>2, <2>1, <2>3, <2>4, <2>6, RotateKeeps DEF IInv, Pruner
  <2>7. CASE /\ ps' = [cam |-> c, blocks |-> Blocks(video[c]), bi |-> 1, answered |-> FALSE]
             /\ Blocks(video[c]) # << >> /\ UNCHANGED cache
    <3>1. Len(Blocks(video[c])) \in Nat \ {0}
      BY <2>2, <2>7, EmptySeq
    <3>2. ps' \in Snapshots /\ ps'.bi \in 1 .. Len(ps'.blocks) /\ ps'.cam = Head(cache')
      BY <2>1, <2>2, <2>7, <3>1 DEF Snapshots
    <3> QED
      BY <1>1, <1>2, <2>1, <2>3, <2>7, <3>2 DEF IInv, Pruner
  <2> QED
    BY <2>3, <2>5, <2>6, <2>7
<1>5. CASE SkipRecent
  <2>1. /\ UNCHANGED <<lastFetch, tnow>> /\ pc' = "sleep" /\ ps' = NoPs /\ cache' = Rotate(cache)
        /\ cache # << >>
    BY <1>5 DEF SkipRecent, IInv, Pruner
  <2> QED
    BY <1>1, <1>2, <2>1, RotateKeeps DEF IInv, Pruner
<1> QED
  BY <1>3, <1>4, <1>5

\* What the loop finds when it has a block.
LEMMA AtBlock ==
  ASSUME IInv, ps # NoPs
  PROVE  /\ ps \in Snapshots /\ ps.cam \in Cameras /\ cache # << >> /\ ps.cam = Head(cache)
         /\ Start \in Nat /\ End \in Nat /\ ps.cam \in ToSet(cache)
<1>1. /\ ps \in Snapshots /\ ps.bi \in 1 .. Len(ps.blocks) /\ cache # << >>
      /\ ps.cam = Head(cache) /\ cache \in Seq(Cameras)
  BY DEF IInv, Pruner
<1>2. ps.blocks \in Seq(Nat \X Nat) /\ ps.cam \in Cameras
  BY <1>1 DEF Snapshots
<1>3. ps.blocks[ps.bi] \in Nat \X Nat
  BY <1>1, <1>2, ElementOfSeq
<1>4. ps.cam \in ToSet(cache)
  <2>1. Len(cache) \in Nat \ {0} /\ DOMAIN cache = 1 .. Len(cache) /\ Head(cache) = cache[1]
    BY <1>1, EmptySeq, LenProperties DEF Head
  <2> QED
    BY <1>1, <2>1 DEF ToSet
<1> QED
  BY <1>1, <1>2, <1>3, <1>4 DEF Start, End

\* The steps of the loop with a block.
LEMMA WithBlock ==
  ASSUME IInv, Judge \/ RemoveBlock \/ Advance
  PROVE  IInv'
<1>1. /\ ps # NoPs /\ ps \in Snapshots /\ cache # << >> /\ ps.cam \in Cameras
      /\ cache \in Seq(Cameras) /\ IsInjective(cache)
      /\ UNCHANGED <<world, lastFetch, tnow>>
      /\ ps.bi \in 1 .. Len(ps.blocks) /\ Start \in Nat /\ End \in Nat
      /\ ps.cam = Head(cache)
  <2>1. ps # NoPs
    BY DEF Judge, RemoveBlock, Advance, IInv, Pruner
  <2>2. UNCHANGED <<world, lastFetch, tnow>>
    BY DEF Judge, RemoveBlock, Advance
  <2> QED
    BY <2>1, <2>2, AtBlock DEF IInv, Pruner
<1>2. now' = now /\ now \in Nat /\ tnow \in 0 .. now /\ lastFetch \in 0 .. now
  BY <1>1, Bounds DEF IInv, Pruner, world
<1>3. World'
  <2>1. video' \in [Cameras -> SUBSET (0 .. now)]
    <3>1. \/ UNCHANGED video
          \/ video' = [video EXCEPT ![ps.cam] = {t \in @ : ~(Start <= t /\ t <= End)}]
      BY DEF Judge, RemoveBlock, Advance
    <3> QED
      BY <1>1, <3>1 DEF IInv, World
  <2> QED
    BY <1>1, <2>1 DEF IInv, World, world
<1>4. CASE Judge
  <2>1. /\ pc' \in {"remove", "advance"} /\ UNCHANGED cache /\ OldEnough
        /\ \E b \in BOOLEAN : ps' = [ps EXCEPT !.answered = b]
    BY <1>4 DEF Judge, AskMotion, Answerable
  <2>2. /\ ps' \in Snapshots /\ ps'.bi = ps.bi /\ ps'.blocks = ps.blocks /\ ps'.cam = ps.cam
    BY <1>1, <2>1 DEF Snapshots
  <2>3. End' = End /\ End + Overlap <= tnow
    <3>1. End' = End
      BY <2>2 DEF End
    <3> QED
      BY <2>1, <3>1 DEF OldEnough
  <2>4. ps' # NoPs
    <3>1. ps' = [ps EXCEPT !.answered = ps'.answered]
      BY <1>1, <2>1 DEF Snapshots
    <3>2. DOMAIN ps' = {"cam", "blocks", "bi", "answered"}
      BY <2>2 DEF Snapshots
    <3> QED
      BY <3>2 DEF NoPs
  <2> QED
    BY <1>1, <1>2, <1>3, <2>1, <2>2, <2>3, <2>4 DEF IInv, Pruner
<1>5. CASE RemoveBlock
  BY <1>1, <1>2, <1>3, <1>5 DEF RemoveBlock, IInv, Pruner
<1>6. CASE Advance /\ Done
  BY <1>1, <1>2, <1>3, <1>6, RotateKeeps DEF Advance, IInv, Pruner
<1>7. CASE Advance /\ ~Done
  <2>1. ps' = [ps EXCEPT !.bi = ps.bi + 1] /\ UNCHANGED cache /\ pc' = "sleep"
    BY <1>7 DEF Advance
  <2>2. Len(ps.blocks) \in Nat
    BY <1>1, LenProperties DEF Snapshots
  <2>3. ps.bi + 1 \in 1 .. Len(ps.blocks) /\ ps.bi + 1 \in Nat
    BY <1>1, <1>7, <2>2 DEF Done
  <2>4. ps' \in Snapshots /\ ps'.bi = ps.bi + 1 /\ ps'.blocks = ps.blocks /\ ps'.cam = ps.cam
    BY <1>1, <2>1, <2>3 DEF Snapshots
  <2> QED
    BY <1>1, <1>2, <1>3, <2>1, <2>3, <2>4 DEF IInv, Pruner
<1> QED
  BY <1>4, <1>5, <1>6, <1>7 DEF Advance

LEMMA NextInv == IInv /\ [Next]_vars => IInv'
<1> SUFFICES ASSUME IInv, [Next]_vars
             PROVE  IInv'
  OBVIOUS
<1>1. CASE UNCHANGED vars
  BY <1>1 DEF vars, IInv, World, Pruner, End
<1> QED
  BY <1>1, WorldSteps, BeforeBlock, WithBlock DEF Next, Loop

\* The index of the block stays inside the snapshot, the snapshot is of the camera
\* at the front, and a block in removal is older than the overlap.
THEOREM Invariance == Spec => []IInv
<1> QED
  BY InitInv, NextInv, PTL DEF Spec

\* Type correctness: the index of the block, and the camera of the snapshot
\* (r_prune::_entry_point: bi, blocks, _cameras.front()).
THEOREM TypeCorrect == Spec => []TypeOK
<1>1. IInv => TypeOK
  <2> SUFFICES ASSUME IInv
               PROVE  TypeOK
    OBVIOUS
  <2>1. ToSet(cache) \subseteq Cameras
    <3>1. \A i \in DOMAIN cache : cache[i] \in Cameras
      BY LenProperties, ElementOfSeq DEF IInv, Pruner
    <3> QED
      BY <3>1 DEF ToSet
  <2>2. ps # NoPs => ps.bi \in DOMAIN ps.blocks
    <3>1. ps # NoPs => ps.blocks \in Seq(Nat \X Nat) /\ ps.bi \in 1 .. Len(ps.blocks)
      BY DEF IInv, Pruner, Snapshots
    <3> QED
      BY <3>1, LenProperties
  <2>3. \A c \in Cameras : /\ video[c] \subseteq 0 .. now /\ flags[c] \subseteq 0 .. now
                           /\ late[c] \subseteq flags[c]
                           /\ event[c] \in 0 .. now \cup {None}
    BY DEF IInv, World
  <2> QED
    BY <2>1, <2>2, <2>3 DEF TypeOK, IInv, World, Pruner
<1> QED
  BY <1>1, Invariance, PTL

-----------------------------------------------------------------------------
(* What is removed.                                                        *)

\* Video goes away in RemoveBlock only, and what goes is of the block.
LEMMA Removals ==
  ASSUME IInv, Next, NEW c \in Cameras, NEW t \in video[c] \ video'[c]
  PROVE  /\ RemoveBlock /\ c = ps.cam /\ ps # NoPs /\ pc = "remove"
         /\ Start <= t /\ t <= End /\ t \in Nat /\ UNCHANGED world
<1>1. video \in [Cameras -> SUBSET (0 .. now)]
  BY DEF IInv, World
<1>2. CASE Tick
  <2>1. video[c] \subseteq video'[c]
    BY <1>1, <1>2 DEF Tick
  <2> QED
    BY <2>1
<1>3. CASE RemoveBlock
  <2>1. ps # NoPs /\ pc = "remove" /\ UNCHANGED world
    BY <1>3 DEF RemoveBlock, IInv, Pruner
  <2>2. video' = [video EXCEPT ![ps.cam] = {u \in @ : ~(Start <= u /\ u <= End)}]
    BY <1>3 DEF RemoveBlock
  <2>3. c = ps.cam /\ Start <= t /\ t <= End
    BY <1>1, <2>2
  <2>4. t \in Nat
    BY <1>1
  <2> QED
    BY <1>3, <2>1, <2>3, <2>4
<1>4. CASE UNCHANGED video
  BY <1>4
<1> QED
  BY <1>2, <1>3, <1>4
  DEF Next, Loop, EventBegins, EventEnds, EventLost, SetPruning, DeleteCamera, Wakes,
      TakeBlocks, SkipRecent, Judge, Advance

\* Nothing of the latest Overlap seconds goes, nothing of a camera outside the
\* cache, and into the cache come only cameras that are to be pruned
\* (r_prune.cpp: the test for recent blocks, _update_cameras, _rotate_cameras).
THEOREM ProtectedStays == Spec => ProtectedVideoStays
<1>1. ASSUME IInv, Next, NEW c \in Cameras
      PROVE  /\ \A t \in video[c] \ video'[c] : t + Overlap <= now
             /\ video[c] \ video'[c] # {} => c \in ToSet(cache)
             /\ c \in ToSet(cache') \ ToSet(cache) => c \in pruning \cap known
  <2>1. ASSUME NEW t \in video[c] \ video'[c]
        PROVE  t + Overlap <= now /\ c \in ToSet(cache)
    <3>1. /\ ps # NoPs /\ pc = "remove" /\ c = ps.cam /\ t <= End /\ t \in Nat
      BY <1>1, <2>1, Removals
    <3>2. End \in Nat /\ ps.cam \in ToSet(cache)
      BY <1>1, <3>1, AtBlock
    <3>3. End + Overlap <= tnow /\ tnow \in 0 .. now /\ now \in Nat /\ Overlap \in Nat
      BY <1>1, <3>1, Bounds DEF IInv, Pruner
    <3> QED
      BY <3>1, <3>2, <3>3
  <2>2. ToSet(cache') \subseteq ToSet(cache) \cup (known \cap pruning)
    <3>1. /\ cache \in Seq(Cameras) /\ IsInjective(cache) /\ known \subseteq Cameras
      BY <1>1 DEF IInv, World, Pruner
    <3>2. /\ cache' = cache \/ cache' = Updated(cache) \/ cache' = Rotate(cache)
      BY <1>1
      DEF Next, Loop, Tick, EventBegins, EventEnds, EventLost, SetPruning, DeleteCamera, Wakes,
          TakeBlocks, SkipRecent, Judge, RemoveBlock, Advance, prune
    <3>3. cache # << >> \/ Rotate(cache) = cache
      BY DEF Rotate
    <3> QED
      BY <3>1, <3>2, <3>3, UpdatedKeeps, RotateKeeps
  <2> QED
    BY <2>1, <2>2
<1>2. IInv /\ [Next]_vars =>
        [\A c \in Cameras :
           /\ \A t \in video[c] \ video'[c] : t + Overlap <= now
           /\ video[c] \ video'[c] # {} => c \in ToSet(cache)
           /\ c \in ToSet(cache') \ ToSet(cache) => c \in (pruning \cap known)]_vars
  BY <1>1
<1> QED
  BY <1>2, Invariance, PTL DEF Spec, ProtectedVideoStays

\* Of a block that was found still, and is about to go, the only seconds that are
\* flagged are late.
Judged ==
  pc = "remove" /\ ps.answered => flags[ps.cam] \cap Start .. End \subseteq late[ps.cam]

\* An event that is on when a block is removed, and overlaps it, is late.
LEMMA Overlapping ==
  ASSUME IInv, pc = "remove", NEW c \in Cameras, event[c] # None, event[c] <= End
  PROVE  now - event[c] >= Overlap
<1>1. /\ ps # NoPs /\ End + Overlap <= tnow /\ tnow \in 0 .. now
  BY DEF IInv, Pruner
<1>2. End \in Nat /\ Overlap \in Nat /\ now \in Nat /\ event[c] \in Int
  BY <1>1, AtBlock, Bounds DEF IInv, World, None
<1> QED
  BY <1>1, <1>2

LEMMA JudgedStays ==
  ASSUME IInv, Judged, Next, ~Judge
  PROVE  Judged'
<1> SUFFICES ASSUME pc' = "remove", ps'.answered
             PROVE  flags'[ps'.cam] \cap Start' .. End' \subseteq late'[ps'.cam]
  BY DEF Judged
<1>1. pc = "remove" /\ ps' = ps
  BY DEF Next, Loop, Tick, EventBegins, EventEnds, EventLost, SetPruning, DeleteCamera, Wakes,
         TakeBlocks, SkipRecent, RemoveBlock, Advance, prune
<1> DEFINE k == ps.cam
<1>2. /\ k \in Cameras /\ Start \in Nat /\ End \in Nat /\ now \in Nat
      /\ Start' = Start /\ End' = End /\ ps'.cam = k
      /\ flags[k] \cap Start .. End \subseteq late[k]
  <2>1. ps # NoPs
    BY <1>1 DEF IInv, Pruner
  <2>2. Start' = Start /\ End' = End
    BY <1>1 DEF Start, End
  <2>3. flags[k] \cap Start .. End \subseteq late[k]
    BY <1>1 DEF Judged
  <2> QED
    BY <1>1, <2>1, <2>2, <2>3, AtBlock, Bounds DEF IInv
<1> HIDE DEF k
<1>3. ASSUME NEW c \in Cameras, EventEnds(c)
      PROVE  flags'[k] \cap Start .. End \subseteq late'[k]
  <2>1. PICK e \in event[c] .. now :
          /\ flags' = [flags EXCEPT ![c] = @ \cup event[c] .. e]
          /\ late' = [late EXCEPT ![c] = @ \cup Late(c, event[c] .. e)]
    BY <1>3 DEF EventEnds
  <2>2. flags \in [Cameras -> SUBSET (0 .. now)] /\ late \in [Cameras -> SUBSET (0 .. now)]
    BY DEF IInv, World
  <2>3. CASE c # k
    <3>1. flags'[k] = flags[k] /\ late'[k] = late[k]
      BY <1>2, <2>1, <2>2, <2>3
    <3> QED
      BY <1>2, <3>1
  <2>4. CASE c = k
    <3>1. /\ flags'[k] = flags[k] \cup event[k] .. e
          /\ late'[k] = late[k] \cup Late(k, event[k] .. e)
      BY <1>2, <2>1, <2>2, <2>4
    <3>2. ASSUME NEW t \in event[k] .. e, t \in Start .. End
          PROVE  t \in Late(k, event[k] .. e)
      <4>1. event[k] # None /\ event[k] \in Int
        BY <1>2, <1>3, <2>4 DEF EventEnds, IInv, World, None
      <4>2. event[k] <= End
        BY <1>2, <3>2, <4>1
      <4>3. now - event[k] >= Overlap
        BY <1>1, <1>2, <4>1, <4>2, Overlapping
      <4> QED
        BY <3>2, <4>3 DEF Late
    <3> QED
      BY <1>2, <3>1, <3>2
  <2> QED
    BY <2>3, <2>4
<1>4. CASE UNCHANGED <<flags, late>>
  BY <1>2, <1>4
<1>5. (\E c \in Cameras : EventEnds(c)) \/ UNCHANGED <<flags, late>>
  BY DEF Next, Loop, Tick, EventBegins, EventLost, SetPruning, DeleteCamera, Wakes, TakeBlocks,
         SkipRecent, RemoveBlock, Advance, world
<1> QED
  BY <1>2, <1>3, <1>4, <1>5

\* An answered query that returns nothing means that no second of the block is
\* flagged: each of them is read from its own element, also when the query misses
\* the last second of the overlap.
LEMMA AnsweredMeansStill ==
  ASSUME IInv, ps # NoPs, Overlap >= 2, NEW f \in Fractions, NEW g \in Fractions,
         Answerable(At(Start - Overlap, f), At(End + Overlap, g)),
         MotionIn(ps.cam, At(Start - Overlap, f), At(End + Overlap, g)) = {}
  PROVE  flags[ps.cam] \cap Start .. End = {}
<1> DEFINE k == ps.cam
           from == At(Start - Overlap, f)
           to == At(End + Overlap, g)
<1>1. k \in Cameras /\ Start \in Nat /\ End \in Nat
  BY AtBlock
<1>2. /\ Overlap \in Nat /\ N \in Nat /\ N > 0 /\ now \in Nat /\ f \in Nat /\ g \in Nat
  BY Bounds, PruneConstants DEF IInv
<1>3. Start - Overlap >= 0 /\ Start - Overlap >= now - N
  BY DEF Answerable, Accepted, QueryAccepted, At
<1>4. QueryResult(Elements(k), from, to) = {}
  BY DEF MotionIn, Answerable
<1> SUFFICES ASSUME NEW t \in flags[k], t \in Start .. End
             PROVE  FALSE
  OBVIOUS
<1>5. /\ t \in Int /\ t > now - N
      /\ t \in Start - Overlap .. (Start - Overlap) + ElementsRead(from, to) - 1
  BY <1>1, <1>2, <1>3 DEF ElementsRead, At
<1>6. t % N \in Indexes
  BY <1>2, <1>5 DEF Indexes
<1>7. Elements(k)[t % N] = 1
  BY <1>5, <1>6 DEF Elements
<1>8. ReadIndex(from, t) = t % N
  <2>1. /\ SinceCreation(from) = Start - Overlap /\ ~(Start - Overlap < 0)
        /\ (Start - Overlap) + (t - (Start - Overlap)) = t
    BY <1>1, <1>2, <1>3, <1>5 DEF SinceCreation, At
  <2> QED
    BY <2>1 DEF ReadIndex, At
<1>9. t \in QueryResult(Elements(k), from, to)
  BY <1>5, <1>7, <1>8 DEF QueryResult, At
<1> QED
  BY <1>4, <1>9

LEMMA JudgedStill ==
  ASSUME IInv, Judge, Overlap >= 2
  PROVE  Judged'
<1> SUFFICES ASSUME pc' = "remove", ps'.answered
             PROVE  flags'[ps'.cam] \cap Start' .. End' = {}
  BY DEF Judged
<1>1. /\ ps # NoPs /\ UNCHANGED flags
  BY DEF Judge, world
<1>2. ps \in Snapshots
  BY <1>1, AtBlock
<1>3. CASE \E f \in Fractions, g \in Fractions :
             AskMotion(At(Start - Overlap, f), At(End + Overlap, g))
  <2>1. PICK f \in Fractions, g \in Fractions :
               AskMotion(At(Start - Overlap, f), At(End + Overlap, g))
    BY <1>3
  <2> DEFINE b == Answerable(At(Start - Overlap, f), At(End + Overlap, g))
  <2>2. ps' = [ps EXCEPT !.answered = b] /\ b \in BOOLEAN
    BY <2>1 DEF AskMotion, Answerable
  <2>3. MotionIn(ps.cam, At(Start - Overlap, f), At(End + Overlap, g)) = {}
    BY <2>1 DEF AskMotion
  <2> HIDE DEF b
  <2>4. ps'.cam = ps.cam /\ ps'.blocks = ps.blocks /\ ps'.bi = ps.bi /\ b
    BY <1>2, <2>2 DEF Snapshots
  <2>5. Start' = Start /\ End' = End
    BY <2>4 DEF Start, End
  <2>6. flags[ps.cam] \cap Start .. End = {}
    BY <1>1, <2>3, <2>4, AnsweredMeansStill DEF b
  <2> QED
    BY <1>1, <2>4, <2>5, <2>6
<1>4. CASE ps' = [ps EXCEPT !.answered = FALSE]
  BY <1>2, <1>4 DEF Snapshots
<1> QED
  BY <1>3, <1>4 DEF Judge

\* Pruning removes no video with motion, when the query was answered, but of events
\* that were not in the ring Overlap seconds after they began (r_prune::_entry_point,
\* r_ring::query_raw).  The overlap, 30 seconds in the code, is to exceed the second
\* the query may miss.
THEOREM OnlyStillRemoved ==
  ASSUME Overlap >= 2
  PROVE  Spec => OnlyStillVideoRemoved
<1>1. Init => Judged
  BY DEF Init, Judged
<1>2. IInv /\ Judged /\ [Next]_vars => Judged'
  <2>1. CASE Judge
    BY <2>1, JudgedStill
  <2>2. CASE UNCHANGED vars
    BY <2>2 DEF vars, Judged, Start, End
  <2> QED
    BY <2>1, <2>2, JudgedStays
<1>3. ASSUME IInv, Judged, Next, NEW c \in Cameras, ps.answered,
             NEW t \in video[c] \ video'[c], t \in Moving(c)
      PROVE  t \in LateMotion(c)
  <2>1. /\ c = ps.cam /\ ps # NoPs /\ pc = "remove" /\ Start <= t /\ t <= End /\ t \in Nat
    BY <1>3, Removals
  <2>2. Start \in Nat /\ End \in Nat
    BY <1>3, <2>1, AtBlock
  <2>3. t \in flags[c] => t \in late[c]
    BY <1>3, <2>1, <2>2 DEF Judged
  <2>4. ASSUME event[c] # None, t \in event[c] .. now
        PROVE  t \in Late(c, event[c] .. now)
    <3>1. event[c] \in Int /\ event[c] <= End
      BY <1>3, <2>1, <2>2, <2>4 DEF IInv, World, None
    <3>2. now - event[c] >= Overlap
      BY <1>3, <2>1, <2>4, <3>1, Overlapping
    <3> QED
      BY <2>4, <3>2 DEF Late
  <2> QED
    BY <1>3, <2>3, <2>4 DEF Moving, LateMotion
<1>4. IInv /\ Judged /\ [Next]_vars =>
        [\A c \in Cameras :
           ((video[c] \ video'[c]) \cap Moving(c)) \ LateMotion(c) # {} => ~ps.answered]_vars
  BY <1>3
<1> QED
  BY <1>1, <1>2, <1>4, Invariance, PTL DEF Spec, OnlyStillVideoRemoved
=============================================================================
