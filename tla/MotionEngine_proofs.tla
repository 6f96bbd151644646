------------------------- MODULE MotionEngine_proofs -------------------------
(***************************************************************************)
(* For any number of cameras, every ring and every number of confirming    *)
(* frames: worker, plugins and motion files agree about the events, the    *)
(* events of a camera do not overlap, and the worker uses each file as     *)
(* MotionRing says.                                                        *)
(*                                                                         *)
(* The argument is about time.  Frames are worked off in the order of      *)
(* their times (InOrder), so that everything the worker has remembered,    *)
(* reported or written lies in the Past of the frames that wait and of the *)
(* one in decoding.  A zero is written only at a second later than every   *)
(* event that ended: later than the first frame of a context, which came   *)
(* after the events of the contexts before, or than the second the context *)
(* wrote last.                                                             *)
(***************************************************************************)
EXTENDS MotionEngine, SequenceTheorems, TLAPS

\* The lemmas of MotionRing_proofs about a write and a range are about any
\* elements; the variables of a ring play no part in them.
Lap == INSTANCE MotionRing_proofs WITH
  cells <- <<>>, last <- None, latest <- None, motion <- {}, covered <- {}, Fractions <- {}

\* The motion of the last N seconds is in the file.
Kept(cells, motion, time) == \A t \in motion : t > time - N => cells[t % N] = 1

LEMMA WriteKeeps ==
  ASSUME NEW time \in Nat, NEW t \in 0 .. time, NEW last \in Int,
         NEW cells \in Cells, NEW motion \in SUBSET (0 .. time),
         last # None => last <= t /\ \A u \in motion : u <= last,
         \A u \in motion : u <= t,
         Kept(cells, motion, time)
  PROVE  /\ AfterWrite(cells, last, t, 0) \in Cells
         /\ Kept(AfterWrite(cells, last, t, 0), motion \ {t}, time)
<1>1. Lap!None = None /\ Lap!Cells = Cells /\ Lap!Indexes = Indexes
  BY DEF Lap!None, None, Lap!Cells, Cells, Lap!Indexes, Indexes, Lap!Flags, Flags
<1>2. \A c, m : Lap!Kept(c, m, time) = Kept(c, m, time)
  BY DEF Lap!Kept, Kept
<1>3. Lap!GapFilled(last, t) = GapFilled(last, t)
  BY <1>1 DEF Lap!GapFilled, GapFilled
<1>4. Lap!AfterWrite(cells, last, t, 0) = AfterWrite(cells, last, t, 0)
  BY <1>1, <1>3 DEF Lap!AfterWrite, AfterWrite
<1>5. MaxNow \in Nat /\ {} \subseteq 0 .. 999
  BY BoundsAssumption
<1>6. /\ cells \in Lap!Cells /\ Lap!Kept(cells, motion, time)
      /\ last # Lap!None => last <= t /\ \A u \in motion : u <= last
  BY <1>1, <1>2
<1>7. /\ Lap!AfterWrite(cells, last, t, 0) \in Lap!Cells
      /\ Lap!Kept(Lap!AfterWrite(cells, last, t, 0), motion \ {t}, time)
  BY <1>5, <1>6, Lap!WriteKeeps, NAssumption, SkewAssumption, Zenon
<1> QED
  BY <1>1, <1>2, <1>4, <1>7

LEMMA RangeKeeps ==
  ASSUME NEW time \in Nat, NEW s \in Int, NEW e \in Int,
         NEW cells \in Cells, NEW motion \in SUBSET (0 .. time),
         Kept(cells, motion, time)
  PROVE  /\ AfterWriteRange(cells, s, e, 1) \in Cells
         /\ Kept(AfterWriteRange(cells, s, e, 1), motion \cup s .. e, time)
<1>1. Lap!Cells = Cells /\ Lap!Indexes = Indexes
  BY DEF Lap!Cells, Cells, Lap!Indexes, Indexes, Lap!Flags, Flags
<1>2. \A c, m : Lap!Kept(c, m, time) = Kept(c, m, time)
  BY DEF Lap!Kept, Kept
<1>3. Lap!AfterWriteRange(cells, s, e, 1) = AfterWriteRange(cells, s, e, 1)
  BY <1>1 DEF Lap!AfterWriteRange, AfterWriteRange
<1>4. MaxNow \in Nat /\ {} \subseteq 0 .. 999
  BY BoundsAssumption
<1>5. cells \in Lap!Cells /\ Lap!Kept(cells, motion, time)
  BY <1>1, <1>2
<1>6. /\ Lap!AfterWriteRange(cells, s, e, 1) \in Lap!Cells
      /\ Lap!Kept(Lap!AfterWriteRange(cells, s, e, 1), motion \cup s .. e, time)
  BY <1>4, <1>5, Lap!RangeKeeps, NAssumption, SkewAssumption, Zenon
<1> QED
  BY <1>1, <1>2, <1>3, <1>6

-----------------------------------------------------------------------------
(* The invariant.                                                          *)

Items == [cam : Cameras, ts : Int, key : BOOLEAN]
AllEntries == [ts : Nat, motion : BOOLEAN, pos : {0, 1}]
Contexts ==
  [alive : {TRUE}, inEvent : BOOLEAN, start : Int, firstTs : Int, lastSecond : Int,
   quiet : {0, 1}, buffer : Seq(AllEntries)]
Files == [cells : Cells, last : Int, latest : Int, motion : SUBSET Nat, covered : SUBSET Int]
Views == [active : BOOLEAN, start : Int, latest : Int, ended : SUBSET Nat]

Shapes ==
  /\ now \in 0 .. MaxNow /\ steps \in 0 .. MaxSteps /\ attempts \in 0 .. MaxAttempts
  /\ stream \in [Cameras -> {"on", "dead", "removed"}] /\ known \subseteq Cameras
  /\ queue \in Seq(Items)
  /\ item \in Items \cup {Idle}
  /\ wc \in [Cameras -> Contexts \cup {NoCtx}]
  /\ file \in [Cameras -> Files]
  /\ view \in [Cameras -> Views]

\* The frames that wait are in the order of their times, after the one in decoding.
InOrder ==
  /\ \A i \in 1 .. Len(queue) : queue[i].ts \in 1 .. now \cup {None}
  /\ \A i, j \in 1 .. Len(queue) :
        i < j /\ queue[i].ts # None /\ queue[j].ts # None => queue[i].ts <= queue[j].ts
  /\ Busy => /\ item.ts \in 1 .. now /\ Ctx.alive
             /\ \A i \in 1 .. Len(queue) : queue[i].ts # None => item.ts <= queue[i].ts

\* The times such that no frame still to be worked off is earlier.
Past ==
  {t \in Int :
     /\ t <= now
     /\ Busy => t <= item.ts
     /\ \A i \in 1 .. Len(queue) : queue[i].ts # None => t <= queue[i].ts}

-----------------------------------------------------------------------------
(* The order of the frames.                                                *)

LEMMA TailOfItems ==
  ASSUME queue \in Seq(Items), queue # << >>
  PROVE  /\ Tail(queue) \in Seq(Items) /\ Work \in Items /\ Work = queue[1]
         /\ Len(queue) \in Nat \ {0} /\ Len(Tail(queue)) = Len(queue) - 1
         /\ \A i \in 1 .. Len(Tail(queue)) : Tail(queue)[i] = queue[i + 1]
         /\ \A i \in 1 .. Len(queue) : queue[i] \in Items
<1>1. /\ Tail(queue) \in Seq(Items) /\ Work \in Items
      /\ Len(Tail(queue)) = Len(queue) - 1
      /\ \A i \in 1 .. Len(Tail(queue)) : Tail(queue)[i] = queue[i + 1]
  BY HeadTailProperties DEF Work
<1>2. Work = queue[1]
  BY DEF Work, Head
<1>3. Len(queue) \in Nat \ {0}
  BY LenProperties, EmptySeq
<1>4. \A i \in 1 .. Len(queue) : queue[i] \in Items
  BY ElementOfSeq
<1> QED
  BY <1>1, <1>2, <1>3, <1>4

LEMMA DequeueOrder ==
  ASSUME Shapes, InOrder, Dequeue, UNCHANGED now,
         item' = Idle \/ (item' = Work /\ Work.ts # None /\ wc'[Work.cam].alive)
  PROVE  /\ InOrder' /\ queue' \in Seq(Items) /\ item' \in Items \cup {Idle}
         /\ Past \subseteq Past'
<1>1. item = Idle /\ queue' = Tail(queue) /\ queue # << >> /\ queue \in Seq(Items)
  BY DEF Dequeue, Shapes
<1>2. /\ queue' \in Seq(Items) /\ Len(queue) \in Nat \ {0} /\ Len(queue') = Len(queue) - 1
      /\ \A i \in 1 .. Len(queue') : queue'[i] = queue[i + 1]
      /\ Work = queue[1] /\ Work \in Items
  BY <1>1, TailOfItems
<1>3. \A i \in 1 .. Len(queue') : i + 1 \in 1 .. Len(queue)
  BY <1>2
<1>4. 1 \in 1 .. Len(queue) /\ \A i \in 1 .. Len(queue') : 1 < i + 1
  BY <1>2
<1>5. /\ \A i \in 1 .. Len(queue') : queue'[i].ts \in 1 .. now' \cup {None}
      /\ \A i, j \in 1 .. Len(queue') :
           i < j /\ queue'[i].ts # None /\ queue'[j].ts # None => queue'[i].ts <= queue'[j].ts
  <2>1. \A i, j \in 1 .. Len(queue') : i < j => i + 1 < j + 1
    BY <1>2
  <2> QED
    BY <1>2, <1>3, <2>1 DEF InOrder
<1>6. Busy' => /\ item' = queue[1] /\ item'.ts \in 1 .. now' /\ Ctx'.alive
               /\ \A i \in 1 .. Len(queue') : queue'[i].ts # None => item'.ts <= queue'[i].ts
  <2> SUFFICES ASSUME Busy'
               PROVE  /\ item' = queue[1] /\ item'.ts \in 1 .. now' /\ Ctx'.alive
                      /\ \A i \in 1 .. Len(queue') : queue'[i].ts # None => item'.ts <= queue'[i].ts
    OBVIOUS
  <2>1. item' = Work /\ Work.ts # None /\ Ctx'.alive
    BY DEF Busy, Ctx, Cam
  <2>2. item'.ts \in 1 .. now'
    BY <1>2, <1>4, <2>1 DEF InOrder
  <2> QED
    BY <1>2, <1>3, <1>4, <2>1, <2>2 DEF InOrder
<1>7. InOrder'
  BY <1>5, <1>6 DEF InOrder
<1>8. ASSUME NEW t \in Past
      PROVE  t \in Past'
  <2>1. \A i \in 1 .. Len(queue') : queue'[i].ts # None => t <= queue'[i].ts
    BY <1>2, <1>3, <1>8 DEF Past
  <2>2. Busy' => t <= item'.ts
    BY <1>2, <1>4, <1>6, <1>8 DEF Past, Busy
  <2> QED
    BY <1>8, <2>1, <2>2 DEF Past
<1> QED
  BY <1>2, <1>7, <1>8

LEMMA AppendOrder ==
  ASSUME Shapes, InOrder, NEW x \in Items, x.ts = None \/ (x.ts = now /\ now > 0),
         queue' = Append(queue, x), UNCHANGED <<now, item, wc>>
  PROVE  /\ InOrder' /\ queue' \in Seq(Items)
         /\ Past \subseteq Past'
<1>1. queue \in Seq(Items) /\ Len(queue) \in Nat /\ now \in Nat
  BY LenProperties DEF Shapes
<1>2. /\ queue' \in Seq(Items) /\ Len(queue') = Len(queue) + 1
      /\ \A i \in 1 .. Len(queue) : queue'[i] = queue[i]
      /\ queue'[Len(queue) + 1] = x
  BY <1>1, AppendProperties
<1>3. \A i \in 1 .. Len(queue') : i \in 1 .. Len(queue) \/ i = Len(queue) + 1
  BY <1>1, <1>2
<1>4. \A i \in 1 .. Len(queue) : queue[i].ts # None => queue[i].ts <= now
  BY <1>1 DEF InOrder, None
<1>5. \A i \in 1 .. Len(queue') : queue'[i].ts \in 1 .. now' \cup {None}
  BY <1>1, <1>2, <1>3 DEF InOrder, None
<1>6. ASSUME NEW i \in 1 .. Len(queue'), NEW j \in 1 .. Len(queue'), i < j,
             queue'[i].ts # None, queue'[j].ts # None
      PROVE  queue'[i].ts <= queue'[j].ts
  <2>1. i \in 1 .. Len(queue)
    BY <1>1, <1>2, <1>6
  <2>2. CASE j \in 1 .. Len(queue)
    BY <1>2, <1>6, <2>1, <2>2 DEF InOrder
  <2>3. CASE j = Len(queue) + 1
    BY <1>2, <1>4, <1>6, <2>1, <2>3
  <2> QED
    BY <1>3, <2>2, <2>3
<1>7. Busy' => /\ item'.ts \in 1 .. now' /\ Ctx'.alive
               /\ \A i \in 1 .. Len(queue') : queue'[i].ts # None => item'.ts <= queue'[i].ts
  <2> SUFFICES ASSUME Busy
               PROVE  /\ item.ts \in 1 .. now /\ Ctx'.alive
                      /\ \A i \in 1 .. Len(queue') : queue'[i].ts # None => item.ts <= queue'[i].ts
    BY DEF Busy
  <2>1. item.ts \in 1 .. now /\ Ctx'.alive
    BY DEF InOrder, Ctx, Cam
  <2> QED
    BY <1>1, <1>2, <1>3, <2>1 DEF InOrder
<1>8. InOrder'
  BY <1>5, <1>6, <1>7 DEF InOrder
<1>9. ASSUME NEW t \in Past
      PROVE  t \in Past'
  BY <1>2, <1>3, <1>9 DEF Past, Busy
<1> QED
  BY <1>2, <1>8, <1>9

LEMMA DecodeOrder ==
  ASSUME Shapes, InOrder, Busy, UNCHANGED <<now, queue>>,
         item' = Idle \/ (item' = item /\ wc'[Cam].alive)
  PROVE  /\ InOrder'
         /\ Past \subseteq Past' /\ \A t \in Past : t <= item.ts
         /\ item.ts \in 1 .. now /\ \A t \in Int : t <= item.ts => t \in Past'
<1>1. /\ item.ts \in 1 .. now
      /\ \A i \in 1 .. Len(queue) : queue[i].ts # None => item.ts <= queue[i].ts
  BY DEF InOrder
<1>2. ASSUME NEW t \in Int, t <= item.ts
      PROVE  t \in Past'
  <2>1. t <= now' /\ (Busy' => t <= item'.ts)
    BY <1>1, <1>2 DEF Busy, Shapes
  <2>2. \A i \in 1 .. Len(queue') : queue'[i].ts # None => t <= queue'[i].ts
    <3>1. queue \in Seq(Items) /\ item.ts \in Int
      BY <1>1 DEF Shapes
    <3>2. ASSUME NEW i \in 1 .. Len(queue)
          PROVE  queue[i].ts \in Int
      <4>1. queue[i] \in Items
        BY <3>1, ElementOfSeq
      <4> QED
        BY <4>1 DEF Items
    <3> QED
      BY <1>1, <1>2, <3>1, <3>2
  <2> QED
    BY <2>1, <2>2 DEF Past
<1>3. Past \subseteq Past' /\ \A t \in Past : t <= item.ts
  BY DEF Past, Busy
<1>4. Busy' => Ctx'.alive
  BY DEF Busy, Ctx, Cam
<1>5. InOrder'
  BY <1>1, <1>4 DEF InOrder, Busy
<1> QED
  BY <1>1, <1>2, <1>3, <1>5

LEMMA TickOrder ==
  ASSUME Shapes, InOrder, now' = now \/ now' = now + 1, UNCHANGED <<queue, item, wc>>
  PROVE  InOrder' /\ Past \subseteq Past'
<1>1. now \in Nat /\ 1 .. now \subseteq 1 .. now'
  BY DEF Shapes
<1>2. Busy' <=> Busy
  BY DEF Busy
<1>3. InOrder'
  BY <1>1, <1>2 DEF InOrder, Ctx, Cam
<1>4. Past \subseteq Past'
  BY <1>1, <1>2 DEF Past
<1> QED
  BY <1>3, <1>4

-----------------------------------------------------------------------------
(* The last results of the motion detector.                                *)

\* Significant motion was seen from the i-th of the last frames on.
Moving(buf, i) == \A j \in i .. Len(buf) : buf[j].motion

\* The motion that is going on began at t or later.
MovingSince(buf, t) == \A i \in 1 .. Len(buf) : Moving(buf, i) => buf[i].ts >= t

LEMMA PushedEntries ==
  ASSUME NEW buf \in Seq(AllEntries), NEW e \in AllEntries, Len(buf) <= Confirm
  PROVE  LET b == Pushed(buf, e)
         IN  /\ b \in Seq(AllEntries) /\ Len(b) \in Nat \ {0} /\ Len(b) <= Confirm
             /\ b[Len(b)] = e
             /\ \E k \in {0, 1} :
                  /\ Len(buf) = Len(b) - 1 + k
                  /\ \A i \in 1 .. Len(b) - 1 : i + k \in 1 .. Len(buf) /\ b[i] = buf[i + k]
<1> DEFINE a == Append(buf, e)
<1>1. /\ a \in Seq(AllEntries) /\ Len(a) = Len(buf) + 1 /\ a[Len(buf) + 1] = e
      /\ \A i \in 1 .. Len(buf) : a[i] = buf[i]
      /\ Len(buf) \in Nat /\ Confirm \in Nat \ {0}
  BY AppendProperties, LenProperties, ConfirmAssumption
<1>2. a # << >>
  BY <1>1, EmptySeq
<1> HIDE DEF a
<1>3. CASE Len(a) > Confirm
  <2>1. /\ Tail(a) \in Seq(AllEntries) /\ Len(Tail(a)) = Len(a) - 1
        /\ \A i \in 1 .. Len(Tail(a)) : Tail(a)[i] = a[i + 1]
    BY <1>1, <1>2, HeadTailProperties
  <2>2. Pushed(buf, e) = Tail(a)
    BY <1>3 DEF Pushed, a
  <2>3. Len(Tail(a)) = Len(buf) /\ Len(buf) = Confirm
    BY <1>1, <1>3, <2>1
  <2>4. Tail(a)[Len(buf)] = e
    BY <1>1, <2>1, <2>3
  <2>5. \A i \in 1 .. Len(buf) - 1 : i + 1 \in 1 .. Len(buf) /\ Tail(a)[i] = buf[i + 1]
    BY <1>1, <2>1, <2>3
  <2> QED
    BY <1>1, <2>1, <2>2, <2>3, <2>4, <2>5
<1>4. CASE ~(Len(a) > Confirm)
  <2>1. Pushed(buf, e) = a
    BY <1>4 DEF Pushed, a
  <2>2. \A i \in 1 .. Len(buf) : i + 0 \in 1 .. Len(buf) /\ a[i] = buf[i + 0]
    BY <1>1
  <2> QED
    BY <1>1, <1>4, <2>1, <2>2
<1> QED
  BY <1>3, <1>4

LEMMA PushedMotion ==
  ASSUME NEW buf \in Seq(AllEntries), NEW e \in AllEntries, Len(buf) <= Confirm,
         NEW t \in Int, e.motion => e.ts >= t /\ MovingSince(buf, t)
  PROVE  MovingSince(Pushed(buf, e), t)
<1> DEFINE b == Pushed(buf, e)
<1>1. /\ Len(b) \in Nat \ {0} /\ b[Len(b)] = e
  BY PushedEntries
<1>2. PICK k \in {0, 1} :
        /\ Len(buf) = Len(b) - 1 + k
        /\ \A i \in 1 .. Len(b) - 1 : i + k \in 1 .. Len(buf) /\ b[i] = buf[i + k]
  BY PushedEntries
<1> HIDE DEF b
<1>3. ASSUME NEW i \in 1 .. Len(b), Moving(b, i)
      PROVE  b[i].ts >= t
  <2>1. e.motion
    BY <1>1, <1>3 DEF Moving
  <2>2. CASE i = Len(b)
    BY <1>1, <2>1, <2>2
  <2>3. CASE i \in 1 .. Len(b) - 1
    <3>1. i + k \in 1 .. Len(buf) /\ b[i] = buf[i + k]
      BY <1>2, <2>3
    <3>2. Moving(buf, i + k)
      <4> SUFFICES ASSUME NEW j \in i + k .. Len(buf)
                   PROVE  buf[j].motion
        BY DEF Moving
      <4>1. j - k \in 1 .. Len(b) - 1 /\ j - k \in i .. Len(b) /\ (j - k) + k = j
        BY <1>1, <1>2
      <4>2. b[j - k] = buf[j]
        BY <1>2, <4>1
      <4> QED
        BY <1>3, <4>1, <4>2 DEF Moving
    <3> QED
      BY <2>1, <3>1, <3>2 DEF MovingSince
  <2> QED
    BY <1>1, <2>2, <2>3
<1> QED
  BY <1>3 DEF MovingSince, b

\* Significant motion of an event began with the oldest frame in the buffer.
LEMMA ConfirmedFromFirst ==
  ASSUME NEW buf \in Seq(AllEntries), NEW t \in Int, MovingSince(buf, t), Confirmed(buf)
  PROVE  buf[1] \in AllEntries /\ buf[1].ts >= t /\ 1 \in 1 .. Len(buf)
<1>1. Len(buf) = Confirm /\ 1 \in 1 .. Len(buf)
  BY ConfirmAssumption DEF Confirmed
<1>2. Moving(buf, 1)
  BY <1>1 DEF Moving, Confirmed
<1> QED
  BY <1>1, <1>2, ElementOfSeq DEF MovingSince

-----------------------------------------------------------------------------
(* The inductive invariant: a context, a motion file and what the plugins  *)
(* know, when the times in P are past.                                     *)

CtxOK(w, v, P) ==
  w.alive =>
    /\ Len(w.buffer) <= Confirm
    /\ \A i \in 1 .. Len(w.buffer) : w.buffer[i].ts > 0 /\ w.buffer[i].ts \in P
    /\ w.firstTs \in P /\ w.lastSecond \in P
    /\ w.firstTs # None => \A t \in v.ended : t <= w.firstTs \/ t <= w.lastSecond
    /\ ~w.inEvent => MovingSince(w.buffer, v.latest)
    /\ w.inEvent => /\ w.start > 0 /\ w.firstTs # None
                    /\ v.active /\ v.start = w.start /\ v.latest >= w.start

FileOK(f, P, n) ==
  /\ Kept(f.cells, f.motion, n)
  /\ f.motion \subseteq 0 .. n /\ \A t \in f.motion : t <= f.latest
  /\ f.latest \in P /\ f.last \in {f.latest, None}

ViewOK(v, f, P) ==
  /\ v.ended \subseteq f.motion
  /\ v.latest \in P /\ \A t \in v.ended : t <= v.latest

CamOK(c) ==
  /\ CtxOK(wc[c], view[c], Past)
  /\ FileOK(file[c], Past, now)
  /\ ViewOK(view[c], file[c], Past)

IInv == Shapes /\ InOrder /\ \A c \in Cameras : CamOK(c)

\* Nothing of a camera changes while times pass.
LEMMA CamStays ==
  ASSUME Shapes, NEW c \in Cameras, CamOK(c), Past \subseteq Past', now' \in Nat, now' >= now,
         wc'[c] = wc[c] \/ ~wc'[c].alive, file'[c] = file[c], view'[c] = view[c]
  PROVE  CamOK(c)'
<1>1. CtxOK(wc'[c], view'[c], Past')
  BY DEF CamOK, CtxOK
<1>2. FileOK(file'[c], Past', now')
  <2>1. now \in Nat /\ 0 .. now \subseteq 0 .. now' /\ N \in Nat
    BY NAssumption DEF Shapes
  <2>2. FileOK(file[c], Past, now)
    BY DEF CamOK
  <2>3. Kept(file[c].cells, file[c].motion, now')
    <3>1. \A t \in file[c].motion : t \in Int /\ (t > now' - N => t > now - N)
      BY <2>1, <2>2 DEF FileOK
    <3> QED
      BY <2>2, <3>1 DEF FileOK, Kept
  <2> QED
    BY <2>1, <2>2, <2>3 DEF FileOK
<1>3. ViewOK(view'[c], file'[c], Past')
  BY DEF CamOK, ViewOK
<1> QED
  BY <1>1, <1>2, <1>3 DEF CamOK

LEMMA NonePast == ASSUME Shapes, InOrder PROVE None \in Past
<1>1. \A i \in 1 .. Len(queue) : queue[i].ts # None => None <= queue[i].ts
  BY DEF InOrder, None
<1> QED
  BY <1>1 DEF Past, InOrder, Shapes, None

LEMMA InitInv == Init => IInv
<1> SUFFICES ASSUME Init
             PROVE  IInv
  OBVIOUS
<1>1. queue \in Seq(Items) /\ Len(queue) = 0 /\ ~Busy
  BY EmptySeq DEF Init, Busy
<1>2. Shapes
  <2>1. file \in [Cameras -> Files] /\ view \in [Cameras -> Views]
    BY DEF Init, Files, Views, Cells, Flags, None
  <2>2. now \in 0 .. MaxNow /\ steps \in 0 .. MaxSteps /\ attempts \in 0 .. MaxAttempts
    BY BoundsAssumption, MaxAttemptsAssumption DEF Init
  <2> QED
    BY <1>1, <2>1, <2>2 DEF Init, Shapes
<1>3. InOrder
  BY <1>1 DEF InOrder
<1>4. ASSUME NEW c \in Cameras
      PROVE  CamOK(c)
  <2>1. /\ ~wc[c].alive
        /\ file[c] = [cells |-> [i \in Indexes |-> 0], last |-> None, latest |-> None,
                      motion |-> {}, covered |-> {}]
        /\ view[c] = [active |-> FALSE, start |-> None, latest |-> None, ended |-> {}]
    BY DEF Init, NoCtx
  <2> QED
    BY <1>2, <1>3, <2>1, NonePast DEF CamOK, CtxOK, FileOK, ViewOK, Kept
<1> QED
  BY <1>2, <1>3, <1>4 DEF IInv

-----------------------------------------------------------------------------
(* Steps that leave the cameras' files and events alone.                   *)

\* Time passes, streams come and go, frames and removals are posted.
LEMMA EnvironmentInv ==
  ASSUME IInv,
         \/ Tick
         \/ \E c \in Cameras : \/ StreamStarts(c) \/ StreamDies(c) \/ CameraForgotten(c)
                               \/ RemoveStream(c)
                               \/ \E key \in BOOLEAN : PostFrame(c, key)
  PROVE  IInv'
<1>a. UNCHANGED worker
  BY DEF Tick, StreamStarts, StreamDies, CameraForgotten, RemoveStream, PostFrame
<1>b. now' = now \/ now' = now + 1
  BY DEF Tick, StreamStarts, StreamDies, CameraForgotten, RemoveStream, PostFrame
<1>c. \/ UNCHANGED queue
      \/ \E c \in Cameras : RemoveStream(c)
      \/ \E c \in Cameras, key \in BOOLEAN : PostFrame(c, key)
  BY DEF Tick, StreamStarts, StreamDies, CameraForgotten
<1>1. /\ UNCHANGED worker /\ Shapes /\ InOrder /\ now \in Nat
      /\ now' = now \/ now' = now + 1
  BY <1>a, <1>b DEF IInv, Shapes
<1>2. /\ InOrder' /\ Past \subseteq Past' /\ queue' \in Seq(Items)
  <2>1. CASE UNCHANGED queue
    BY <1>1, <2>1, TickOrder DEF worker, Shapes
  <2>2. ASSUME NEW c \in Cameras, RemoveStream(c)
        PROVE  InOrder' /\ Past \subseteq Past' /\ queue' \in Seq(Items)
    <3>1. [cam |-> c, ts |-> None, key |-> FALSE] \in Items
      BY DEF Items, None
    <3> QED
      BY <1>1, <2>2, <3>1, AppendOrder DEF RemoveStream, worker
  <2>3. ASSUME NEW c \in Cameras, NEW key \in BOOLEAN, PostFrame(c, key)
        PROVE  InOrder' /\ Past \subseteq Past' /\ queue' \in Seq(Items)
    <3>1. [cam |-> c, ts |-> now, key |-> key] \in Items
      BY <1>1 DEF Items
    <3> QED
      BY <1>1, <2>3, <3>1, AppendOrder DEF PostFrame, worker
  <2> QED
    BY <1>c, <2>1, <2>2, <2>3
<1>3. Shapes'
  <2>1. now' \in 0 .. MaxNow /\ steps' \in 0 .. MaxSteps
    <3>1. (now < MaxNow /\ now' = now + 1 /\ steps' = steps) \/ (now' = now /\ Step)
      BY DEF Tick, StreamStarts, StreamDies, CameraForgotten, RemoveStream, PostFrame
    <3>2. now \in 0 .. MaxNow /\ steps \in 0 .. MaxSteps
      BY <1>1 DEF Shapes
    <3> QED
      BY <3>1, <3>2, BoundsAssumption DEF Step
  <2>2. stream' \in [Cameras -> {"on", "dead", "removed"}] /\ known' \subseteq Cameras
    BY <1>1
    DEF Tick, StreamStarts, StreamDies, CameraForgotten, RemoveStream, PostFrame, Shapes
  <2> QED
    BY <1>1, <1>2, <2>1, <2>2 DEF Shapes, worker
<1>4. ASSUME NEW c \in Cameras
      PROVE  CamOK(c)'
  BY <1>1, <1>2, CamStays DEF IInv, worker
<1> QED
  BY <1>2, <1>3, <1>4 DEF IInv

\* A removal takes the context away; a failure to create one leaves nothing.
LEMMA DequeueInv ==
  ASSUME IInv, DoRemoval \/ CreateFails
  PROVE  IInv'
<1>a. /\ Dequeue /\ UNCHANGED <<env, item, attempts, file, view>>
      /\ wc' = wc \/ wc' = [wc EXCEPT ![Work.cam] = NoCtx]
  BY DEF DoRemoval, CreateFails
<1>b. wc \in [Cameras -> Contexts \cup {NoCtx}] /\ ~NoCtx.alive
  BY DEF IInv, Shapes, NoCtx
<1>c. \A c \in Cameras : wc'[c] = wc[c] \/ wc'[c] = NoCtx
  BY <1>a, <1>b
<1>d. wc' \in [Cameras -> Contexts \cup {NoCtx}]
  BY <1>a, <1>b
<1>1. /\ Dequeue /\ UNCHANGED <<env, item, attempts, file, view>> /\ item' = Idle
      /\ \A c \in Cameras : wc'[c] = wc[c] \/ ~wc'[c].alive
      /\ wc' \in [Cameras -> Contexts \cup {NoCtx}]
  BY <1>a, <1>b, <1>c, <1>d DEF Dequeue
<1>2. InOrder' /\ queue' \in Seq(Items) /\ Past \subseteq Past'
  BY <1>1, DequeueOrder DEF IInv, env
<1>3. Shapes'
  BY <1>1, <1>2 DEF IInv, Shapes, env
<1>4. ASSUME NEW c \in Cameras
      PROVE  CamOK(c)'
  <2>1. now' = now /\ now \in Nat
    BY <1>1 DEF env, IInv, Shapes
  <2> QED
    BY <1>1, <1>2, <2>1, CamStays DEF IInv
<1> QED
  BY <1>2, <1>3, <1>4 DEF IInv

\* A frame finds its context or gets a fresh one, with a ring object of its own.
LEMMA TakeFrameInv ==
  ASSUME IInv, TakeFrame
  PROVE  IInv'
<1>1. /\ Dequeue /\ Work.ts # None /\ UNCHANGED env /\ view' = view
      /\ Work \in Items
  <2>1. queue \in Seq(Items) /\ queue # << >>
    BY DEF IInv, Shapes, TakeFrame, Dequeue
  <2> QED
    BY <2>1, TailOfItems DEF TakeFrame
<1>2. Work.cam \in Cameras
  BY <1>1 DEF Items
<1>3. wc'[Work.cam].alive /\ wc' \in [Cameras -> Contexts \cup {NoCtx}]
  <2>1. FreshCtx \in Contexts /\ FreshCtx.alive
    BY EmptySeq DEF FreshCtx, Contexts, None
  <2> QED
    BY <1>2, <2>1 DEF TakeFrame, IInv, Shapes
<1>4. /\ item' \in {Work, Idle} /\ attempts' \in 0 .. MaxAttempts
  BY <1>1, MaxAttemptsAssumption DEF TakeFrame, Dequeue, IInv, Shapes
<1>5. InOrder' /\ queue' \in Seq(Items) /\ item' \in Items \cup {Idle} /\ Past \subseteq Past'
  BY <1>1, <1>3, <1>4, DequeueOrder DEF IInv, env
<1>6. file' = file \/ file' = Reopened(Work.cam)
  BY DEF TakeFrame
<1>7. /\ file' \in [Cameras -> Files]
      /\ \A c \in Cameras : /\ file'[c].last \in {file[c].last, None}
                             /\ file'[c].cells = file[c].cells
                             /\ file'[c].latest = file[c].latest
                             /\ file'[c].motion = file[c].motion
  <2>1. file \in [Cameras -> Files]
    BY DEF IInv, Shapes
  <2>2. CASE file' = file
    BY <2>1, <2>2
  <2>3. CASE file' = [file EXCEPT ![Work.cam].last = None]
    <3>1. [file[Work.cam] EXCEPT !.last = None] \in Files
      BY <1>2, <2>1 DEF Files, None
    <3>2. file' \in [Cameras -> Files]
      BY <1>2, <2>1, <2>3, <3>1
    <3>3. \A c \in Cameras :
            file'[c] = IF c = Work.cam THEN [file[c] EXCEPT !.last = None] ELSE file[c]
      BY <1>2, <2>1, <2>3
    <3> QED
      BY <2>1, <3>2, <3>3 DEF Files
  <2> QED
    BY <1>6, <2>2, <2>3 DEF Reopened
<1>8. Shapes'
  BY <1>1, <1>3, <1>4, <1>5, <1>7 DEF IInv, Shapes, env
<1>9. ASSUME NEW c \in Cameras
      PROVE  CamOK(c)'
  <2>1. CamOK(c) /\ now' = now /\ view' = view
    BY <1>1 DEF IInv, env
  <2>2. FileOK(file'[c], Past', now') /\ ViewOK(view'[c], file'[c], Past')
    BY <1>5, <1>7, <2>1 DEF CamOK, FileOK, ViewOK
  <2>3. CtxOK(wc'[c], view'[c], Past')
    <3>1. CASE wc'[c] = wc[c]
      BY <1>5, <2>1, <3>1 DEF CamOK, CtxOK
    <3>2. CASE wc'[c] = FreshCtx
      <4>1. None \in Past' /\ Len(FreshCtx.buffer) = 0 /\ Confirm \in Nat
        BY <1>5, NonePast, ConfirmAssumption, EmptySeq DEF IInv, FreshCtx
      <4> QED
        BY <3>2, <4>1 DEF CtxOK, FreshCtx, MovingSince
    <3> QED
      BY <3>1, <3>2, <1>2 DEF TakeFrame, IInv, Shapes
  <2> QED
    BY <2>2, <2>3 DEF CamOK
<1> QED
  BY <1>5, <1>8, <1>9 DEF IInv

-----------------------------------------------------------------------------
(* Steps of the worker inside the decode loop.                             *)

\* What the worker finds.
LEMMA Decoding ==
  ASSUME IInv, Busy
  PROVE  /\ Cam \in Cameras /\ item \in Items /\ item.ts \in 1 .. now /\ now \in Nat
         /\ Ctx \in Contexts /\ Ctx.alive /\ CamOK(Cam)
         /\ file[Cam] \in Files /\ view[Cam] \in Views
<1>1. item \in Items /\ item.ts \in 1 .. now /\ now \in Nat /\ Ctx.alive
  BY DEF IInv, Shapes, InOrder, Busy
<1>2. Cam \in Cameras
  BY <1>1 DEF Items, Cam
<1>3. wc[Cam] \in Contexts \cup {NoCtx} /\ file[Cam] \in Files /\ view[Cam] \in Views
  BY <1>2 DEF IInv, Shapes
<1>4. Ctx \in Contexts
  BY <1>1, <1>3 DEF Ctx, NoCtx
<1> QED
  BY <1>1, <1>2, <1>3, <1>4 DEF IInv

LEMMA DecodeInv ==
  ASSUME IInv, Busy, UNCHANGED <<env, queue>>, NEW k \in Cameras, k = Cam,
         NEW w \in Contexts \cup {NoCtx}, NEW f \in Files, NEW v \in Views,
         wc' = [wc EXCEPT ![k] = w], file' = [file EXCEPT ![k] = f],
         view' = [view EXCEPT ![k] = v],
         attempts' \in 0 .. MaxAttempts,
         item' = Idle \/ (item' = item /\ w.alive),
         CtxOK(w, v, Past'), FileOK(f, Past', now), ViewOK(v, f, Past')
  PROVE  IInv'
<1>1. /\ wc' \in [Cameras -> Contexts \cup {NoCtx}] /\ wc'[k] = w
      /\ \A c \in Cameras \ {k} : wc'[c] = wc[c]
  BY DEF IInv, Shapes
<1>2. /\ file' \in [Cameras -> Files] /\ file'[k] = f
      /\ \A c \in Cameras \ {k} : file'[c] = file[c]
  BY DEF IInv, Shapes
<1>3. /\ view' \in [Cameras -> Views] /\ view'[k] = v
      /\ \A c \in Cameras \ {k} : view'[c] = view[c]
  BY DEF IInv, Shapes
<1>4. InOrder' /\ Past \subseteq Past'
  BY <1>1, DecodeOrder DEF IInv, env
<1>5. Shapes'
  BY <1>1, <1>2, <1>3 DEF IInv, Shapes, env
<1>6. ASSUME NEW c \in Cameras
      PROVE  CamOK(c)'
  <2>1. now' = now /\ now \in Nat
    BY DEF env, IInv, Shapes
  <2>2. CASE c = k
    BY <1>1, <1>2, <1>3, <2>1, <2>2 DEF CamOK
  <2>3. CASE c # k
    BY <1>1, <1>2, <1>3, <1>4, <2>1, <2>3, CamStays DEF IInv
  <2> QED
    BY <2>2, <2>3
<1> QED
  BY <1>4, <1>5, <1>6 DEF IInv

\* Times that have passed have passed later on.
LEMMA OKMonotone ==
  ASSUME NEW P, NEW Q, P \subseteq Q, NEW w, NEW f, NEW v, NEW n
  PROVE  /\ CtxOK(w, v, P) => CtxOK(w, v, Q)
         /\ FileOK(f, P, n) => FileOK(f, Q, n)
         /\ ViewOK(v, f, P) => ViewOK(v, f, Q)
  BY DEF CtxOK, FileOK, ViewOK

LEMMA NoResultInv ==
  ASSUME IInv, DecodeFails \/ DecodeMore \/ NoResult
  PROVE  IInv'
<1>1. /\ Busy /\ UNCHANGED <<env, queue, file, view>>
      /\ attempts' \in 0 .. MaxAttempts
      /\ item' = Idle \/ item' = item
  <2>1. attempts \in 0 .. MaxAttempts
    BY DEF IInv, Shapes
  <2>2. attempts' \in 0 .. MaxAttempts
    BY <2>1, MaxAttemptsAssumption DEF DecodeFails, DecodeMore, NoResult, Output
  <2> QED
    BY <2>2 DEF DecodeFails, DecodeMore, NoResult, Output
<1>2. PICK w \in {wc[Cam], NoCtx} :
        /\ wc' = [wc EXCEPT ![Cam] = w]
        /\ item' = Idle \/ (item' = item /\ w = wc[Cam])
  <2>1. wc = [wc EXCEPT ![Cam] = wc[Cam]]
    BY DEF IInv, Shapes
  <2> QED
    BY <2>1 DEF DecodeFails, DecodeMore, NoResult, Output
<1>3. Cam \in Cameras /\ Ctx.alive /\ Ctx = wc[Cam] /\ w \in Contexts \cup {NoCtx}
      /\ file[Cam] \in Files /\ view[Cam] \in Views /\ CamOK(Cam)
  BY <1>1, <1>2, Decoding DEF Ctx
<1>4. Past \subseteq Past'
  BY <1>1, <1>2, <1>3, DecodeOrder DEF IInv, Shapes, env
<1>5. /\ CtxOK(w, view[Cam], Past') /\ FileOK(file[Cam], Past', now)
      /\ ViewOK(view[Cam], file[Cam], Past')
  <2>1. CtxOK(w, view[Cam], Past)
    BY <1>2, <1>3 DEF CamOK, CtxOK, NoCtx
  <2> QED
    BY <1>3, <1>4, <2>1, OKMonotone DEF CamOK
<1>6. file' = [file EXCEPT ![Cam] = file[Cam]] /\ view' = [view EXCEPT ![Cam] = view[Cam]]
  BY <1>1 DEF IInv, Shapes
<1> QED
  BY <1>1, <1>2, <1>3, <1>5, <1>6, DecodeInv

\* The worker has a result, for picture entry e.
LEMMA Result ==
  ASSUME IInv, Busy, Output, NEW e \in Entries
  PROVE  /\ e \in AllEntries /\ e.ts = item.ts
         /\ UNCHANGED <<env, queue>> /\ attempts' \in 0 .. MaxAttempts
         /\ item' = Idle \/ item' = item
<1>1. item.ts \in Nat
  BY Decoding
<1>2. e \in AllEntries /\ e.ts = item.ts
  BY <1>1 DEF Entries, AllEntries
<1>3. attempts' \in 0 .. MaxAttempts
  <2>1. attempts \in 0 .. MaxAttempts
    BY DEF IInv, Shapes
  <2>2. attempts' = 0 \/ (attempts > 0 /\ attempts' = attempts - 1)
    BY DEF Output
  <2> QED
    BY <2>1, <2>2, MaxAttemptsAssumption
<1> QED
  BY <1>2, <1>3 DEF Output

\* The entries of the buffer after a push lie in the past.
LEMMA PushedOK ==
  ASSUME IInv, Busy, NEW e \in AllEntries, e.ts = item.ts,
         NEW P, Past \subseteq P, item.ts \in P
  PROVE  LET b == Pushed(Ctx.buffer, e)
         IN  /\ b \in Seq(AllEntries) /\ Len(b) <= Confirm
             /\ \A i \in 1 .. Len(b) : b[i].ts > 0 /\ b[i].ts \in P /\ b[i].ts <= item.ts
             /\ MovingSince(Ctx.buffer, view[Cam].latest) => MovingSince(b, view[Cam].latest)
             /\ ~e.motion => \A t \in Int : MovingSince(b, t)
<1> DEFINE b == Pushed(Ctx.buffer, e)
<1>1. /\ Ctx.buffer \in Seq(AllEntries) /\ Len(Ctx.buffer) <= Confirm
      /\ \A i \in 1 .. Len(Ctx.buffer) : Ctx.buffer[i].ts > 0 /\ Ctx.buffer[i].ts \in Past
      /\ item.ts \in 1 .. now /\ view[Cam].latest \in Past
  <2>1. Ctx \in Contexts /\ Ctx.alive /\ CamOK(Cam) /\ item.ts \in 1 .. now
    BY Decoding
  <2>2. CtxOK(Ctx, view[Cam], Past) /\ view[Cam].latest \in Past
    BY <2>1 DEF CamOK, ViewOK, Ctx
  <2> QED
    BY <2>1, <2>2 DEF Contexts, CtxOK
<1>2. \A t \in Past : t \in Int /\ t <= item.ts
  BY DEF Past
<1>3. /\ b \in Seq(AllEntries) /\ Len(b) \in Nat \ {0} /\ Len(b) <= Confirm
      /\ b[Len(b)] = e
  BY <1>1, PushedEntries
<1>4. PICK k \in {0, 1} :
        /\ Len(Ctx.buffer) = Len(b) - 1 + k
        /\ \A i \in 1 .. Len(b) - 1 : i + k \in 1 .. Len(Ctx.buffer) /\ b[i] = Ctx.buffer[i + k]
  BY <1>1, PushedEntries
<1>5. /\ MovingSince(Ctx.buffer, view[Cam].latest) => MovingSince(b, view[Cam].latest)
      /\ ~e.motion => \A t \in Int : MovingSince(b, t)
  <2>1. view[Cam].latest \in Int /\ e.ts >= view[Cam].latest
    BY <1>1, <1>2
  <2>2. ASSUME NEW t \in Int, e.motion => e.ts >= t /\ MovingSince(Ctx.buffer, t)
        PROVE  MovingSince(b, t)
    BY <1>1, <2>2, PushedMotion
  <2> QED
    BY <2>1, <2>2
<1> HIDE DEF b
<1>6. ASSUME NEW i \in 1 .. Len(b)
      PROVE  b[i].ts > 0 /\ b[i].ts \in P /\ b[i].ts <= item.ts
  <2>1. CASE i = Len(b)
    BY <1>1, <1>3, <2>1
  <2>2. CASE i \in 1 .. Len(b) - 1
    <3>1. PICK j \in 1 .. Len(Ctx.buffer) : b[i] = Ctx.buffer[j]
      BY <1>4, <2>2
    <3> QED
      BY <1>1, <1>2, <3>1
  <2> QED
    BY <1>3, <2>1, <2>2
<1> QED
  BY <1>3, <1>5, <1>6 DEF b

\* The file takes a zero at the time of the frame, which no event that ended reaches.
LEMMA RingWriteOK ==
  ASSUME IInv, Busy, NEW P, Past \subseteq P, item.ts \in P, WritesZero(Ctx),
         NEW f, f.cells = AfterWrite(file[Cam].cells, file[Cam].last, item.ts, 0),
         f.last = item.ts, f.latest = item.ts, f.motion = file[Cam].motion \ {item.ts}
  PROVE  f.cells \in Cells /\ FileOK(f, P, now) /\ ViewOK(view[Cam], f, P)
<1> DEFINE g == file[Cam]
<1>1. /\ FileOK(g, Past, now) /\ ViewOK(view[Cam], g, Past) /\ CtxOK(Ctx, view[Cam], Past)
      /\ Ctx.alive /\ g \in Files /\ item.ts \in 1 .. now /\ now \in Nat /\ Ctx \in Contexts
  BY Decoding DEF CamOK, Ctx
<1>2. \A t \in Past : t \in Int /\ t <= item.ts
  BY DEF Past
<1>3. /\ g.cells \in Cells /\ g.motion \in SUBSET (0 .. now) /\ g.last \in Int
      /\ Kept(g.cells, g.motion, now)
      /\ g.latest \in Int /\ g.latest <= item.ts /\ \A t \in g.motion : t <= g.latest
      /\ g.last \in {g.latest, None}
  BY <1>1, <1>2 DEF FileOK, Files
<1> HIDE DEF g
<1>4. f.cells \in Cells /\ Kept(f.cells, f.motion, now)
  <2>1. g.last # None => g.last <= item.ts /\ \A t \in g.motion : t <= g.last
    BY <1>3
  <2>2. \A t \in g.motion : t <= item.ts
    BY <1>1, <1>3
  <2>3. item.ts \in 0 .. now
    BY <1>1
  <2>4. /\ AfterWrite(g.cells, g.last, item.ts, 0) \in Cells
        /\ Kept(AfterWrite(g.cells, g.last, item.ts, 0), g.motion \ {item.ts}, now)
    BY <1>1, <1>3, <2>1, <2>2, <2>3, WriteKeeps
  <2> QED
    BY <2>4 DEF g
<1>5. FileOK(f, P, now)
  BY <1>1, <1>3, <1>4 DEF FileOK, g
<1>6. \A t \in view[Cam].ended : t < item.ts
  <2>1. Ctx.firstTs # None /\ item.ts - Ctx.firstTs > HoldOff /\ item.ts # Ctx.lastSecond
    BY DEF WritesZero
  <2>2. Ctx.firstTs \in Int /\ Ctx.lastSecond \in Int /\ Ctx.lastSecond <= item.ts
    BY <1>1, <1>2 DEF CtxOK
  <2>3. Ctx.firstTs < item.ts /\ Ctx.lastSecond < item.ts
    BY <1>1, <2>1, <2>2, HoldOffAssumption
  <2>4. ASSUME NEW t \in view[Cam].ended
        PROVE  t \in Int /\ (t <= Ctx.firstTs \/ t <= Ctx.lastSecond)
    BY <1>1, <1>3, <2>1 DEF CtxOK, ViewOK, g
  <2> QED
    BY <1>1, <2>2, <2>3, <2>4
<1>7. ViewOK(view[Cam], f, P)
  BY <1>1, <1>6 DEF ViewOK, g
<1> QED
  BY <1>4, <1>5, <1>7

LEMMA WithFirstFields ==
  ASSUME NEW x \in Contexts, item.ts \in Int
  PROVE  LET y == WithFirst(x)
         IN  /\ y \in Contexts /\ y.alive /\ y.buffer = x.buffer /\ y.inEvent = x.inEvent
             /\ y.start = x.start /\ y.lastSecond = x.lastSecond
             /\ y.firstTs = IF x.firstTs = None THEN item.ts ELSE x.firstTs
<1>1. CASE x.firstTs = None
  <2>1. WithFirst(x) = [x EXCEPT !.firstTs = item.ts]
    BY <1>1 DEF WithFirst
  <2> QED
    BY <1>1, <2>1 DEF Contexts
<1>2. CASE x.firstTs # None
  <2>1. WithFirst(x) = x
    BY <1>2 DEF WithFirst
  <2> QED
    BY <1>2, <2>1 DEF Contexts
<1> QED
  BY <1>1, <1>2

\* No event, and none starts.
LEMMA StaysQuietInv ==
  ASSUME IInv, Busy, NEW e \in Entries, StaysQuiet(e)
  PROVE  IInv'
<1> DEFINE buf == Pushed(Ctx.buffer, e)
           x == [Ctx EXCEPT !.buffer = buf]
           u == WithFirst(x)
           g == file[Cam]
           v == view[Cam]
<1>1. /\ Output /\ ~Ctx.inEvent /\ UNCHANGED view
      /\ e \in AllEntries /\ e.ts = item.ts /\ UNCHANGED <<env, queue>>
      /\ attempts' \in 0 .. MaxAttempts
      /\ item' = Idle \/ item' = item
  BY Result DEF StaysQuiet
<1>2. /\ Cam \in Cameras /\ item.ts \in 1 .. now /\ now \in Nat /\ Ctx \in Contexts /\ Ctx.alive
      /\ g \in Files /\ v \in Views /\ CtxOK(Ctx, v, Past) /\ FileOK(g, Past, now)
      /\ ViewOK(v, g, Past)
  BY Decoding DEF CamOK, Ctx
<1>3. PICK w, f :
        /\ wc' = [wc EXCEPT ![Cam] = w] /\ file' = [file EXCEPT ![Cam] = f]
        /\ \/ /\ WritesZero(Ctx) /\ w = [u EXCEPT !.lastSecond = item.ts]
              /\ f = [cells |-> AfterWrite(g.cells, g.last, item.ts, 0), last |-> item.ts,
                      latest |-> item.ts, motion |-> g.motion \ {item.ts},
                      covered |-> g.covered \cup Ring(Cam)!Passed(item.ts)]
           \/ w = u /\ f = g
  <2>1. file = [file EXCEPT ![Cam] = file[Cam]]
    BY DEF IInv, Shapes
  <2> QED
    BY <2>1 DEF StaysQuiet, RingWrite
<1>4. /\ u \in Contexts /\ u.alive /\ u.buffer = buf /\ ~u.inEvent
      /\ u.lastSecond = Ctx.lastSecond
      /\ u.firstTs = IF Ctx.firstTs = None THEN item.ts ELSE Ctx.firstTs
  <2>1. buf \in Seq(AllEntries)
    <3>1. Ctx.buffer \in Seq(AllEntries) /\ Len(Ctx.buffer) <= Confirm
      BY <1>2 DEF CtxOK, Contexts
    <3> QED
      BY <1>1, <3>1, PushedEntries
  <2>2. /\ x \in Contexts /\ x.buffer = buf /\ x.inEvent = Ctx.inEvent
        /\ x.lastSecond = Ctx.lastSecond /\ x.firstTs = Ctx.firstTs
    BY <1>2, <2>1 DEF Contexts
  <2>3. item.ts \in Int
    BY <1>2
  <2> HIDE DEF x, buf
  <2> QED
    BY <1>1, <2>2, <2>3, WithFirstFields
<1> HIDE DEF g, v, buf, x, u
<1>5. /\ w \in Contexts /\ w.alive /\ w.buffer = buf /\ ~w.inEvent
      /\ w.lastSecond \in {Ctx.lastSecond, item.ts} /\ w.firstTs = u.firstTs
  <2>1. w = u \/ w = [u EXCEPT !.lastSecond = item.ts]
    BY <1>3
  <2>2. CASE w = u
    BY <1>4, <2>2
  <2>3. CASE w = [u EXCEPT !.lastSecond = item.ts]
    <3>1. /\ w \in Contexts /\ w.alive /\ w.buffer = u.buffer /\ w.inEvent = u.inEvent
          /\ w.lastSecond = item.ts /\ w.firstTs = u.firstTs
      <4>1. u \in Contexts /\ item.ts \in Int
        BY <1>2, <1>4
      <4> QED
        BY <2>3, <4>1 DEF Contexts
    <3> QED
      BY <1>4, <3>1
  <2> QED
    BY <2>1, <2>2, <2>3
<1>6. Past \subseteq Past' /\ item.ts \in Past'
  BY <1>1, <1>2, <1>3, <1>5, DecodeOrder DEF IInv, Shapes, env
<1>7. f \in Files /\ FileOK(f, Past', now) /\ ViewOK(v, f, Past')
  <2>1. CASE f = g
    BY <1>2, <1>6, <2>1, OKMonotone
  <2>2. CASE f # g
    <3>1. /\ WritesZero(Ctx)
          /\ f = [cells |-> AfterWrite(g.cells, g.last, item.ts, 0), last |-> item.ts,
                  latest |-> item.ts, motion |-> g.motion \ {item.ts},
                  covered |-> g.covered \cup Ring(Cam)!Passed(item.ts)]
      BY <1>3, <2>2
    <3>2. f.cells \in Cells /\ FileOK(f, Past', now) /\ ViewOK(v, f, Past')
      BY <1>6, <3>1, RingWriteOK DEF g, v
    <3>3. Ring(Cam)!Passed(item.ts) \subseteq Int
      BY <1>2 DEF Ring!Passed, Ring!None
    <3> QED
      BY <1>2, <3>1, <3>2, <3>3 DEF Files
  <2> QED
    BY <2>1, <2>2
<1>8. CtxOK(w, v, Past')
  <2>1. /\ Len(buf) <= Confirm
        /\ \A i \in 1 .. Len(buf) : buf[i].ts > 0 /\ buf[i].ts \in Past'
        /\ MovingSince(Ctx.buffer, v.latest) => MovingSince(buf, v.latest)
    BY <1>1, <1>6, PushedOK DEF buf, v
  <2>2. MovingSince(buf, v.latest)
    BY <1>1, <1>2, <2>1 DEF CtxOK
  <2>3. w.firstTs \in Past' /\ w.lastSecond \in Past'
    BY <1>2, <1>4, <1>5, <1>6 DEF CtxOK
  <2>4. ASSUME NEW t \in v.ended
        PROVE  t <= w.firstTs \/ t <= w.lastSecond
    <3>1. t <= v.latest /\ v.latest \in Int /\ v.latest <= item.ts /\ t \in Nat
      BY <1>2 DEF ViewOK, Views, Past
    <3> QED
      BY <1>2, <1>4, <1>5, <3>1 DEF CtxOK
  <2> QED
    BY <1>5, <2>1, <2>2, <2>3, <2>4 DEF CtxOK
<1>9. view' = [view EXCEPT ![Cam] = v]
  BY <1>1 DEF IInv, Shapes, v
<1>10. wc' = [wc EXCEPT ![Cam] = w] /\ file' = [file EXCEPT ![Cam] = f]
  BY <1>3
<1> QED
  BY <1>1, <1>2, <1>5, <1>7, <1>8, <1>9, <1>10, DecodeInv

\* The frames that confirmed the event began no earlier than the one before ended.
LEMMA EventBegins ==
  ASSUME IInv, Busy, NEW e \in Entries, StartEvent(e)
  PROVE  LET start == Pushed(Ctx.buffer, e)[1].ts
         IN  start \in Nat /\ start > 0 /\ start <= item.ts /\ start >= view[Cam].latest
<1> DEFINE buf == Pushed(Ctx.buffer, e)
<1>1. e \in AllEntries /\ e.ts = item.ts /\ ~Ctx.inEvent /\ Confirmed(buf)
  BY Result DEF StartEvent
<1>2. CtxOK(Ctx, view[Cam], Past) /\ Ctx.alive /\ view[Cam].latest \in Int
  BY Decoding DEF CamOK, Ctx, Views
<1>3. /\ buf \in Seq(AllEntries)
      /\ \A i \in 1 .. Len(buf) : buf[i].ts > 0 /\ buf[i].ts <= item.ts
      /\ MovingSince(buf, view[Cam].latest)
  <2>1. MovingSince(Ctx.buffer, view[Cam].latest)
    BY <1>1, <1>2 DEF CtxOK
  <2>2. item.ts \in Past \cup {item.ts} /\ Past \subseteq Past \cup {item.ts}
    OBVIOUS
  <2> QED
    BY <1>1, <2>1, <2>2, PushedOK
<1> HIDE DEF buf
<1>4. buf[1] \in AllEntries /\ buf[1].ts >= view[Cam].latest /\ 1 \in 1 .. Len(buf)
  BY <1>1, <1>2, <1>3, ConfirmedFromFirst
<1>5. buf[1].ts \in Nat
  BY <1>4 DEF AllEntries
<1> QED
  BY <1>3, <1>4, <1>5 DEF buf

LEMMA StartEventInv ==
  ASSUME IInv, Busy, NEW e \in Entries, StartEvent(e)
  PROVE  IInv'
<1> DEFINE buf == Pushed(Ctx.buffer, e)
           start == buf[1].ts
           x == [Ctx EXCEPT !.buffer = buf, !.inEvent = TRUE, !.start = start, !.quiet = 0]
           w == WithFirst(x)
           g == file[Cam]
           v == view[Cam]
           nv == [v EXCEPT !.active = TRUE, !.start = start, !.latest = item.ts]
<1>1. /\ Output
      /\ e \in AllEntries /\ e.ts = item.ts /\ UNCHANGED <<env, queue>>
      /\ attempts' \in 0 .. MaxAttempts
      /\ item' = Idle \/ item' = item
  BY Result DEF StartEvent
<1>2. /\ Cam \in Cameras /\ item.ts \in 1 .. now /\ now \in Nat /\ Ctx \in Contexts /\ Ctx.alive
      /\ g \in Files /\ v \in Views /\ CtxOK(Ctx, v, Past) /\ FileOK(g, Past, now)
      /\ ViewOK(v, g, Past)
  BY Decoding DEF CamOK, Ctx
<1>3. /\ wc' = [wc EXCEPT ![Cam] = w] /\ view' = [view EXCEPT ![Cam] = nv]
      /\ file' = [file EXCEPT ![Cam] = g]
  <2>1. file = [file EXCEPT ![Cam] = file[Cam]]
    BY DEF IInv, Shapes
  <2> QED
    BY <2>1 DEF StartEvent, EventStart
<1>4. buf \in Seq(AllEntries)
  <2>1. Ctx.buffer \in Seq(AllEntries) /\ Len(Ctx.buffer) <= Confirm
    BY <1>2 DEF CtxOK, Contexts
  <2> QED
    BY <1>1, <2>1, PushedEntries
<1>5. start \in Nat /\ start > 0 /\ start <= item.ts
  BY EventBegins
<1>6. /\ w \in Contexts /\ w.alive /\ w.buffer = buf /\ w.inEvent /\ w.start = start
      /\ w.lastSecond = Ctx.lastSecond
      /\ w.firstTs = IF Ctx.firstTs = None THEN item.ts ELSE Ctx.firstTs
  <2> HIDE DEF buf, start
  <2>1. /\ x \in Contexts /\ x.buffer = buf /\ x.inEvent = TRUE /\ x.start = start
        /\ x.lastSecond = Ctx.lastSecond /\ x.firstTs = Ctx.firstTs
    <3>1. Ctx \in Contexts /\ buf \in Seq(AllEntries) /\ start \in Int
      BY <1>2, <1>4, <1>5
    <3> QED
      BY <3>1 DEF Contexts
  <2>2. item.ts \in Int
    BY <1>2
  <2> HIDE DEF x
  <2> QED
    BY <2>1, <2>2, WithFirstFields
<1>7. /\ nv \in Views /\ nv.active /\ nv.start = start /\ nv.latest = item.ts
      /\ nv.ended = v.ended
  <2> HIDE DEF start, v
  <2>1. /\ nv \in Views /\ nv.active = TRUE /\ nv.start = start /\ nv.latest = item.ts
        /\ nv.ended = v.ended
    <3>1. v \in Views /\ start \in Int /\ item.ts \in Int
      BY <1>2, <1>5
    <3> QED
      BY <3>1 DEF Views
  <2> QED
    BY <2>1
<1> HIDE DEF g, v, nv, buf, x, w, start
<1>8. Past \subseteq Past' /\ item.ts \in Past'
  BY <1>1, <1>2, <1>3, <1>6, DecodeOrder DEF IInv, Shapes, env
<1>9. FileOK(g, Past', now)
  BY <1>2, <1>8, OKMonotone
<1>10. \A t \in v.ended : t <= item.ts /\ t \in Nat
  <2>1. v.latest \in Int /\ v.latest <= item.ts
    BY <1>2 DEF ViewOK, Past
  <2> QED
    BY <1>2, <2>1 DEF ViewOK, Views
<1>11. ViewOK(nv, g, Past')
  BY <1>2, <1>7, <1>8, <1>10 DEF ViewOK
<1>12. CtxOK(w, nv, Past')
  <2>1. /\ Len(buf) <= Confirm
        /\ \A i \in 1 .. Len(buf) : buf[i].ts > 0 /\ buf[i].ts \in Past'
    BY <1>1, <1>8, PushedOK DEF buf
  <2>2. w.firstTs \in Past' /\ w.lastSecond \in Past' /\ w.firstTs # None
    BY <1>2, <1>6, <1>8 DEF CtxOK, None
  <2>3. \A t \in v.ended : t <= w.firstTs \/ t <= w.lastSecond
    BY <1>2, <1>6, <1>10 DEF CtxOK
  <2> QED
    BY <1>2, <1>5, <1>6, <1>7, <2>1, <2>2, <2>3 DEF CtxOK
<1> QED
  BY <1>1, <1>2, <1>3, <1>6, <1>7, <1>9, <1>11, <1>12, DecodeInv

LEMMA EventFrameInv ==
  ASSUME IInv, Busy, NEW e \in Entries, EventFrame(e)
  PROVE  IInv'
<1> DEFINE buf == Pushed(Ctx.buffer, e)
           w == [Ctx EXCEPT !.buffer = buf, !.quiet = 0]
           g == file[Cam]
           v == view[Cam]
           nv == [v EXCEPT !.latest = item.ts]
<1>1. /\ Output
      /\ e \in AllEntries /\ e.ts = item.ts /\ UNCHANGED <<env, queue>>
      /\ attempts' \in 0 .. MaxAttempts
      /\ item' = Idle \/ item' = item
  BY Result DEF EventFrame
<1>2. /\ Cam \in Cameras /\ item.ts \in 1 .. now /\ now \in Nat /\ Ctx \in Contexts /\ Ctx.alive
      /\ g \in Files /\ v \in Views /\ CtxOK(Ctx, v, Past) /\ FileOK(g, Past, now)
      /\ ViewOK(v, g, Past)
  BY Decoding DEF CamOK, Ctx
<1>3. /\ wc' = [wc EXCEPT ![Cam] = w] /\ view' = [view EXCEPT ![Cam] = nv]
      /\ file' = [file EXCEPT ![Cam] = g]
  <2>1. file = [file EXCEPT ![Cam] = file[Cam]]
    BY DEF IInv, Shapes
  <2> QED
    BY <2>1 DEF EventFrame, Ctx
<1>4. buf \in Seq(AllEntries)
  <2>1. Ctx.buffer \in Seq(AllEntries) /\ Len(Ctx.buffer) <= Confirm
    BY <1>2 DEF CtxOK, Contexts
  <2> QED
    BY <1>1, <2>1, PushedEntries
<1>5. /\ w \in Contexts /\ w.alive /\ w.buffer = buf /\ w.inEvent = Ctx.inEvent
      /\ w.start = Ctx.start /\ w.lastSecond = Ctx.lastSecond /\ w.firstTs = Ctx.firstTs
  <2> HIDE DEF buf
  <2> QED
    BY <1>2, <1>4 DEF Contexts
<1>6. /\ nv \in Views /\ nv.active = v.active /\ nv.start = v.start /\ nv.latest = item.ts
      /\ nv.ended = v.ended
  <2> HIDE DEF v
  <2> QED
    BY <1>2 DEF Views
<1>7. Ctx.inEvent
  BY DEF EventFrame
<1> HIDE DEF g, v, nv, buf, w
<1>8. Past \subseteq Past' /\ item.ts \in Past'
  BY <1>1, <1>2, <1>3, <1>5, DecodeOrder DEF IInv, Shapes, env
<1>9. FileOK(g, Past', now)
  BY <1>2, <1>8, OKMonotone
<1>10. v.latest \in Int /\ v.latest <= item.ts
  BY <1>2 DEF ViewOK, Past
<1>11. ViewOK(nv, g, Past')
  BY <1>2, <1>6, <1>8, <1>10 DEF ViewOK, Views
<1>12. CtxOK(w, nv, Past')
  <2>1. /\ Len(buf) <= Confirm
        /\ \A i \in 1 .. Len(buf) : buf[i].ts > 0 /\ buf[i].ts \in Past'
    BY <1>1, <1>8, PushedOK DEF buf
  <2>2. /\ Ctx.start > 0 /\ Ctx.firstTs # None /\ v.active /\ v.start = Ctx.start
        /\ item.ts >= Ctx.start /\ Ctx.firstTs \in Past' /\ Ctx.lastSecond \in Past'
        /\ \A t \in v.ended : t <= Ctx.firstTs \/ t <= Ctx.lastSecond
    BY <1>2, <1>7, <1>8, <1>10 DEF CtxOK, Contexts
  <2> QED
    BY <1>5, <1>6, <1>7, <2>1, <2>2 DEF CtxOK
<1> QED
  BY <1>1, <1>2, <1>3, <1>5, <1>6, <1>9, <1>11, <1>12, DecodeInv

LEMMA QuietFrameInv ==
  ASSUME IInv, Busy, NEW e \in Entries, QuietFrame(e)
  PROVE  IInv'
<1> DEFINE buf == Pushed(Ctx.buffer, e)
           w == [Ctx EXCEPT !.buffer = buf, !.quiet = Ctx.quiet + 1]
           g == file[Cam]
           v == view[Cam]
<1>1. /\ Output
      /\ e \in AllEntries /\ e.ts = item.ts /\ UNCHANGED <<env, queue>>
      /\ attempts' \in 0 .. MaxAttempts
      /\ item' = Idle \/ item' = item
  BY Result DEF QuietFrame
<1>2. /\ Cam \in Cameras /\ now \in Nat /\ Ctx \in Contexts /\ Ctx.alive
      /\ g \in Files /\ v \in Views /\ CtxOK(Ctx, v, Past) /\ FileOK(g, Past, now)
      /\ ViewOK(v, g, Past)
  BY Decoding DEF CamOK, Ctx
<1>3. /\ wc' = [wc EXCEPT ![Cam] = w] /\ view' = [view EXCEPT ![Cam] = v]
      /\ file' = [file EXCEPT ![Cam] = g]
  <2>1. file = [file EXCEPT ![Cam] = file[Cam]] /\ view = [view EXCEPT ![Cam] = view[Cam]]
    BY DEF IInv, Shapes
  <2> QED
    BY <2>1 DEF QuietFrame, Ctx
<1>4. buf \in Seq(AllEntries)
  <2>1. Ctx.buffer \in Seq(AllEntries) /\ Len(Ctx.buffer) <= Confirm
    BY <1>2 DEF CtxOK, Contexts
  <2> QED
    BY <1>1, <2>1, PushedEntries
<1>5. /\ w \in Contexts /\ w.alive /\ w.buffer = buf /\ w.inEvent = Ctx.inEvent
      /\ w.start = Ctx.start /\ w.lastSecond = Ctx.lastSecond /\ w.firstTs = Ctx.firstTs
  <2> HIDE DEF buf
  <2>1. Ctx.quiet + 1 \in {0, 1}
    <3>1. Ctx.quiet \in {0, 1} /\ Ctx.quiet + 1 < 2
      BY <1>2 DEF Contexts, QuietFrame
    <3> QED
      BY <3>1
  <2> QED
    BY <1>2, <1>4, <2>1 DEF Contexts
<1>6. Ctx.inEvent
  BY DEF QuietFrame
<1> HIDE DEF g, v, buf, w
<1>7. Past \subseteq Past' /\ item.ts \in Past'
  BY <1>1, <1>2, <1>3, <1>5, Decoding, DecodeOrder DEF IInv, Shapes, env
<1>8. FileOK(g, Past', now) /\ ViewOK(v, g, Past')
  BY <1>2, <1>7, OKMonotone
<1>9. CtxOK(w, v, Past')
  <2>1. /\ Len(buf) <= Confirm
        /\ \A i \in 1 .. Len(buf) : buf[i].ts > 0 /\ buf[i].ts \in Past'
    BY <1>1, <1>7, PushedOK DEF buf
  <2>2. CtxOK(Ctx, v, Past')
    BY <1>2, <1>7, OKMonotone
  <2> QED
    BY <1>2, <1>5, <1>6, <2>1, <2>2 DEF CtxOK
<1> QED
  BY <1>1, <1>2, <1>3, <1>5, <1>8, <1>9, DecodeInv

\* The seconds of the event are the latest the file holds, and the context has
\* seen no motion since.
LEMMA EndEventInv ==
  ASSUME IInv, Busy, NEW e \in Entries, EndEvent(e)
  PROVE  IInv'
<1> DEFINE buf == Pushed(Ctx.buffer, e)
           w == [Ctx EXCEPT !.buffer = buf, !.inEvent = FALSE, !.start = None,
                            !.quiet = 0, !.lastSecond = item.ts]
           g == file[Cam]
           seconds == Ctx.start .. item.ts
           f == [cells |-> AfterWriteRange(g.cells, Ctx.start, item.ts, 1),
                 last |-> item.ts, latest |-> item.ts,
                 motion |-> g.motion \cup seconds, covered |-> g.covered \cup seconds]
           v == view[Cam]
           nv == [v EXCEPT !.active = FALSE, !.latest = item.ts,
                           !.ended = v.ended \cup seconds]
<1>1. /\ Output
      /\ e \in AllEntries /\ e.ts = item.ts /\ UNCHANGED <<env, queue>>
      /\ attempts' \in 0 .. MaxAttempts
      /\ item' = Idle \/ item' = item
  BY Result DEF EndEvent
<1>2. /\ Cam \in Cameras /\ item.ts \in 1 .. now /\ now \in Nat /\ Ctx \in Contexts /\ Ctx.alive
      /\ g \in Files /\ v \in Views /\ CtxOK(Ctx, v, Past) /\ FileOK(g, Past, now)
      /\ ViewOK(v, g, Past)
  BY Decoding DEF CamOK, Ctx
<1>3. Ctx.inEvent
  BY DEF EndEvent
<1>4. ~e.motion
  BY DEF EndEvent
<1>5. /\ wc' = [wc EXCEPT ![Cam] = w] /\ view' = [view EXCEPT ![Cam] = nv]
      /\ file' = [file EXCEPT ![Cam] = f]
  BY DEF EndEvent, RingWriteRange, Ctx
<1>6. buf \in Seq(AllEntries)
  <2>1. Ctx.buffer \in Seq(AllEntries) /\ Len(Ctx.buffer) <= Confirm
    BY <1>2 DEF CtxOK, Contexts
  <2> QED
    BY <1>1, <2>1, PushedEntries
<1>7. /\ Ctx.start \in Int /\ Ctx.start > 0 /\ Ctx.firstTs # None
      /\ seconds \subseteq 0 .. now /\ seconds \subseteq Nat
      /\ \A t \in seconds : t <= item.ts
  BY <1>2, <1>3 DEF CtxOK, Contexts
<1> HIDE DEF seconds
<1>8. /\ w \in Contexts /\ w.alive /\ w.buffer = buf /\ w.inEvent = FALSE
      /\ w.lastSecond = item.ts /\ w.firstTs = Ctx.firstTs
  <2> HIDE DEF buf
  <2>1. item.ts \in Int /\ None \in Int
    BY <1>2 DEF None
  <2> QED
    BY <1>2, <1>6, <2>1 DEF Contexts
<1>9. /\ nv \in Views /\ nv.latest = item.ts /\ nv.ended = v.ended \cup seconds
  <2> HIDE DEF v
  <2>1. v \in Views /\ item.ts \in Int /\ seconds \subseteq Nat
    BY <1>2, <1>7
  <2> QED
    BY <2>1 DEF Views
<1>10. /\ f \in Files /\ f.motion = g.motion \cup seconds /\ f.latest = item.ts
       /\ f.last = item.ts /\ Kept(f.cells, f.motion, now)
  <2>1. /\ g.cells \in Cells /\ g.motion \in SUBSET (0 .. now) /\ Kept(g.cells, g.motion, now)
        /\ g.covered \subseteq Int /\ item.ts \in Int
    BY <1>2 DEF FileOK, Files
  <2>2. /\ AfterWriteRange(g.cells, Ctx.start, item.ts, 1) \in Cells
        /\ Kept(AfterWriteRange(g.cells, Ctx.start, item.ts, 1),
                g.motion \cup Ctx.start .. item.ts, now)
    <3> HIDE DEF g
    <3> QED
      BY <1>2, <1>7, <2>1, RangeKeeps
  <2>3. f \in Files
    <3>1. g.motion \cup seconds \subseteq Nat /\ g.covered \cup seconds \subseteq Int
      <4> HIDE DEF g
      <4>1. g.motion \subseteq Nat /\ seconds \subseteq Int
        BY <1>2, <1>7, <2>1
      <4> QED
        BY <1>7, <2>1, <4>1
    <3> HIDE DEF g
    <3> QED
      BY <2>1, <2>2, <3>1 DEF Files
  <2> QED
    BY <2>2, <2>3 DEF seconds
<1> HIDE DEF g, v, nv, buf, w, f
<1>11. Past \subseteq Past' /\ item.ts \in Past'
  BY <1>1, <1>2, <1>5, <1>8, DecodeOrder DEF IInv, Shapes, env
<1>12. FileOK(f, Past', now)
  <2>1. g.latest \in Int /\ g.latest <= item.ts
    BY <1>2 DEF FileOK, Past
  <2>2. g.motion \subseteq 0 .. now /\ \A t \in g.motion : t <= g.latest
    BY <1>2 DEF FileOK
  <2>3. ASSUME NEW t \in f.motion
        PROVE  t \in 0 .. now /\ t <= item.ts
    <3>1. CASE t \in seconds
      BY <1>7, <3>1
    <3>2. CASE t \in g.motion
      <4>1. t \in 0 .. now /\ t <= g.latest /\ item.ts \in Int
        BY <1>2, <2>2, <3>2
      <4> QED
        BY <2>1, <4>1
    <3> QED
      BY <1>10, <2>3, <3>1, <3>2
  <2> QED
    BY <1>10, <1>11, <2>3 DEF FileOK
<1>13. ViewOK(nv, f, Past')
  <2>1. v.latest \in Int /\ v.latest <= item.ts
    BY <1>2 DEF ViewOK, Past
  <2>2. \A t \in v.ended : t \in Int /\ t <= item.ts
    BY <1>2, <2>1 DEF ViewOK, Views
  <2> QED
    BY <1>2, <1>7, <1>9, <1>10, <1>11, <2>2 DEF ViewOK
<1>14. CtxOK(w, nv, Past')
  <2>1. /\ Len(buf) <= Confirm
        /\ \A i \in 1 .. Len(buf) : buf[i].ts > 0 /\ buf[i].ts \in Past'
        /\ \A t \in Int : MovingSince(buf, t)
    BY <1>1, <1>4, <1>11, PushedOK DEF buf
  <2>2. MovingSince(buf, nv.latest)
    BY <1>2, <1>9, <2>1
  <2>3. w.firstTs \in Past' /\ w.lastSecond \in Past'
    BY <1>2, <1>8, <1>11 DEF CtxOK
  <2>4. \A t \in nv.ended : t <= w.lastSecond
    <3>1. \A t \in nv.ended : t <= nv.latest
      BY <1>13 DEF ViewOK
    <3> QED
      BY <1>8, <1>9, <3>1
  <2> QED
    BY <1>8, <2>1, <2>2, <2>3, <2>4 DEF CtxOK
<1> QED
  BY <1>1, <1>2, <1>5, <1>8, <1>9, <1>10, <1>12, <1>13, <1>14, DecodeInv

-----------------------------------------------------------------------------
LEMMA NextInv == IInv /\ [Next]_vars => IInv'
<1> SUFFICES ASSUME IInv, [Next]_vars
             PROVE  IInv'
  OBVIOUS
<1>1. CASE Tick \/ \E c \in Cameras : \/ StreamStarts(c) \/ StreamDies(c) \/ CameraForgotten(c)
                                      \/ RemoveStream(c)
                                      \/ \E key \in BOOLEAN : PostFrame(c, key)
  BY <1>1, EnvironmentInv
<1>2. CASE DoRemoval \/ CreateFails
  BY <1>2, DequeueInv
<1>3. CASE TakeFrame
  BY <1>3, TakeFrameInv
<1>4. CASE DecodeFails \/ DecodeMore \/ NoResult
  BY <1>4, NoResultInv
<1>5. ASSUME Busy, NEW e \in Entries, Analyze(e)
      PROVE  IInv'
  BY <1>5, StaysQuietInv, StartEventInv, EventFrameInv, QuietFrameInv, EndEventInv DEF Analyze
<1>6. CASE UNCHANGED vars
  <2>1. UNCHANGED <<queue, item, wc, file, view, now, steps, attempts, stream, known>>
    BY <1>6 DEF vars
  <2>2. Shapes' /\ InOrder'
    BY <2>1 DEF IInv, Shapes, InOrder, Busy, Ctx, Cam
  <2>3. Past' = Past
    BY <2>1 DEF Past, Busy
  <2> QED
    BY <2>1, <2>2, <2>3 DEF IInv, CamOK
<1> QED
  BY <1>1, <1>2, <1>3, <1>4, <1>5, <1>6 DEF Next, Worker

\* Frames are worked off in order, and neither the context of a camera nor its
\* motion file nor what the plugins know is ahead of the frames to come.
THEOREM Invariance == Spec => []IInv
<1> QED
  BY InitInv, NextInv, PTL DEF Spec

LEMMA IInvTypes == IInv => TypeOK
<1> SUFFICES ASSUME IInv
             PROVE  TypeOK
  OBVIOUS
<1>1. \A i \in DOMAIN queue : queue[i].cam \in Cameras /\ queue[i].ts \in 0 .. now \cup {None}
  <2>1. queue \in Seq(Items) /\ now \in Nat
    BY DEF IInv, Shapes
  <2>2. DOMAIN queue = 1 .. Len(queue) /\ \A i \in 1 .. Len(queue) : queue[i] \in Items
    BY <2>1, LenProperties, ElementOfSeq
  <2> QED
    BY <2>1, <2>2 DEF IInv, InOrder, Items
<1>2. Busy => Cam \in Cameras /\ item.ts \in 1 .. now /\ Ctx.alive
  BY Decoding
<1>3. ASSUME NEW c \in Cameras
      PROVE  /\ file[c].cells \in Cells
             /\ wc[c].alive => /\ wc[c].quiet \in 0 .. 1
                               /\ Len(wc[c].buffer) <= Confirm
                               /\ wc[c].inEvent => wc[c].start > 0 /\ wc[c].firstTs # None
  <2>1. file[c] \in Files /\ wc[c] \in Contexts \cup {NoCtx} /\ CamOK(c)
    BY DEF IInv, Shapes
  <2>2. file[c].cells \in Cells
    BY <2>1 DEF Files
  <2>3. wc[c].alive => wc[c].quiet \in 0 .. 1
    <3>1. CASE wc[c] \in Contexts
      <4>1. wc[c].quiet \in {0, 1}
        BY <3>1 DEF Contexts
      <4> QED
        BY <4>1
    <3>2. CASE wc[c] = NoCtx
      BY <3>2 DEF NoCtx
    <3> QED
      BY <2>1, <3>1, <3>2
  <2> QED
    BY <2>1, <2>2, <2>3 DEF CamOK, CtxOK
<1> QED
  BY <1>1, <1>2, <1>3 DEF TypeOK, IInv, Shapes

\* Type correctness: the work items, the context the worker decodes with, and the
\* fields the end of an event relies on (r_motion_engine::_entry_point).
THEOREM TypeCorrect == Spec => []TypeOK
<1> QED
  BY Invariance, IInvTypes, PTL

\* The event a context is in is the one the plugins were last told of, and the
\* motion file keeps the seconds of those that ended, whatever contexts were
\* lost, removed and recreated (r_motion_engine::_entry_point, r_ring::write).
THEOREM EventsAreAgreed == Spec => []EventsAgree
<1>1. IInv => EventsAgree
  <2> SUFFICES ASSUME IInv, NEW c \in Cameras
               PROVE  /\ wc[c].alive /\ wc[c].inEvent =>
                           /\ view[c].active /\ view[c].start = wc[c].start
                           /\ view[c].latest >= wc[c].start
                      /\ \A t \in view[c].ended : t > now - N => file[c].cells[t % N] = 1
    BY DEF EventsAgree
  <2> QED
    BY DEF IInv, CamOK, CtxOK, FileOK, ViewOK, Kept
<1> QED
  BY <1>1, Invariance, PTL

\* No event starts before the last frame of the one before: only frames since then
\* confirm it (r_motion_engine::_entry_point: the detection buffer keeps the
\* frames of the event that ended, and they show no motion).
THEOREM EventsInOrder == Spec => EventsDoNotOverlap
<1>1. ASSUME IInv, Next, NEW c \in Cameras, view'[c].start # view[c].start
      PROVE  view'[c].start >= view[c].latest
  <2>1. view \in [Cameras -> Views]
    BY <1>1 DEF IInv, Shapes
  <2>2. CASE UNCHANGED view
    BY <1>1, <2>2
  <2>3. ASSUME Busy, NEW e \in Entries, StartEvent(e)
        PROVE  view'[c].start >= view[c].latest
    <3>1. Cam \in Cameras
      BY <1>1, <2>3, Decoding
    <3>2. /\ view' = [view EXCEPT ![Cam] =
                        [view[Cam] EXCEPT !.active = TRUE,
                                          !.start = Pushed(Ctx.buffer, e)[1].ts,
                                          !.latest = item.ts]]
          /\ Pushed(Ctx.buffer, e)[1].ts >= view[Cam].latest
      BY <1>1, <2>3, EventBegins DEF StartEvent
    <3>3. c = Cam
      BY <1>1, <2>1, <3>1, <3>2
    <3>4. view'[c].start = Pushed(Ctx.buffer, e)[1].ts
      BY <2>1, <3>1, <3>2, <3>3 DEF Views
    <3> QED
      BY <3>2, <3>3, <3>4
  <2>4. ASSUME Busy, NEW e \in Entries, EventFrame(e)
        PROVE  FALSE
    <3>1. view' = [view EXCEPT ![Cam] = [view[Cam] EXCEPT !.latest = item.ts]]
      BY <2>4 DEF EventFrame
    <3> QED
      BY <1>1, <2>1, <3>1 DEF Views
  <2>5. ASSUME Busy, NEW e \in Entries, EndEvent(e)
        PROVE  FALSE
    <3>1. view' = [view EXCEPT ![Cam] =
                     [view[Cam] EXCEPT !.active = FALSE, !.latest = item.ts,
                        !.ended = view[Cam].ended \cup Ctx.start .. item.ts]]
      BY <2>5 DEF EndEvent
    <3> QED
      BY <1>1, <2>1, <3>1 DEF Views
  <2>6. \/ UNCHANGED view
        \/ Busy /\ \E e \in Entries : StartEvent(e) \/ EventFrame(e) \/ EndEvent(e)
    BY <1>1
    DEF Next, Worker, Tick, StreamStarts, StreamDies, CameraForgotten, RemoveStream, PostFrame,
        DoRemoval, TakeFrame, CreateFails, DecodeFails, DecodeMore, NoResult, Analyze,
        StaysQuiet, QuietFrame, worker, env
  <2> QED
    BY <2>2, <2>3, <2>4, <2>5, <2>6
<1>2. IInv /\ [Next]_vars =>
        [\A c \in Cameras :
           view'[c].start # view[c].start => view'[c].start >= view[c].latest]_vars
  BY <1>1
<1> QED
  BY <1>2, Invariance, PTL DEF Spec, EventsDoNotOverlap

-----------------------------------------------------------------------------
(* The use of the motion files, step by step.                              *)

LEMMA FileKept ==
  ASSUME NEW c \in Cameras, UNCHANGED <<now, file>>
  PROVE  UNCHANGED <<now, file[c]>>
OBVIOUS

LEMMA RingTick ==
  ASSUME NEW c \in Cameras, Tick
  PROVE  Ring(c)!Next
<1>1. now < MaxNow /\ now' = now + 1 /\ file' = file
  BY DEF Tick, worker
<1> QED
  BY <1>1 DEF Ring!Next, Ring!Tick

\* A frame that finds no context opens the file of its camera.
LEMMA RingReopened ==
  ASSUME IInv, NEW c \in Cameras, TakeFrame
  PROVE  Ring(c)!Next \/ UNCHANGED <<now, file[c]>>
<1>1. now' = now /\ (file' = file \/ file' = [file EXCEPT ![Work.cam].last = None])
  BY DEF TakeFrame, env, Reopened
<1>2. file \in [Cameras -> Files]
  BY DEF IInv, Shapes
<1>3. CASE file' = [file EXCEPT ![Work.cam].last = None] /\ Work.cam = c
  <2>1. file'[c] = [file[c] EXCEPT !.last = None]
    BY <1>2, <1>3
  <2>2. /\ file'[c].last = None /\ file'[c].cells = file[c].cells
        /\ file'[c].latest = file[c].latest /\ file'[c].motion = file[c].motion
        /\ file'[c].covered = file[c].covered
    BY <1>2, <2>1 DEF Files
  <2> QED
    BY <1>1, <2>2 DEF Ring!Next, Ring!Reopen, Ring!None, None
<1>4. CASE file' = [file EXCEPT ![Work.cam].last = None] /\ Work.cam # c
  BY <1>1, <1>2, <1>4
<1> QED
  BY <1>1, <1>3, <1>4

\* The frame in decoding is neither ahead of the clock nor before the last write.
LEMMA FrameTime ==
  ASSUME IInv, Busy
  PROVE  item.ts \in Ring(Cam)!FrameTimes
<1>1. item.ts \in 1 .. now /\ now \in Nat /\ FileOK(file[Cam], Past, now)
  BY Decoding DEF CamOK
<1>2. file[Cam].latest <= item.ts
  BY <1>1 DEF FileOK, Past
<1> QED
  BY <1>1, <1>2 DEF Ring!FrameTimes

LEMMA RingWritten ==
  ASSUME IInv, Busy, NEW c \in Cameras, NEW e \in Entries, StaysQuiet(e)
  PROVE  Ring(c)!Next \/ UNCHANGED <<now, file[c]>>
<1>1. /\ now' = now /\ Cam \in Cameras /\ file \in [Cameras -> Files]
      /\ UNCHANGED file \/ RingWrite(Cam, item.ts)
  BY Decoding DEF StaysQuiet, Output, env, IInv, Shapes
<1>2. CASE RingWrite(Cam, item.ts) /\ c # Cam
  BY <1>1, <1>2 DEF RingWrite
<1>3. CASE RingWrite(Cam, item.ts) /\ c = Cam
  <2>1. /\ file'[c].cells = AfterWrite(file[c].cells, file[c].last, item.ts, 0)
        /\ file'[c].last = item.ts /\ file'[c].latest = item.ts
        /\ file'[c].motion = file[c].motion \ {item.ts}
        /\ file'[c].covered = file[c].covered \cup Ring(c)!Passed(item.ts)
    BY <1>1, <1>3 DEF RingWrite
  <2>2. Ring(c)!AfterWrite(file[c].cells, file[c].last, item.ts, 0)
          = AfterWrite(file[c].cells, file[c].last, item.ts, 0)
    BY DEF Ring!AfterWrite, AfterWrite, Ring!GapFilled, GapFilled, Ring!Indexes, Indexes,
           Ring!None, None
  <2>3. Ring(c)!Write(item.ts)
    BY <1>1, <2>1, <2>2 DEF Ring!Write
  <2>4. item.ts \in Ring(c)!FrameTimes
    BY <1>3, FrameTime
  <2> QED
    BY <2>3, <2>4 DEF Ring!Next
<1> QED
  BY <1>1, <1>2, <1>3

LEMMA RingRangeWritten ==
  ASSUME IInv, Busy, NEW c \in Cameras, NEW e \in Entries, EndEvent(e)
  PROVE  Ring(c)!Next \/ UNCHANGED <<now, file[c]>>
<1>1. /\ now' = now /\ Cam \in Cameras /\ file \in [Cameras -> Files]
      /\ RingWriteRange(Cam, Ctx.start, item.ts)
  BY Decoding DEF EndEvent, Output, env, IInv, Shapes
<1>2. CASE c # Cam
  BY <1>1, <1>2 DEF RingWriteRange
<1>3. CASE c = Cam
  <2>1. /\ file'[c].cells = AfterWriteRange(file[c].cells, Ctx.start, item.ts, 1)
        /\ file'[c].last = item.ts /\ file'[c].latest = item.ts
        /\ file'[c].motion = file[c].motion \cup Ctx.start .. item.ts
        /\ file'[c].covered = file[c].covered \cup Ctx.start .. item.ts
    BY <1>1, <1>3 DEF RingWriteRange
  <2>2. Ring(c)!AfterWriteRange(file[c].cells, Ctx.start, item.ts, 1)
          = AfterWriteRange(file[c].cells, Ctx.start, item.ts, 1)
    BY DEF Ring!AfterWriteRange, AfterWriteRange, Ring!Indexes, Indexes
  <2>3. /\ Ctx.start \in Int /\ Ctx.start > 0 /\ Ctx.start <= item.ts
        /\ item.ts \in 1 .. now /\ now \in Nat
    <3>1. /\ Ctx \in Contexts /\ Ctx.alive /\ Ctx.inEvent /\ CtxOK(Ctx, view[Cam], Past)
          /\ view[Cam].latest \in Past
          /\ item.ts \in 1 .. now /\ now \in Nat
      BY Decoding DEF CamOK, ViewOK, Ctx, EndEvent
    <3>2. view[Cam].latest \in Int /\ view[Cam].latest <= item.ts
      BY <3>1 DEF Past
    <3> QED
      BY <3>1, <3>2 DEF CtxOK, Contexts
  <2>4. Ring(c)!WriteRange(Ctx.start, item.ts) /\ Ctx.start \in 0 .. now
    BY <1>1, <2>1, <2>2, <2>3 DEF Ring!WriteRange
  <2>5. item.ts \in Ring(c)!FrameTimes
    BY <1>3, FrameTime
  <2> QED
    BY <2>4, <2>5 DEF Ring!Next
<1> QED
  BY <1>2, <1>3

\* The worker writes and reopens the motion file of each camera as MotionRing says
\* its user does: in the order of time and never ahead of the clock
\* (r_motion_engine::_entry_point).
THEOREM UsesTheRing == Spec => RingUsed
<1>1. ASSUME Init, NEW c \in Cameras
      PROVE  Ring(c)!Init
  <2>1. file[c] = [cells |-> [i \in Indexes |-> 0], last |-> None, latest |-> None,
                   motion |-> {}, covered |-> {}]
    BY <1>1 DEF Init
  <2>2. Ring(c)!Indexes = Indexes /\ Ring(c)!None = None
    BY DEF Ring!Indexes, Indexes, Ring!None, None
  <2> QED
    BY <1>1, <2>1, <2>2 DEF Init, Ring!Init
<1>2. ASSUME IInv, Next, NEW c \in Cameras
      PROVE  Ring(c)!Next \/ UNCHANGED <<now, file[c]>>
  <2>1. CASE Tick
    BY <2>1, RingTick
  <2>2. CASE TakeFrame
    BY <1>2, <2>2, RingReopened
  <2>3. ASSUME Busy, NEW e \in Entries, StaysQuiet(e)
        PROVE  Ring(c)!Next \/ UNCHANGED <<now, file[c]>>
    BY <1>2, <2>3, RingWritten
  <2>4. ASSUME Busy, NEW e \in Entries, EndEvent(e)
        PROVE  Ring(c)!Next \/ UNCHANGED <<now, file[c]>>
    BY <1>2, <2>4, RingRangeWritten
  <2>5. \/ Tick \/ TakeFrame
        \/ Busy /\ \E e \in Entries : StaysQuiet(e) \/ EndEvent(e)
        \/ UNCHANGED <<now, file>>
    BY <1>2
    DEF Next, Worker, StreamStarts, StreamDies, CameraForgotten, RemoveStream, PostFrame,
        DoRemoval, CreateFails, DecodeFails, DecodeMore, NoResult, Analyze, Output,
        StartEvent, EventFrame, QuietFrame, worker, env
  <2> QED
    BY <2>1, <2>2, <2>3, <2>4, <2>5, FileKept
<1>3. IInv /\ [Next]_vars => [\A c \in Cameras : [Ring(c)!Next]_<<now, file[c]>>]_vars
  BY <1>2
<1>4. Init => \A c \in Cameras : Ring(c)!Init
  BY <1>1
<1> QED
  BY <1>3, <1>4, Invariance, PTL DEF Spec, RingUsed
=============================================================================
