------------------------ MODULE BlockingQueue_proofs ------------------------
(***************************************************************************)
(* For any number of consumers and every size of the queue: items are      *)
(* accounted for, notifications cover them, and the queue implements       *)
(* FrameChannel.  The inductive invariant joins type correctness and the   *)
(* two invariants with the order of the items in the queue: the head is    *)
(* older than all others, so that taking it delivers in order.             *)
(***************************************************************************)
EXTENDS BlockingQueue, TLAPS, FiniteSetTheorems, SequenceTheorems

Growing(s) == \A i, j \in 1 .. Len(s) : i < j => s[i] < s[j]

Limits == maxSize \in Nat /\ policy \in {"drop_oldest", "drop_newest"}

Counters ==
  /\ dropped \in Nat /\ posted \in Nat /\ last \in Nat /\ taken \in Nat
  /\ cleared \in Nat /\ overflowed \in Nat /\ wakes \in Nat /\ reported \in Nat

Flags == asleep \in BOOLEAN /\ reading \in BOOLEAN

Items ==
  /\ queue \in Seq(1 .. posted) /\ Growing(queue)
  /\ maxSize > 0 => Len(queue) <= maxSize

Clients ==
  /\ pc \in [Consumers -> {"idle", "forever", "timed"}]
  /\ notified \subseteq Waiting

IInv ==
  /\ Counters /\ Flags /\ Items /\ Clients /\ Limits
  /\ Accounting /\ NotificationsCoverItems

-----------------------------------------------------------------------------
(* Queues of item numbers.                                                 *)

\* What append and tail do to the items of a queue, their number and order.
LEMMA AppendItem ==
  ASSUME NEW n \in Nat, NEW s \in Seq(1 .. n)
  PROVE  /\ Append(s, n + 1) \in Seq(1 .. n + 1)
         /\ Len(Append(s, n + 1)) = Len(s) + 1
         /\ ToSet(Append(s, n + 1)) = ToSet(s) \cup {n + 1}
         /\ Growing(s) => Growing(Append(s, n + 1))
<1> DEFINE t == Append(s, n + 1)
<1>1. s \in Seq(1 .. n + 1) /\ n + 1 \in 1 .. n + 1
  BY SeqMonotonic
<1>2. /\ t \in Seq(1 .. n + 1) /\ Len(t) = Len(s) + 1
      /\ \A i \in 1 .. Len(s) : t[i] = s[i]
      /\ t[Len(s) + 1] = n + 1
  BY <1>1, AppendProperties
<1>3. Len(s) \in Nat /\ DOMAIN s = 1 .. Len(s) /\ DOMAIN t = 1 .. Len(t)
  BY <1>1, <1>2, LenProperties
<1>4. \A i \in 1 .. Len(s) : s[i] \in 1 .. n
  BY ElementOfSeq
<1> HIDE DEF t
<1>5. ToSet(t) = ToSet(s) \cup {n + 1}
  <2>1. DOMAIN t = DOMAIN s \cup {Len(s) + 1}
    BY <1>2, <1>3
  <2> QED
    BY <1>2, <1>3, <2>1 DEF ToSet
<1>6. ASSUME Growing(s)
      PROVE  Growing(t)
  <2> SUFFICES ASSUME NEW i \in 1 .. Len(t), NEW j \in 1 .. Len(t), i < j
               PROVE  t[i] < t[j]
    BY DEF Growing
  <2>1. i \in 1 .. Len(s) /\ t[i] = s[i]
    BY <1>2, <1>3
  <2>2. CASE j \in 1 .. Len(s)
    BY <1>2, <1>6, <2>1, <2>2 DEF Growing
  <2>3. CASE j = Len(s) + 1
    BY <1>2, <1>4, <2>1, <2>3
  <2>4. j \in 1 .. Len(s) + 1
    BY <1>2
  <2>5. j \in 1 .. Len(s) \/ j = Len(s) + 1
    BY <1>3, <2>4
  <2> QED
    BY <2>2, <2>3, <2>5
<1> QED
  BY <1>2, <1>5, <1>6 DEF t

LEMMA TailItems ==
  ASSUME NEW n \in Nat, NEW s \in Seq(1 .. n), s # <<>>
  PROVE  /\ Tail(s) \in Seq(1 .. n) /\ Len(Tail(s)) = Len(s) - 1
         /\ Len(s) \in Nat \ {0} /\ Head(s) \in 1 .. n
         /\ ToSet(s) = ToSet(Tail(s)) \cup {Head(s)}
         /\ Growing(s) => /\ Growing(Tail(s))
                          /\ \A i \in ToSet(Tail(s)) : Head(s) < i
<1> DEFINE t == Tail(s)
<1>1. /\ t \in Seq(1 .. n) /\ Len(t) = Len(s) - 1 /\ Head(s) \in 1 .. n
      /\ \A i \in 1 .. Len(t) : t[i] = s[i + 1]
  BY HeadTailProperties
<1>2. Len(s) \in Nat \ {0} /\ DOMAIN s = 1 .. Len(s) /\ DOMAIN t = 1 .. Len(t)
  BY <1>1, LenProperties, EmptySeq
<1>3. Head(s) = s[1]
  BY DEF Head
<1> HIDE DEF t
<1>4. ToSet(s) = ToSet(t) \cup {s[1]}
  <2>1. ASSUME NEW x \in ToSet(s)
        PROVE  x \in ToSet(t) \cup {s[1]}
    <3>1. PICK i \in 1 .. Len(s) : x = s[i]
      BY <1>2, <2>1 DEF ToSet
    <3>2. i = 1 \/ (i - 1 \in 1 .. Len(t) /\ t[i - 1] = s[i])
      BY <1>1, <1>2
    <3> QED
      BY <1>2, <3>1, <3>2 DEF ToSet
  <2>2. ASSUME NEW x \in ToSet(t)
        PROVE  x \in ToSet(s)
    <3>1. PICK i \in 1 .. Len(t) : x = t[i]
      BY <1>2, <2>2 DEF ToSet
    <3>2. i + 1 \in 1 .. Len(s) /\ t[i] = s[i + 1]
      BY <1>1, <1>2
    <3> QED
      BY <1>2, <3>1, <3>2 DEF ToSet
  <2>3. s[1] \in ToSet(s)
    BY <1>2 DEF ToSet
  <2> QED
    BY <2>1, <2>2, <2>3
<1>5. ASSUME Growing(s)
      PROVE  Growing(t) /\ \A i \in ToSet(t) : s[1] < i
  <2>1. ASSUME NEW i \in 1 .. Len(t)
        PROVE  1 \in 1 .. Len(s) /\ i + 1 \in 1 .. Len(s) /\ 1 < i + 1 /\ t[i] = s[i + 1]
    BY <1>1, <1>2
  <2>2. ASSUME NEW i \in 1 .. Len(t)
        PROVE  s[1] < t[i]
    BY <1>5, <2>1 DEF Growing
  <2>3. ASSUME NEW i \in 1 .. Len(t), NEW j \in 1 .. Len(t), i < j
        PROVE  t[i] < t[j]
    <3>1. i + 1 < j + 1
      BY <2>3
    <3> QED
      BY <1>5, <2>1, <3>1 DEF Growing
  <2> QED
    BY <1>2, <2>2, <2>3 DEF Growing, ToSet
<1> QED
  BY <1>1, <1>2, <1>3, <1>4, <1>5 DEF t

LEMMA EmptyQueue ==
  ASSUME NEW n \in Nat
  PROVE  << >> \in Seq(1 .. n) /\ Len(<< >>) = 0 /\ ToSet(<< >>) = {} /\ Growing(<< >>)
  BY EmptySeq DEF ToSet, Growing
-----------------------------------------------------------------------------
(* Notifications.                                                          *)

\* The consumers that wait and those released are finitely many.
LEMMA FinitelyMany ==
  ASSUME Clients, Items, Counters
  PROVE  /\ IsFiniteSet(Waiting) /\ IsFiniteSet(notified)
         /\ Cardinality(notified) \in Nat /\ Len(queue) \in Nat
<1>1. Waiting \subseteq Consumers /\ notified \subseteq Waiting /\ posted \in Nat
  BY DEF Clients, Counters, Waiting
<1>2. IsFiniteSet(Waiting) /\ IsFiniteSet(notified)
  BY <1>1, ConsumersAssumption, FS_Subset
<1> QED
  BY <1>1, <1>2, FS_CardinalityType, LenProperties DEF Items

\* A notification covers one more item, or finds everybody released.
LEMMA NotifyCovers ==
  ASSUME Clients, Items, Counters, NotificationsCoverItems, NotifyOne
  PROVE  /\ notified' \subseteq Waiting
         /\ IsFiniteSet(notified') /\ Cardinality(notified') \in Nat
         /\ Cardinality(notified') >= Len(queue) + 1 \/ notified' = Waiting
<1>1. notified \subseteq Waiting
  BY DEF Clients
<1>2. CASE Waiting \ notified = {}
  BY <1>1, <1>2, FinitelyMany DEF NotifyOne
<1>3. CASE Waiting \ notified # {}
  <2>1. PICK c \in Waiting \ notified : notified' = notified \cup {c}
    BY <1>3 DEF NotifyOne
  <2>2. IsFiniteSet(notified') /\ Cardinality(notified') = Cardinality(notified) + 1
    BY <2>1, FinitelyMany, FS_AddElement
  <2>3. Cardinality(notified) >= Len(queue)
    BY <1>3 DEF NotificationsCoverItems
  <2> QED
    BY <1>1, <2>1, <2>2, <2>3, FinitelyMany
<1> QED
  BY <1>2, <1>3

-----------------------------------------------------------------------------
(* The inductive invariant.                                                *)

LEMMA InitInv == Init => IInv
<1> SUFFICES ASSUME Init
             PROVE  IInv
  OBVIOUS
<1>1. queue \in Seq(1 .. posted) /\ Len(queue) = 0 /\ Growing(queue)
  BY EmptyQueue DEF Init
<1>2. Waiting = {} /\ notified = {}
  BY DEF Init, Waiting
<1>3. Limits
  BY SizesAssumption, PoliciesAssumption DEF Init, Limits
<1>4. Items
  BY <1>1, <1>3 DEF Items, Limits
<1>5. Clients
  BY <1>2 DEF Init, Clients
<1>6. Accounting
  BY <1>1 DEF Init, Accounting
<1>7. NotificationsCoverItems
  BY <1>2 DEF NotificationsCoverItems
<1> QED
  BY <1>3, <1>4, <1>5, <1>6, <1>7 DEF Init, IInv, Counters, Flags

\* What a post and a poll find.
LEMMA Bounds ==
  ASSUME IInv
  PROVE  /\ posted \in Nat /\ queue \in Seq(1 .. posted) /\ Len(queue) \in Nat
         /\ maxSize \in Nat
         /\ maxSize > 0 => Len(queue) <= maxSize
         /\ notified \subseteq Waiting
  BY FinitelyMany DEF IInv, Items, Counters, Clients, Limits

LEMMA PostInv ==
  ASSUME IInv, Post
  PROVE  IInv'
<1> USE Bounds
<1>1. /\ posted' = posted + 1 /\ maxSize' = maxSize /\ Limits' /\ Flags'
      /\ Waiting' = Waiting
      /\ pc' \in [Consumers -> {"idle", "forever", "timed"}]
  BY DEF Post, IInv, Clients, Flags, Limits, limits, monitor, Waiting
<1>2. CASE PostRoom
  <2>1. /\ queue' \in Seq(1 .. posted') /\ Len(queue') = Len(queue) + 1
        /\ Growing(queue')
    BY <1>1, <1>2, AppendItem DEF PostRoom, IInv, Items
  <2>2. Items'
    BY <1>1, <1>2, <2>1 DEF PostRoom, Full, Items
  <2>3. Counters'
    BY <1>1, <1>2 DEF Post, PostRoom, IInv, Counters, monitor
  <2>4. Clients'
    BY <1>1, <1>2, NotifyCovers DEF PostRoom, IInv, Clients
  <2>5. Accounting'
    BY <1>1, <1>2, <2>1 DEF Post, PostRoom, IInv, Counters, Accounting, monitor
  <2>6. NotificationsCoverItems'
    BY <1>1, <1>2, <2>1, NotifyCovers DEF PostRoom, IInv, NotificationsCoverItems
  <2> QED
    BY <1>1, <2>2, <2>3, <2>4, <2>5, <2>6 DEF IInv
<1>3. CASE PostDropOldest
  <2>1. queue # << >>
    BY <1>3, EmptyQueue DEF PostDropOldest, Full
  <2>2. /\ Tail(queue) \in Seq(1 .. posted) /\ Len(Tail(queue)) = Len(queue) - 1
        /\ Growing(Tail(queue))
    BY <2>1, TailItems DEF IInv, Items
  <2>3. /\ queue' \in Seq(1 .. posted') /\ Len(queue') = Len(queue) - 1 + 1
        /\ Growing(queue')
    BY <1>1, <1>3, <2>2, AppendItem DEF PostDropOldest
  <2>4. Len(queue') = Len(queue)
    BY <2>3
  <2>5. Items'
    BY <1>1, <2>3, <2>4 DEF Items
  <2>6. Counters'
    BY <1>1, <1>3 DEF Post, PostDropOldest, IInv, Counters, monitor
  <2>7. Clients'
    BY <1>1, <1>3, NotifyCovers DEF PostDropOldest, IInv, Clients
  <2>8. Accounting'
    <3>1. /\ taken' = taken /\ cleared' = cleared /\ overflowed' = overflowed + 1
          /\ dropped' = dropped + 1 /\ reading' = reading /\ reported' = reported
      BY <1>3 DEF Post, PostDropOldest, monitor
    <3> QED
      BY <1>1, <2>4, <3>1 DEF IInv, Counters, Accounting
  <2>9. NotificationsCoverItems'
    BY <1>1, <1>3, <2>4, NotifyCovers DEF PostDropOldest, IInv, NotificationsCoverItems
  <2> QED
    BY <1>1, <2>5, <2>6, <2>7, <2>8, <2>9 DEF IInv
<1>4. CASE PostDropNewest
  <2>1. 1 .. posted \subseteq 1 .. posted'
    BY <1>1
  <2>2. queue' = queue /\ queue' \in Seq(1 .. posted')
    BY <1>4, <2>1, SeqMonotonic DEF PostDropNewest
  <2>3. Items'
    BY <1>1, <2>2 DEF IInv, Items
  <2>4. Counters'
    BY <1>1, <1>4 DEF Post, PostDropNewest, IInv, Counters, monitor
  <2>5. Clients'
    BY <1>1, <1>4 DEF PostDropNewest, IInv, Clients
  <2>6. Accounting'
    BY <1>1, <1>4 DEF Post, PostDropNewest, IInv, Counters, Accounting, monitor
  <2>7. NotificationsCoverItems'
    BY <1>1, <1>4 DEF PostDropNewest, IInv, NotificationsCoverItems
  <2> QED
    BY <1>1, <2>3, <2>4, <2>5, <2>6, <2>7 DEF IInv
<1> QED
  BY <1>2, <1>3, <1>4 DEF Post

\* A consumer that leaves poll takes its notification and at most one item along.
LEMMA ReturnInv ==
  ASSUME IInv, NEW c \in Consumers, Return(c)
  PROVE  IInv'
<1> USE Bounds
<1>1. /\ posted' = posted /\ maxSize' = maxSize /\ Limits' /\ Flags'
      /\ pc' \in [Consumers -> {"idle", "forever", "timed"}]
      /\ Waiting' = Waiting \ {c} /\ notified' = notified \ {c}
  BY DEF Return, IInv, Clients, Flags, Limits, limits, monitor, Waiting
<1>2. Clients'
  BY <1>1 DEF IInv, Clients
<1>3. /\ IsFiniteSet(notified) /\ Cardinality(notified) \in Nat
  BY FinitelyMany DEF IInv
<1>4. Cardinality(notified') = Cardinality(notified) \/ Cardinality(notified') = Cardinality(notified) - 1
  BY <1>1, <1>3, FS_RemoveElement
<1>5. CASE queue = << >>
  <2>1. queue' = queue /\ taken' = taken /\ last' = last /\ Len(queue') = 0
    BY <1>5, EmptyQueue DEF Return
  <2>2. Items' /\ Counters'
    BY <1>1, <2>1 DEF Return, IInv, Items, Counters, monitor
  <2>3. Accounting'
    BY <1>1, <2>1 DEF Return, IInv, Accounting, monitor
  <2>4. NotificationsCoverItems'
    <3>1. Cardinality(notified') \in Nat
      BY <1>1, <1>3, FS_RemoveElement, FS_CardinalityType, FS_Subset
    <3> QED
      BY <3>1, <2>1 DEF NotificationsCoverItems
  <2> QED
    BY <1>1, <1>2, <2>2, <2>3, <2>4 DEF IInv
<1>6. CASE queue # << >>
  <2>1. queue' = Tail(queue) /\ taken' = taken + 1 /\ last' = Head(queue)
    BY <1>6 DEF Return
  <2>2. /\ queue' \in Seq(1 .. posted) /\ Len(queue') = Len(queue) - 1
        /\ Len(queue) \in Nat \ {0} /\ last' \in 1 .. posted /\ Growing(queue')
    BY <1>6, <2>1, TailItems DEF IInv, Items
  <2>3. Items'
    BY <1>1, <2>2 DEF Items
  <2>4. Counters'
    BY <1>1, <2>1, <2>2 DEF Return, IInv, Counters, monitor
  <2>5. Accounting'
    BY <1>1, <2>1, <2>2 DEF Return, IInv, Counters, Accounting, monitor
  <2>6. NotificationsCoverItems'
    BY <1>1, <1>3, <1>4, <2>2 DEF IInv, NotificationsCoverItems
  <2> QED
    BY <1>1, <1>2, <2>3, <2>4, <2>5, <2>6 DEF IInv
<1> QED
  BY <1>5, <1>6

\* Released consumers that find nothing go back to wait, others return.
LEMMA ResumeInv ==
  ASSUME IInv, NEW c \in Consumers, Resume(c)
  PROVE  IInv'
<1>1. CASE queue # << >> \/ ~asleep
  BY <1>1, ReturnInv DEF Resume
<1>2. CASE queue = << >> /\ asleep
  <2>1. /\ UNCHANGED <<queue, asleep, dropped, pc, posted, last, counts, wakes,
                        monitor, limits>>
        /\ notified' = notified \ {c} /\ Waiting' = Waiting
    BY <1>2 DEF Resume, Waiting
  <2>2. Items' /\ Counters' /\ Flags' /\ Clients' /\ Limits' /\ Accounting'
    BY <2>1 DEF IInv, Items, Counters, Flags, Clients, Limits, Accounting, counts, monitor, limits
  <2>3. Len(queue') = 0
    BY <1>2, <2>1, EmptyQueue, Bounds
  <2>4. Cardinality(notified') \in Nat
    BY <2>1, FinitelyMany, FS_RemoveElement, FS_CardinalityType DEF IInv
  <2> QED
    BY <2>2, <2>3, <2>4 DEF IInv, NotificationsCoverItems
<1> QED
  BY <1>1, <1>2

LEMMA PollEmptyInv ==
  ASSUME IInv, NEW c \in Consumers, PollEmpty(c)
  PROVE  IInv'
<1>1. /\ UNCHANGED <<queue, dropped, notified, posted, last, counts, wakes, monitor, limits>>
      /\ asleep' = TRUE
      /\ pc' \in [Consumers -> {"idle", "forever", "timed"}]
      /\ Waiting \subseteq Waiting'
  BY DEF PollEmpty, IInv, Clients, Waiting
<1>2. Items' /\ Counters' /\ Clients' /\ Limits' /\ Accounting'
  BY <1>1 DEF IInv, Items, Counters, Clients, Limits, Accounting, counts, monitor, limits
<1>8. Flags'
  BY <1>1 DEF IInv, Flags, monitor
<1>3. Len(queue') = 0
  BY <1>1, EmptyQueue, Bounds DEF PollEmpty
<1>4. Cardinality(notified') \in Nat
  BY <1>1, FinitelyMany DEF IInv
<1> QED
  BY <1>8, <1>2, <1>3, <1>4 DEF IInv, NotificationsCoverItems

LEMMA SpuriousInv ==
  ASSUME IInv, NEW c \in Consumers, Spurious(c)
  PROVE  IInv'
<1>1. /\ UNCHANGED <<queue, asleep, dropped, pc, posted, last, counts, wakes, monitor, limits>>
      /\ notified' = notified \cup {c} /\ c \in Waiting \ notified
      /\ Waiting' = Waiting
  BY DEF Spurious, Waiting
<1>2. Items' /\ Counters' /\ Clients' /\ Limits' /\ Accounting'
  BY <1>1 DEF IInv, Items, Counters, Clients, Limits, Accounting, counts, monitor, limits
<1>8. Flags'
  BY <1>1 DEF IInv, Flags, monitor
<1>3. Cardinality(notified') = Cardinality(notified) + 1 /\ Cardinality(notified) \in Nat
  BY <1>1, FinitelyMany, FS_AddElement DEF IInv
<1>4. Cardinality(notified) >= Len(queue)
  BY <1>1 DEF IInv, NotificationsCoverItems
<1>5. Len(queue') = Len(queue) /\ Len(queue) \in Nat
  BY <1>1, Bounds
<1>6. Cardinality(notified') >= Len(queue')
  BY <1>3, <1>4, <1>5
<1> QED
  BY <1>8, <1>2, <1>6 DEF IInv, NotificationsCoverItems

LEMMA WakeInv ==
  ASSUME IInv, Wake
  PROVE  IInv'
<1>1. /\ UNCHANGED <<queue, dropped, pc, posted, last, counts, monitor, limits>>
      /\ asleep' = FALSE /\ wakes' = wakes + 1 /\ Waiting' = Waiting
  BY DEF Wake, Waiting
<1>2. Items' /\ Counters' /\ Limits' /\ Accounting'
  BY <1>1 DEF IInv, Items, Counters, Limits, Accounting, counts, monitor, limits
<1>8. Flags'
  BY <1>1 DEF IInv, Flags, monitor
<1>3. /\ notified' \subseteq Waiting /\ Cardinality(notified') \in Nat
      /\ Cardinality(notified') >= Len(queue) + 1 \/ notified' = Waiting
  BY NotifyCovers DEF IInv, Wake
<1>4. Clients'
  BY <1>1, <1>3 DEF IInv, Clients
<1>5. Len(queue') = Len(queue) /\ Len(queue) \in Nat
  BY <1>1, Bounds
<1>6. Cardinality(notified') >= Len(queue') \/ notified' = Waiting'
  BY <1>1, <1>3, <1>5
<1> QED
  BY <1>8, <1>2, <1>4, <1>6 DEF IInv, NotificationsCoverItems

LEMMA ClearInv ==
  ASSUME IInv, Clear
  PROVE  IInv'
<1>1. /\ UNCHANGED <<dropped, pc, posted, last, taken, overflowed, monitor, limits>>
      /\ queue' = << >> /\ cleared' = cleared + Len(queue)
      /\ asleep' = FALSE /\ wakes' = wakes + 1 /\ Waiting' = Waiting
  BY DEF Clear, Waiting
<1>2. queue' \in Seq(1 .. posted') /\ Len(queue') = 0 /\ Growing(queue')
  BY <1>1, EmptyQueue, Bounds
<1>3. Items'
  BY <1>1, <1>2, Bounds DEF Items, limits
<1>4. Counters' /\ Limits'
  BY <1>1, Bounds DEF IInv, Counters, Limits, monitor, limits
<1>8. Flags'
  BY <1>1 DEF IInv, Flags, monitor
<1>5. Accounting'
  BY <1>1, <1>2, Bounds DEF IInv, Counters, Accounting, monitor
<1>6. notified' \subseteq Waiting /\ Cardinality(notified') \in Nat
  BY NotifyCovers DEF IInv, Clear
<1>7. Clients'
  BY <1>1, <1>6 DEF IInv, Clients
<1> QED
  BY <1>8, <1>2, <1>3, <1>4, <1>5, <1>6, <1>7 DEF IInv, NotificationsCoverItems

\* The monitor's read adds the count it has not yet added, its reset forgets it.
LEMMA MonitorInv ==
  ASSUME IInv, ReadDropped \/ ResetDropped
  PROVE  IInv'
<1>1. /\ UNCHANGED <<queue, asleep, clients, posted, last, counts, wakes, limits>>
      /\ Waiting' = Waiting
  BY DEF ReadDropped, ResetDropped, Waiting, clients
<1>2. Items' /\ Clients' /\ Limits'
  BY <1>1 DEF IInv, Items, Clients, Limits, clients, limits
<1>3. NotificationsCoverItems'
  BY <1>1 DEF IInv, NotificationsCoverItems, clients
<1>4. Counters'
  <2>1. reported' = reported + dropped \/ reported' = reported
    BY DEF ReadDropped, ResetDropped
  <2>2. dropped' = dropped \/ dropped' = 0
    BY DEF ReadDropped, ResetDropped
  <2> QED
    BY <1>1, <2>1, <2>2 DEF IInv, Counters, counts
<1>8. Flags'
  BY <1>1 DEF IInv, Flags, ReadDropped, ResetDropped
<1>5. Accounting'
  BY <1>1 DEF IInv, Counters, Accounting, ReadDropped, ResetDropped, counts
<1> QED
  BY <1>8, <1>2, <1>3, <1>4, <1>5 DEF IInv

LEMMA NextInv == IInv /\ [Next]_vars => IInv'
<1> SUFFICES ASSUME IInv, [Next]_vars
             PROVE  IInv'
  OBVIOUS
<1>1. ASSUME NEW c \in Consumers, PollItem(c) \/ Timeout(c)
      PROVE  IInv'
  BY <1>1, ReturnInv DEF PollItem, Timeout
<1>2. CASE UNCHANGED vars
  <2>1. Waiting' = Waiting
    BY <1>2 DEF vars, Waiting
  <2> QED
    BY <1>2, <2>1 DEF vars, limits, IInv, Counters, Flags, Items, Clients, Limits, Accounting,
                      NotificationsCoverItems
<1> QED
  BY <1>1, <1>2, PostInv, PollEmptyInv, ResumeInv, SpuriousInv, WakeInv, ClearInv,
     MonitorInv
  DEF Next

THEOREM Invariance == Spec => []IInv
  BY InitInv, NextInv, PTL DEF Spec

\* Every state of the queue has its type, and a bounded queue never outgrows
\* its limit, whatever the number of consumers.
THEOREM TypeCorrect == Spec => []TypeOK
<1>1. IInv => TypeOK
  BY DEF IInv, Counters, Flags, Items, Clients, TypeOK
<1> QED
  BY <1>1, Invariance, PTL

\* No item is lost or counted twice: posts equal items queued, polled, cleared
\* and overflown, and the monitor counts each overflow at most once.
THEOREM AccountsForItems == Spec => []Accounting
<1>1. IInv => Accounting
  BY DEF IInv
<1> QED
  BY <1>1, Invariance, PTL

\* No lost notification, for any number of consumers, polls with and without a
\* timeout, spurious wakeups, wake and clear.
THEOREM NoLostNotification == Spec => []NotificationsCoverItems
<1>1. IInv => NotificationsCoverItems
  BY DEF IInv
<1> QED
  BY <1>1, Invariance, PTL
-----------------------------------------------------------------------------
(* The queue implements the channel.                                       *)

LEMMA PostSends ==
  ASSUME IInv, Post
  PROVE  Channel!Send
<1>1. posted' = posted + 1 /\ last' = last
  BY DEF Post
<1>2. CASE PostRoom
  BY <1>1, <1>2, AppendItem, Bounds DEF PostRoom, Channel!Send
<1>3. CASE PostDropOldest
  <2>1. queue # << >>
    BY <1>3, EmptyQueue, Bounds DEF PostDropOldest, Full
  <2>2. Tail(queue) \in Seq(1 .. posted) /\ ToSet(Tail(queue)) \subseteq ToSet(queue)
    BY <2>1, TailItems, Bounds
  <2>3. ToSet(queue') = ToSet(Tail(queue)) \cup {posted + 1}
    BY <1>3, <2>2, AppendItem, Bounds DEF PostDropOldest
  <2> QED
    BY <1>1, <2>2, <2>3 DEF Channel!Send
<1>4. CASE PostDropNewest
  BY <1>1, <1>4 DEF PostDropNewest, Channel!Send
<1> QED
  BY <1>2, <1>3, <1>4 DEF Post

\* The head is the oldest item, since the items grow along the queue.
LEMMA ReturnDelivers ==
  ASSUME IInv, NEW c \in Consumers, Return(c)
  PROVE  Channel!Deliver \/ UNCHANGED <<posted, queue, last>>
<1>1. CASE queue = << >>
  BY <1>1 DEF Return
<1>2. CASE queue # << >>
  <2>1. queue' = Tail(queue) /\ last' = Head(queue) /\ posted' = posted
    BY <1>2 DEF Return
  <2>2. /\ Head(queue) \in 1 .. posted
        /\ ToSet(queue) = ToSet(Tail(queue)) \cup {Head(queue)}
        /\ \A i \in ToSet(Tail(queue)) : Head(queue) < i
    BY <1>2, TailItems, Bounds DEF IInv, Items
  <2>3. Head(queue) \in Nat /\ \A i \in ToSet(queue) : Head(queue) <= i
    <3>1. ToSet(queue) \subseteq 1 .. posted
      BY Bounds, LenProperties, ElementOfSeq DEF ToSet
    <3> QED
      BY <2>2, <3>1, Bounds
  <2>4. Head(queue) \notin ToSet(Tail(queue))
    BY <2>2, <2>3
  <2> QED
    BY <2>1, <2>2, <2>3, <2>4 DEF Channel!Deliver
<1> QED
  BY <1>1, <1>2

LEMMA NextRefines == IInv /\ [Next]_vars => [Channel!Next]_<<posted, ToSet(queue), last>>
<1> SUFFICES ASSUME IInv, [Next]_vars
             PROVE  \/ Channel!Send \/ Channel!Deliver \/ Channel!Lose
                    \/ UNCHANGED <<posted, queue, last>>
  BY DEF Channel!Next
<1>1. ASSUME NEW c \in Consumers,
             PollItem(c) \/ PollEmpty(c) \/ Resume(c) \/ Timeout(c) \/ Spurious(c)
      PROVE  Channel!Deliver \/ UNCHANGED <<posted, queue, last>>
  BY <1>1, ReturnDelivers DEF PollItem, PollEmpty, Resume, Timeout, Spurious
<1>2. Clear => Channel!Lose
  BY EmptyQueue, Bounds DEF Clear, Channel!Lose
<1>3. Wake \/ ReadDropped \/ ResetDropped \/ UNCHANGED vars
      => UNCHANGED <<posted, queue, last>>
  BY DEF Wake, ReadDropped, ResetDropped, vars
<1> QED
  BY <1>1, <1>2, <1>3, PostSends DEF Next

\* Items come out in the order they went in and each at most once, for any
\* number of consumers, both policies and every size of the queue.
THEOREM ImplementsChannel == Spec => ChannelSpec
<1>1. Init => Channel!Init
  BY EmptyQueue DEF Init, Channel!Init
<1> QED
  BY <1>1, Invariance, NextRefines, PTL DEF Spec, ChannelSpec, Channel!Spec
=============================================================================
