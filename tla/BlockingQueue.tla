---------------------------- MODULE BlockingQueue ----------------------------
(***************************************************************************)
(* r_blocking_q: the queue between a producer thread (the GStreamer        *)
(* callbacks, the motion engine) and a worker (the motion engine, the      *)
(* plugins, the RTSP need-data callbacks).                                 *)
(*                                                                         *)
(* Every method is one critical section of _lock, except a poll that finds *)
(* the queue empty: it sets _asleep, gives the lock up in wait/wait_for    *)
(* and takes it back when it is notified or times out.  A consumer that    *)
(* was notified has still to get the lock, and others may come first.      *)
(* wake() is not remembered: _asleep is set again by the next poll.        *)
(*                                                                         *)
(* The monitor is r_stream_keeper::_update_status_cache (and               *)
(* r_motion_engine::get_and_reset_dropped_count): it reads the number of   *)
(* dropped items and resets it in a critical section of its own.           *)
(***************************************************************************)
EXTENDS Naturals, Sequences, SequencesExt, FiniteSets

CONSTANTS
  Consumers,   \* threads that poll
  Sizes,       \* values of _max_size, 0 for an unbounded queue
  Policies,    \* values of _policy: "drop_oldest", "drop_newest"
  MaxPosts,    \* bound: items posted in a behaviour
  MaxWakes     \* bound: calls of wake and clear in a behaviour

ASSUME ConsumersAssumption == IsFiniteSet(Consumers)
ASSUME SizesAssumption == Sizes \subseteq Nat
ASSUME PoliciesAssumption == Policies \subseteq {"drop_oldest", "drop_newest"}

VARIABLES
  maxSize, policy,   \* _max_size and _policy, as the constructor set them
  queue,       \* _queue: item numbers, in the order of their posts
  asleep,      \* _asleep
  dropped,     \* _dropped_count
  pc,          \* pc[c]: "idle", or inside poll, waiting "forever" or "timed"
  notified,    \* waiting consumers the condition variable has released
  posted,      \* number of posts; also the item posted last
  last,        \* the item a poll returned last
  taken, cleared, overflowed,   \* how many items left by poll, clear, overflow
  wakes,       \* calls of wake and clear
  reading,     \* the monitor has read the count and not yet reset it
  reported     \* sum of the counts the monitor has read

limits == <<maxSize, policy>>
clients == <<pc, notified>>
counts == <<taken, cleared, overflowed>>
monitor == <<reading, reported>>
vars == <<limits, queue, asleep, dropped, pc, notified, posted, last, taken, cleared,
          overflowed, wakes, reading, reported>>

Waiting == {c \in Consumers : pc[c] # "idle"}

Init ==
  /\ maxSize \in Sizes /\ policy \in Policies
  /\ queue = <<>> /\ asleep = FALSE /\ dropped = 0
  /\ pc = [c \in Consumers |-> "idle"] /\ notified = {}
  /\ posted = 0 /\ last = 0
  /\ taken = 0 /\ cleared = 0 /\ overflowed = 0
  /\ wakes = 0 /\ reading = FALSE /\ reported = 0

\* post that forgets to notify.
MutantNoNotify == UNCHANGED notified

\* _cond.notify_one(): releases one consumer that waits, if there is one.
NotifyOne ==
  IF Waiting \ notified = {} THEN UNCHANGED notified
  ELSE \E c \in Waiting \ notified : notified' = notified \cup {c}

-----------------------------------------------------------------------------
(* post                                                                    *)

\* The limit taken for the size that may be exceeded.
MutantFullOffByOne == maxSize > 0 /\ Len(queue) > maxSize

Full == maxSize > 0 /\ Len(queue) >= maxSize

PostRoom ==
  /\ ~Full
  /\ queue' = Append(queue, posted + 1)
  /\ NotifyOne
  /\ UNCHANGED <<dropped, overflowed>>

\* The newest item makes room instead of the oldest.
MutantDropBack ==
  /\ Full /\ policy = "drop_oldest"
  /\ queue' = <<posted + 1>> \o Front(queue)
  /\ dropped' = dropped + 1
  /\ overflowed' = overflowed + 1
  /\ NotifyOne

PostDropOldest ==
  /\ Full /\ policy = "drop_oldest"
  /\ queue' = Append(Tail(queue), posted + 1)
  /\ dropped' = dropped + 1
  /\ overflowed' = overflowed + 1
  /\ NotifyOne

PostDropNewest ==
  /\ Full /\ policy = "drop_newest"
  /\ dropped' = dropped + 1
  /\ overflowed' = overflowed + 1
  /\ UNCHANGED <<queue, notified>>

Post ==
  /\ posted < MaxPosts
  /\ posted' = posted + 1
  /\ PostRoom \/ PostDropOldest \/ PostDropNewest
  /\ UNCHANGED <<asleep, pc, last, taken, cleared, wakes, monitor, limits>>

-----------------------------------------------------------------------------
(* poll                                                                    *)

\* The consumer returns with the head of the queue, or with null.
Return(c) ==
  /\ pc' = [pc EXCEPT ![c] = "idle"]
  /\ notified' = notified \ {c}
  /\ IF queue = <<>> THEN UNCHANGED <<queue, last, taken>>
     ELSE /\ queue' = Tail(queue)
          /\ last' = Head(queue)
          /\ taken' = taken + 1
  /\ UNCHANGED <<asleep, dropped, posted, cleared, overflowed, wakes, monitor, limits>>

PollItem(c) == pc[c] = "idle" /\ queue # <<>> /\ Return(c)

\* The predicate of the wait is false here: the consumer gives up the lock.
PollEmpty(c) ==
  /\ pc[c] = "idle" /\ queue = <<>>
  /\ asleep' = TRUE
  /\ \E how \in {"forever", "timed"} : pc' = [pc EXCEPT ![c] = how]
  /\ UNCHANGED <<queue, dropped, notified, posted, last, counts, wakes, monitor, limits>>

\* A released consumer has the lock again and evaluates the predicate.
Resume(c) ==
  /\ c \in notified
  /\ IF queue # <<>> \/ ~asleep
     THEN Return(c)
     ELSE /\ notified' = notified \ {c}
          /\ UNCHANGED <<queue, asleep, dropped, pc, posted, last, counts, wakes,
                         monitor, limits>>

Timeout(c) == pc[c] = "timed" /\ Return(c)

\* Condition variables may release a waiting thread for no reason.
Spurious(c) ==
  /\ c \in Waiting \ notified
  /\ notified' = notified \cup {c}
  /\ UNCHANGED <<queue, asleep, dropped, pc, posted, last, counts, wakes, monitor, limits>>

-----------------------------------------------------------------------------
(* wake and clear                                                          *)

\* wake that notifies nobody.
MutantSilentWake ==
  /\ wakes < MaxWakes
  /\ wakes' = wakes + 1
  /\ asleep' = FALSE
  /\ UNCHANGED <<queue, dropped, clients, posted, last, counts, monitor, limits>>

Wake ==
  /\ wakes < MaxWakes
  /\ wakes' = wakes + 1
  /\ asleep' = FALSE
  /\ NotifyOne
  /\ UNCHANGED <<queue, dropped, pc, posted, last, counts, monitor, limits>>

Clear ==
  /\ wakes < MaxWakes
  /\ wakes' = wakes + 1
  /\ cleared' = cleared + Len(queue)
  /\ queue' = <<>>
  /\ asleep' = FALSE
  /\ NotifyOne
  /\ UNCHANGED <<dropped, pc, posted, last, taken, overflowed, monitor, limits>>

-----------------------------------------------------------------------------
(* dropped_count() and reset_dropped_count(): two critical sections        *)

ReadDropped ==
  /\ ~reading
  /\ reading' = TRUE
  /\ reported' = reported + dropped
  /\ UNCHANGED <<queue, asleep, dropped, clients, posted, last, counts, wakes,
                 limits>>

\* The count is read and not reset.
MutantNoReset ==
  /\ reading
  /\ reading' = FALSE
  /\ UNCHANGED <<queue, asleep, dropped, clients, posted, last, counts, wakes,
                 reported, limits>>

ResetDropped ==
  /\ reading
  /\ reading' = FALSE
  /\ dropped' = 0
  /\ UNCHANGED <<queue, asleep, clients, posted, last, counts, wakes,
                 reported, limits>>

-----------------------------------------------------------------------------
Next ==
  \/ Post
  \/ \E c \in Consumers : \/ PollItem(c) \/ PollEmpty(c) \/ Resume(c)
                          \/ Timeout(c) \/ Spurious(c)
  \/ Wake
  \/ Clear
  \/ ReadDropped
  \/ ResetDropped

Spec == Init /\ [][Next]_vars

\* The workers poll in a loop and the scheduler runs a thread that can run;
\* nothing is assumed of timeouts, producers, wake, clear or the monitor.
FairSpec ==
  /\ Spec
  /\ \A c \in Consumers : WF_vars(PollItem(c)) /\ WF_vars(Resume(c))

-----------------------------------------------------------------------------
(* Properties                                                              *)

\* Type correctness, with the limit: a bounded queue never outgrows _max_size.
TypeOK ==
  /\ queue \in Seq(1 .. posted)
  /\ maxSize > 0 => Len(queue) <= maxSize
  /\ asleep \in BOOLEAN /\ reading \in BOOLEAN
  /\ pc \in [Consumers -> {"idle", "forever", "timed"}]
  /\ notified \subseteq Waiting
  /\ \A n \in {dropped, posted, last, taken, cleared, overflowed, wakes, reported} :
        n \in Nat

\* Every item that was posted is queued, or left exactly once: to a consumer,
\* by clear or by an overflow; and the monitor, which reads the count of the
\* overflows and resets it while producers post, counts none of them twice.  (It
\* may miss one, that is dropped between its read and its reset.)
Accounting ==
  /\ posted = Len(queue) + taken + cleared + overflowed
  /\ reported + (IF reading THEN 0 ELSE dropped) <= overflowed

\* No lost notification: as many waiting consumers have been released as
\* there are items for them, whoever takes items, times out or is woken
\* between a notification and the moment the released consumer has the lock.
NotificationsCoverItems ==
  \/ Cardinality(notified) >= Len(queue)
  \/ notified = Waiting

Channel == INSTANCE FrameChannel WITH sent <- posted, pending <- ToSet(queue)

\* Items come out in the order they went in, each at most once.
ChannelSpec == Channel!Spec

\* An item does not stay queued: a consumer takes it, also when nobody posts
\* again, unless it is cleared or overflows.
ItemsLeave ==
  \A i \in 1 .. MaxPosts : i \in ToSet(queue) ~> i \notin ToSet(queue)

\* wake and clear bring a consumer that waits without a timeout out of poll, if
\* no other consumer ever waits, which is how the repository uses the queue: only
\* they leave _asleep false while it waits.  (Of two that wait one is woken, and a
\* second one that begins to wait takes the wake back.)
WakeReturns ==
  \A c \in Consumers :
    [](Waiting \subseteq {c}) => ((~asleep /\ pc[c] = "forever") ~> pc[c] = "idle")
=============================================================================
