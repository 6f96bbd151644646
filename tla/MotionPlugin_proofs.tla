-------------------------- MODULE MotionPlugin_proofs --------------------------
(***************************************************************************)
(* Proofs about the person detection plugin: its queue stays within its    *)
(* bound, nothing is written twice, and a worker that keeps up mixes no    *)
(* events.                                                                 *)
(*                                                                         *)
(* All three rest on the order of the messages still to be processed       *)
(* (Todo): the one the worker holds, those in the queue and the one being  *)
(* posted have growing timestamps, and each is later than what the worker  *)
(* has kept or written before.                                             *)
(***************************************************************************)
EXTENDS MotionPlugin, TLAPS

Messages == [evt : {"start", "update", "end"}, cam : Cameras, ts : Nat, ev : Nat]

\* The messages accepted and not processed yet.
Todo ==
  (IF wpc = "work" THEN {wmsg} ELSE {}) \cup ToSet(queue)
    \cup (IF epc # "idle" THEN {emsg} ELSE {})

\* The types TypeOK leaves out, and what keeps the queue within its bound: the
\* poster is alone in posting, so the room it saw is still there.
Types ==
  /\ TypeOK
  /\ event \in [Cameras -> Nat]
  /\ behind \in BOOLEAN /\ running \in BOOLEAN /\ threw \in BOOLEAN
  /\ queue \in Seq(Messages)
  /\ epc = "post" => HasRoom
  /\ wpc = "work" => wmsg \in Messages
  /\ epc # "idle" => emsg \in Messages
  /\ buffered \in [Cameras -> Messages \cup {NoMsg}]
  /\ \A c \in Cameras : buffered[c] # NoMsg => buffered[c].evt = "update"
  /\ detections \in [Cameras -> Seq(Messages)]
  /\ written \in [Cameras -> Seq(Seq(Messages))]
  /\ \A c \in Cameras : \A i \in DOMAIN written[c] : written[c][i] # <<>>

\* Messages are processed in the order of their timestamps.
InOrder ==
  /\ \A i, j \in DOMAIN queue : i < j => queue[i].ts < queue[j].ts
  /\ wpc = "work" => \A i \in DOMAIN queue : wmsg.ts < queue[i].ts
  /\ epc # "idle" => \A i \in DOMAIN queue : queue[i].ts < emsg.ts
  /\ epc # "idle" /\ wpc = "work" => wmsg.ts < emsg.ts
  /\ \A p \in Todo : p.ts <= ts

\* Everything kept, to come or written later is later than the END f of camera c.
Before(f, i, c) ==
  /\ f.ts <= ts
  /\ \A p \in Todo : f.ts < p.ts
  /\ \A d \in ToSet(detections[c]) : f.ts < d.ts
  /\ buffered[c] # NoMsg => f.ts < buffered[c].ts
  /\ \A j \in DOMAIN written[c] :
       i < j => \A d \in ToSet(written[c][j]) : f.ts < d.ts

WrittenBefore ==
  \A c \in Cameras : \A i \in DOMAIN written[c] : Before(Last(written[c][i]), i, c)

\* Unless a write failed, the detections are of different frames, none later
\* than the last processed one and each earlier than what is to come.
DetectedOnce ==
  ~threw => \A c \in Cameras :
    /\ IsInjective(detections[c])
    /\ \A f \in ToSet(detections[c]) :
         f.ts <= lastProcessed[c] /\ \A p \in Todo : f.ts < p.ts
    /\ \A i \in DOMAIN written[c] : IsInjective(written[c][i])

\* What is kept of camera c is of its latest event, or about to be forgotten, or
\* never looked at again.
OwnKept(c) ==
  \/ /\ \A f \in ToSet(detections[c]) : f.ev = event[c]
     /\ buffered[c] # NoMsg => buffered[c].ev = event[c]
  \/ \E p \in Todo : p.cam = c /\ p.evt = "start"
  \/ ~running /\ Todo = {}

\* While the worker keeps up, at most one message is on its way.
KeepsUp ==
  ~behind =>
    /\ Len(queue) <= 1
    /\ wpc = "work" => queue = <<>> /\ epc = "idle"
    /\ epc # "idle" => queue = <<>>
    /\ \A p \in Todo : p.ev = event[p.cam]
    /\ \A c \in Cameras : OwnKept(c)

IInv ==
  Types /\ InOrder /\ WrittenBefore /\ DetectedOnce /\ KeepsUp /\ OwnFramesOnly

-----------------------------------------------------------------------------
(* Sequences of messages.                                                  *)

LEMMA OneMore ==
  ASSUME NEW s \in Seq(Messages), NEW e \in Messages
  PROVE  /\ s \o <<e>> \in Seq(Messages)
         /\ s \o <<e>> # <<>>
         /\ Last(s \o <<e>>) = e
         /\ \A f \in ToSet(s \o <<e>>) : f \in ToSet(s) \/ f = e
         /\ IsInjective(s) /\ e \notin ToSet(s) => IsInjective(s \o <<e>>)
<1> DEFINE t == s \o <<e>>
<1>1. /\ t \in Seq(Messages)
      /\ Len(t) = Len(s) + 1
      /\ t[Len(s) + 1] = e
      /\ \A i \in 1 .. Len(s) : t[i] = s[i]
  OBVIOUS
<1>2. Len(s) \in Nat /\ DOMAIN s = 1 .. Len(s) /\ DOMAIN t = 1 .. Len(t)
  BY <1>1
<1> HIDE DEF t
<1>3. t # <<>>
  BY <1>1, <1>2
<1>4. Last(t) = e
  BY <1>1 DEF Last
<1>5. ASSUME NEW f \in ToSet(t)
      PROVE  f \in ToSet(s) \/ f = e
  BY <1>1, <1>2 DEF ToSet
<1>6. ASSUME IsInjective(s), e \notin ToSet(s)
      PROVE  IsInjective(t)
  <2>1. ASSUME NEW i \in 1 .. Len(s)
        PROVE  s[i] # e
    BY <1>2, <1>6 DEF ToSet
  <2> SUFFICES ASSUME NEW i \in DOMAIN t, NEW j \in DOMAIN t, t[i] = t[j]
               PROVE  i = j
    BY DEF IsInjective
  <2>2. CASE i = Len(s) + 1 /\ j = Len(s) + 1
    BY <2>2
  <2>3. CASE i \in 1 .. Len(s) /\ j \in 1 .. Len(s)
    BY <2>3, <1>1, <1>2, <1>6 DEF IsInjective
  <2>4. CASE i \in 1 .. Len(s) /\ j = Len(s) + 1
    BY <2>4, <2>1, <1>1
  <2>5. CASE i = Len(s) + 1 /\ j \in 1 .. Len(s)
    BY <2>5, <2>1, <1>1
  <2> QED BY <2>2, <2>3, <2>4, <2>5, <1>1, <1>2
<1> QED BY <1>1, <1>3, <1>4, <1>5, <1>6 DEF t

LEMMA Appended ==
  ASSUME NEW s \in Seq(Messages), NEW e \in Messages
  PROVE  /\ Append(s, e) = s \o <<e>>
         /\ Append(s, e) \in Seq(Messages)
         /\ Len(Append(s, e)) = Len(s) + 1
         /\ ToSet(Append(s, e)) = ToSet(s) \cup {e}
         /\ \A i \in 1 .. Len(s) : Append(s, e)[i] = s[i]
         /\ Append(s, e)[Len(s) + 1] = e
<1> DEFINE t == Append(s, e)
<1>1. /\ t = s \o <<e>>
      /\ t \in Seq(Messages)
      /\ Len(t) = Len(s) + 1
      /\ t[Len(s) + 1] = e
      /\ \A i \in 1 .. Len(s) : t[i] = s[i]
  OBVIOUS
<1>2. Len(s) \in Nat /\ DOMAIN s = 1 .. Len(s) /\ DOMAIN t = 1 .. Len(t)
  BY <1>1
<1> HIDE DEF t
<1>3. ToSet(t) \subseteq ToSet(s) \cup {e}
  BY <1>1, <1>2 DEF ToSet
<1>4. e \in ToSet(t)
  BY <1>1, <1>2 DEF ToSet
<1>5. ToSet(s) \subseteq ToSet(t)
  BY <1>1, <1>2 DEF ToSet
<1> QED BY <1>1, <1>3, <1>4, <1>5 DEF t

LEMMA EmptySequence == ToSet(<<>>) = {} /\ IsInjective(<<>>)
BY DEF ToSet, IsInjective

LEMMA OneFrame ==
  ASSUME NEW e \in Messages
  PROVE  <<e>> \in Seq(Messages) /\ ToSet(<<e>>) = {e} /\ IsInjective(<<e>>)
BY DEF ToSet, IsInjective

-----------------------------------------------------------------------------
(* What a step does to the messages on their way.                          *)

\* A step of the poster that brings a new message.
Posts(c) ==
  \/ PostStart(c)
  \/ PostUpdate(c)
  \/ PostEnd(c)
  \/ \E evt \in {"start", "update"} : PostStopped(c, evt)

\* A step that moves messages or control only.
Moves ==
  \/ CheckRoom \/ Enqueue
  \/ ClearRunning \/ WakeQueue \/ Join
  \/ LoopTest \/ PollWaits \/ PollReturns
  \/ UNCHANGED vars

\* A step of the worker that processes its message.
Processes == ProcessStart \/ ProcessPeriodic \/ ProcessEnd

LEMMA Steps ==
  ASSUME [Next]_vars
  PROVE  (\E c \in Cameras : Posts(c)) \/ Moves \/ Processes
BY DEF Next, Worker, Posts, Moves, Processes

LEMMA PostsAdd ==
  ASSUME Types, InOrder, NEW c \in Cameras, Posts(c)
  PROVE  /\ ts' = ts + 1
         /\ emsg' \in Messages
         /\ emsg'.cam = c /\ emsg'.ts = ts' /\ emsg'.ev = event'[c]
         /\ Todo \subseteq Todo'
         /\ Todo' \subseteq Todo \cup {emsg'}
         /\ epc' = "idle" => Todo' = Todo
         /\ epc = "idle" /\ epc' \in {"idle", "check"}
         /\ UNCHANGED plugin
<1>1. /\ ts \in Nat /\ event \in [Cameras -> Nat]
  BY PluginConstants DEF Types, TypeOK
<1>2. PICK evt \in {"start", "update", "end"} : Message(c, evt)
  BY DEF Posts, PostStart, PostUpdate, PostEnd, PostStopped
<1>3. /\ epc = "idle" /\ epc' \in {"idle", "check"}
      /\ UNCHANGED plugin
  BY DEF Posts, PostStart, PostUpdate, PostEnd, PostStopped, Message
<1>4. event'[c] \in Nat
  BY <1>1, <1>2 DEF Message
<1>5. /\ ts' = ts + 1
      /\ emsg' = [evt |-> evt, cam |-> c, ts |-> ts', ev |-> event'[c]]
  BY <1>2 DEF Message
<1>6. emsg' \in Messages
  BY <1>1, <1>4, <1>5 DEF Messages
<1>7. /\ Todo \subseteq Todo'
      /\ Todo' \subseteq Todo \cup {emsg'}
      /\ epc' = "idle" => Todo' = Todo
  BY <1>3 DEF Todo, plugin
<1> QED BY <1>3, <1>5, <1>6, <1>7

LEMMA QueueParts ==
  ASSUME queue \in Seq(Messages), queue # <<>>
  PROVE  /\ Head(queue) = queue[1]
         /\ Head(queue) \in Messages
         /\ Tail(queue) \in Seq(Messages)
         /\ Len(Tail(queue)) = Len(queue) - 1
         /\ \A i \in DOMAIN Tail(queue) : i + 1 \in DOMAIN queue /\ Tail(queue)[i] = queue[i + 1]
         /\ \A i \in DOMAIN queue : i = 1 \/ (i - 1 \in DOMAIN Tail(queue) /\ queue[i] = Tail(queue)[i - 1])
         /\ 1 \in DOMAIN queue
OBVIOUS

LEMMA MovesKeep ==
  ASSUME Types, Moves
  PROVE  /\ UNCHANGED <<ts, event, active, emsg, behind, memory>>
         /\ Todo' \subseteq Todo
         /\ ~running => ~running'
         /\ running' /\ ~CheckRoom => Todo' = Todo
<1>1. UNCHANGED <<ts, event, active, emsg, behind, memory>>
  BY DEF Moves, CheckRoom, Enqueue, ClearRunning, WakeQueue, Join, LoopTest, PollWaits,
         PollReturns, vars, engine, memory, local, plugin, shared, others
<1>2. queue \in Seq(Messages)
  BY DEF Types
<1>3. CASE CheckRoom
  BY <1>1, <1>3 DEF CheckRoom, Todo, plugin
<1>4. CASE Enqueue
  <2>1. ToSet(Append(queue, emsg)) = ToSet(queue) \cup {emsg}
    BY <1>2, <1>4, Appended DEF Enqueue, Types
  <2> QED BY <2>1, <1>1, <1>4 DEF Enqueue, Todo
<1>5. CASE ClearRunning \/ WakeQueue \/ Join \/ UNCHANGED vars
  BY <1>1, <1>5 DEF ClearRunning, WakeQueue, Join, vars, shared, engine, Todo, Types
<1>6. CASE LoopTest \/ PollWaits
  BY <1>1, <1>6 DEF LoopTest, PollWaits, others, engine, memory, Todo
<1>7. CASE PollReturns
  <2>1. UNCHANGED <<epc, emsg, running>>
    BY <1>7 DEF PollReturns, others, engine
  <2>2. CASE queue = <<>>
    BY <1>1, <2>1, <2>2, <1>7, EmptySequence DEF PollReturns, Todo
  <2>3. CASE queue # <<>>
    <3>1. ToSet(queue) = {Head(queue)} \cup ToSet(Tail(queue))
      BY <1>2, <2>3, QueueParts DEF ToSet
    <3> QED BY <1>1, <2>1, <2>3, <3>1, <1>7 DEF PollReturns, Todo
  <2> QED BY <2>2, <2>3
<1> QED BY <1>1, <1>3, <1>4, <1>5, <1>6, <1>7 DEF Moves

LEMMA ProcessesTakes ==
  ASSUME Types, InOrder, Processes
  PROVE  /\ wpc = "work" /\ wpc' = "loop"
         /\ wmsg \in Messages /\ wmsg.ts <= ts
         /\ UNCHANGED <<ts, event, active, epc, emsg, behind, running, stopper, queue, wmsg>>
         /\ Todo = Todo' \cup {wmsg}
         /\ \A p \in Todo' : wmsg.ts < p.ts
<1>1. /\ wpc = "work" /\ wpc' = "loop"
      /\ UNCHANGED <<ts, event, active, epc, emsg, behind, running, stopper, queue, wmsg>>
  BY DEF Processes, ProcessStart, ProcessPeriodic, ProcessEnd, Working, others, engine
<1>2. wmsg \in Messages
  BY <1>1 DEF Types
<1>3. Todo = Todo' \cup {wmsg} /\ wmsg \in Todo
  BY <1>1 DEF Todo
<1>4. wmsg.ts <= ts
  BY <1>3 DEF InOrder
<1>5. ASSUME NEW p \in Todo'
      PROVE  wmsg.ts < p.ts
  <2>1. (\E i \in DOMAIN queue : p = queue[i]) \/ (epc # "idle" /\ p = emsg)
    BY <1>1 DEF Todo, ToSet
  <2> QED BY <2>1, <1>1 DEF InOrder
<1> QED BY <1>1, <1>2, <1>3, <1>4, <1>5

-----------------------------------------------------------------------------
(* The types.                                                              *)

LEMMA InitTypes == Init => Types
<1> SUFFICES ASSUME Init
             PROVE  Types
  OBVIOUS
<1>1. /\ ts = 0 /\ active = {} /\ epc = "idle" /\ stopper = "idle" /\ wpc = "loop"
      /\ queue = <<>>
      /\ behind = FALSE /\ running = TRUE /\ threw = FALSE
  BY DEF Init
<1>2. queue \in Seq(Messages) /\ Len(queue) = 0
  BY <1>1
<1>3. ts \in 0 .. MaxTs /\ Len(queue) <= MaxDepth
  BY <1>1, <1>2, PluginConstants
<1>4. /\ lastPeriodic \in [Cameras -> 0 .. ts \cup {None}]
      /\ lastProcessed \in [Cameras -> 0 .. ts \cup {None}]
  BY DEF Init, Each
<1>5. TypeOK
  BY <1>1, <1>3, <1>4 DEF TypeOK
<1>6. event \in [Cameras -> Nat]
  BY DEF Init, Each
<1>7. /\ buffered \in [Cameras -> Messages \cup {NoMsg}]
      /\ \A c \in Cameras : buffered[c] = NoMsg
  BY DEF Init, Each
<1>8. detections \in [Cameras -> Seq(Messages)]
  BY DEF Init, Each
<1>9. /\ written \in [Cameras -> Seq(Seq(Messages))]
      /\ \A c \in Cameras : \A i \in DOMAIN written[c] : written[c][i] # <<>>
  <2>1. written = [c \in Cameras |-> <<>>]
    BY DEF Init, Each
  <2>2. \A c \in Cameras : written[c] = <<>>
    BY <2>1
  <2> QED BY <2>1, <2>2
<1> QED BY <1>1, <1>2, <1>5, <1>6, <1>7, <1>8, <1>9 DEF Types

\* What ProcessEnd writes, or keeps when writing throws.
All(c) == detections[c] \o Middle(c) \o <<wmsg>>

LEMMA MiddleFrame ==
  ASSUME Types, NEW c \in Cameras
  PROVE  \/ Middle(c) = <<>>
         \/ /\ Middle(c) = <<buffered[c]>>
            /\ buffered[c] # NoMsg
            /\ buffered[c] \in Messages
            /\ buffered[c].ts > lastProcessed[c]
BY DEF Middle, Types

LEMMA AllFrames ==
  ASSUME Types, NEW c \in Cameras, wpc = "work"
  PROVE  /\ All(c) \in Seq(Messages)
         /\ All(c) # <<>>
         /\ Last(All(c)) = wmsg
         /\ \A f \in ToSet(All(c)) :
              \/ f \in ToSet(detections[c])
              \/ f = buffered[c] /\ buffered[c] # NoMsg
              \/ f = wmsg
<1>1. detections[c] \in Seq(Messages) /\ wmsg \in Messages
  BY DEF Types
<1>2. CASE Middle(c) = <<>>
  <2>1. All(c) = detections[c] \o <<wmsg>>
    BY <1>1, <1>2 DEF All
  <2> QED BY <1>1, <2>1, OneMore
<1>3. CASE /\ Middle(c) = <<buffered[c]>>
           /\ buffered[c] # NoMsg
           /\ buffered[c] \in Messages
  <2> DEFINE s == detections[c] \o <<buffered[c]>>
  <2>1. /\ s \in Seq(Messages)
        /\ \A f \in ToSet(s) : f \in ToSet(detections[c]) \/ f = buffered[c]
    BY <1>1, <1>3, OneMore
  <2>2. All(c) = s \o <<wmsg>>
    BY <1>3 DEF All
  <2> HIDE DEF s
  <2> QED BY <1>1, <1>3, <2>1, <2>2, OneMore
<1> QED BY <1>2, <1>3, MiddleFrame

LEMMA PostsTypes ==
  ASSUME Types, InOrder, NEW c \in Cameras, Posts(c)
  PROVE  Types'
<1>1. /\ ts \in 0 .. MaxTs /\ ts < MaxTs /\ ts' = ts + 1
      /\ event' \in [Cameras -> Nat]
      /\ active' \subseteq Cameras
      /\ behind' \in BOOLEAN
  <2>1. PICK evt \in {"start", "update", "end"} : Message(c, evt)
    BY DEF Posts, PostStart, PostUpdate, PostEnd, PostStopped
  <2>2. event' \in [Cameras -> Nat]
    BY <2>1 DEF Message, Types
  <2>3. active' \subseteq Cameras
    BY <2>1 DEF Message, Types, TypeOK
  <2>4. behind' \in BOOLEAN
    BY <2>1 DEF Message
  <2>5. ts \in 0 .. MaxTs /\ ts < MaxTs /\ ts' = ts + 1
    BY <2>1 DEF Message, Types, TypeOK
  <2> QED BY <2>2, <2>3, <2>4, <2>5
<1>2. /\ emsg' \in Messages /\ epc' \in {"idle", "check"}
      /\ UNCHANGED plugin
  BY PostsAdd
<1>3. ts' \in 0 .. MaxTs /\ ts' > 0
  BY <1>1, PluginConstants
<1>4. /\ buffered' \in [Cameras -> Messages \cup {NoMsg}]
      /\ \A d \in Cameras : buffered'[d] # NoMsg => buffered'[d].evt = "update"
  <2>1. CASE UNCHANGED buffered
    BY <2>1 DEF Types
  <2>2. CASE PostUpdate(c)
    <3>1. buffered' = [buffered EXCEPT ![c] = emsg'] /\ emsg'.evt = "update"
      BY <2>2 DEF PostUpdate, Message
    <3> QED BY <1>2, <3>1 DEF Types
  <2> QED BY <2>1, <2>2 DEF Posts, PostStart, PostEnd, PostStopped
<1>5. lastPeriodic' \in [Cameras -> 0 .. ts' \cup {None}]
  <2>1. 0 .. ts \subseteq 0 .. ts'
    BY <1>1
  <2>2. lastPeriodic' = lastPeriodic \/ lastPeriodic' = [lastPeriodic EXCEPT ![c] = ts']
    BY DEF Posts, PostStart, PostUpdate, PostEnd, PostStopped
  <2>3. /\ lastPeriodic \in [Cameras -> 0 .. ts' \cup {None}]
        /\ ts' \in 0 .. ts' \cup {None}
    BY <1>1, <1>3, <2>1 DEF Types, TypeOK
  <2> QED BY <2>2, <2>3
<1>6. lastProcessed' \in [Cameras -> 0 .. ts' \cup {None}]
  <2>1. 0 .. ts \subseteq 0 .. ts'
    BY <1>1
  <2> QED BY <1>2, <2>1 DEF Types, TypeOK, plugin, local
<1> QED BY <1>1, <1>2, <1>3, <1>4, <1>5, <1>6 DEF Types, TypeOK, plugin, local

LEMMA MovesTypes ==
  ASSUME Types, Moves
  PROVE  Types'
<1>1. UNCHANGED <<ts, event, active, emsg, behind, memory>>
  BY MovesKeep
<1>2. Len(queue) \in Nat /\ Len(queue) <= MaxDepth /\ queue \in Seq(Messages)
  BY DEF Types, TypeOK
<1>3. CASE CheckRoom
  BY <1>1, <1>3 DEF CheckRoom, Types, TypeOK, plugin, memory, local, HasRoom
<1>4. CASE Enqueue
  <2>1. emsg \in Messages /\ HasRoom
    BY <1>4 DEF Enqueue, Types
  <2>2. queue' \in Seq(Messages) /\ Len(queue') = Len(queue) + 1
    BY <1>2, <1>4, <2>1, Appended DEF Enqueue
  <2>3. Len(queue') <= MaxDepth
    BY <1>2, <2>1, <2>2, PluginConstants DEF HasRoom
  <2> QED BY <1>1, <1>4, <2>2, <2>3 DEF Enqueue, Types, TypeOK, memory, local
<1>5. CASE ClearRunning \/ WakeQueue \/ Join \/ UNCHANGED vars
  BY <1>1, <1>5 DEF ClearRunning, WakeQueue, Join, vars, shared, engine, Types, TypeOK,
                    memory, local, HasRoom
<1>6. CASE LoopTest \/ PollWaits
  BY <1>1, <1>6 DEF LoopTest, PollWaits, others, engine, Types, TypeOK, memory, local,
                    HasRoom
<1>7. CASE PollReturns
  <2>1. UNCHANGED <<epc, running, stopper>>
    BY <1>7 DEF PollReturns, others, engine
  <2>2. wpc' \in {"done", "loop", "work"} /\ (wpc' = "work" => queue # <<>>)
    BY <1>7 DEF PollReturns
  <2>3. CASE queue = <<>>
    BY <1>1, <1>7, <2>1, <2>2, <2>3 DEF PollReturns, Types, TypeOK, memory, local, HasRoom
  <2>4. CASE queue # <<>>
    <3>1. /\ wmsg' \in Messages
          /\ queue' \in Seq(Messages)
          /\ Len(queue') = Len(queue) - 1
      BY <1>2, <1>7, <2>4, QueueParts DEF PollReturns
    <3>2. Len(queue') <= MaxDepth /\ (HasRoom => HasRoom')
      BY <1>2, <3>1, PluginConstants DEF HasRoom
    <3> QED BY <1>1, <2>1, <2>2, <3>1, <3>2 DEF Types, TypeOK, memory, local
  <2> QED BY <2>3, <2>4
<1> QED BY <1>3, <1>4, <1>5, <1>6, <1>7 DEF Moves

LEMMA ProcessesTypes ==
  ASSUME Types, InOrder, Processes
  PROVE  Types'
<1>1. /\ wpc = "work" /\ wpc' = "loop"
      /\ wmsg \in Messages /\ wmsg.ts <= ts
      /\ UNCHANGED <<ts, event, active, epc, emsg, behind, running, stopper, queue, wmsg>>
  BY ProcessesTakes
<1> DEFINE c == wmsg.cam
<1>2. c \in Cameras /\ wmsg.ts \in 0 .. ts
  BY <1>1 DEF Messages, Types, TypeOK
<1> HIDE DEF c
<1>3. CASE ProcessStart
  <2>1. /\ buffered' = [buffered EXCEPT ![c] = NoMsg]
        /\ lastPeriodic' = [lastPeriodic EXCEPT ![c] = wmsg.ts]
        /\ lastProcessed' = [lastProcessed EXCEPT ![c] = wmsg.ts]
        /\ detections' = [detections EXCEPT ![c] = <<wmsg>>]
        /\ UNCHANGED <<written, threw>>
    BY <1>3 DEF ProcessStart, StartsAnew, c
  <2>2. <<wmsg>> \in Seq(Messages)
    BY <1>1
  <2>3. detections' \in [Cameras -> Seq(Messages)]
    BY <1>2, <2>1, <2>2 DEF Types
  <2> QED BY <1>1, <1>2, <2>1, <2>3 DEF Types, TypeOK, HasRoom
<1>4. CASE ProcessPeriodic
  <2>1. /\ lastProcessed' = [lastProcessed EXCEPT ![c] = wmsg.ts]
        /\ detections' = [detections EXCEPT ![c] = Append(detections[c], wmsg)]
        /\ UNCHANGED <<buffered, lastPeriodic, written, threw>>
    BY <1>4 DEF ProcessPeriodic, c
  <2>2. Append(detections[c], wmsg) \in Seq(Messages)
    BY <1>1, <1>2 DEF Types
  <2>3. detections' \in [Cameras -> Seq(Messages)]
    BY <1>2, <2>1, <2>2 DEF Types
  <2> QED BY <1>1, <1>2, <2>1, <2>3 DEF Types, TypeOK, HasRoom
<1>5. CASE ProcessEnd
  <2>1. /\ buffered' = [buffered EXCEPT ![c] = NoMsg]
        /\ lastPeriodic' = [lastPeriodic EXCEPT ![c] = None]
    BY <1>5 DEF ProcessEnd, c
  <2>2. All(c) \in Seq(Messages) /\ All(c) # <<>>
    BY <1>1, <1>2, AllFrames
  <2>3. /\ buffered' \in [Cameras -> Messages \cup {NoMsg}]
        /\ \A d \in Cameras : buffered'[d] # NoMsg => buffered'[d].evt = "update"
        /\ lastPeriodic' \in [Cameras -> 0 .. ts \cup {None}]
    BY <1>2, <2>1 DEF Types, TypeOK
  <2>4. CASE /\ written' = [written EXCEPT ![c] = Append(written[c], All(c))]
             /\ detections' = [detections EXCEPT ![c] = <<>>]
             /\ lastProcessed' = [lastProcessed EXCEPT ![c] = None]
             /\ UNCHANGED threw
    <3>1. written[c] \in Seq(Seq(Messages))
      BY <1>2 DEF Types
    <3>2. /\ Append(written[c], All(c)) \in Seq(Seq(Messages))
          /\ \A i \in DOMAIN Append(written[c], All(c)) :
               \/ i \in DOMAIN written[c] /\ Append(written[c], All(c))[i] = written[c][i]
               \/ Append(written[c], All(c))[i] = All(c)
      BY <2>2, <3>1
    <3>3. written' \in [Cameras -> Seq(Seq(Messages))]
      BY <1>2, <2>4, <3>2 DEF Types
    <3>4. \A d \in Cameras : \A i \in DOMAIN written'[d] : written'[d][i] # <<>>
      BY <1>2, <2>2, <2>4, <3>2 DEF Types
    <3>5. detections' \in [Cameras -> Seq(Messages)]
      BY <1>2, <2>4 DEF Types
    <3>6. lastProcessed' \in [Cameras -> 0 .. ts \cup {None}]
      BY <1>2, <2>4 DEF Types, TypeOK
    <3> QED BY <1>1, <2>3, <2>4, <3>3, <3>4, <3>5, <3>6 DEF Types, TypeOK, HasRoom
  <2>5. CASE /\ threw' = TRUE
             /\ detections' = [detections EXCEPT ![c] = All(c)]
             /\ UNCHANGED <<written, lastProcessed>>
    <3>1. detections' \in [Cameras -> Seq(Messages)]
      BY <1>2, <2>2, <2>5 DEF Types
    <3> QED BY <1>1, <2>3, <2>5, <3>1 DEF Types, TypeOK, HasRoom
  <2> QED BY <1>5, <2>4, <2>5 DEF ProcessEnd, Forgotten, All, c
<1> QED BY <1>3, <1>4, <1>5 DEF Processes

-----------------------------------------------------------------------------
(* The order of the messages.                                              *)

LEMMA TodoTimes ==
  ASSUME Types
  PROVE  /\ Todo \subseteq Messages
         /\ \A i \in DOMAIN queue : queue[i] \in Todo
         /\ wpc = "work" => wmsg \in Todo
         /\ epc # "idle" => emsg \in Todo
BY DEF Todo, Types, ToSet

LEMMA OrderKept ==
  ASSUME Types, Types', InOrder, [Next]_vars
  PROVE  InOrder'
<1>1. ASSUME NEW c \in Cameras, Posts(c)
      PROVE  InOrder'
  <2>1. /\ ts' = ts + 1 /\ emsg'.ts = ts' /\ ts \in Nat
        /\ Todo' \subseteq Todo \cup {emsg'}
        /\ UNCHANGED <<wpc, wmsg, queue>>
    BY <1>1, PostsAdd, PluginConstants DEF plugin, Types, TypeOK
  <2>2. ASSUME NEW p \in Todo'
        PROVE  p.ts <= ts'
    <3>1. CASE p \in Todo
      BY <2>1, <3>1, TodoTimes DEF InOrder, Messages
    <3> QED BY <2>1, <3>1
  <2>3. ASSUME NEW p \in Todo
        PROVE  p.ts < emsg'.ts
    BY <2>1, TodoTimes DEF InOrder, Messages
  <2>4. \A i \in DOMAIN queue' : queue'[i].ts < emsg'.ts
    BY <2>1, <2>3, TodoTimes
  <2>5. wpc' = "work" => wmsg'.ts < emsg'.ts
    BY <2>1, <2>3, TodoTimes
  <2> QED BY <2>1, <2>2, <2>4, <2>5 DEF InOrder
<1>2. CASE Moves
  <2>1. /\ UNCHANGED <<ts, emsg>>
        /\ \A p \in Todo' : p.ts <= ts'
    BY <1>2, MovesKeep DEF InOrder
  <2>2. CASE CheckRoom
    BY <2>1, <2>2 DEF CheckRoom, plugin, InOrder
  <2>3. CASE Enqueue
    <3>1. /\ emsg \in Messages /\ queue \in Seq(Messages)
          /\ queue' = Append(queue, emsg)
          /\ epc = "post" /\ epc' = "idle"
          /\ UNCHANGED <<wpc, wmsg>>
      BY <2>3 DEF Enqueue, Types
    <3>2. Len(queue) \in Nat /\ DOMAIN queue = 1 .. Len(queue)
      BY <3>1
    <3>3. /\ DOMAIN queue' = 1 .. (Len(queue) + 1)
          /\ \A i \in 1 .. Len(queue) : queue'[i] = queue[i]
          /\ queue'[Len(queue) + 1] = emsg
      BY <3>1, Appended
    <3>4. ASSUME NEW i \in DOMAIN queue', NEW j \in DOMAIN queue', i < j
          PROVE  queue'[i].ts < queue'[j].ts
      <4>1. i \in 1 .. Len(queue)
        BY <3>2, <3>3, <3>4
      <4>2. CASE j \in 1 .. Len(queue)
        BY <3>2, <3>3, <3>4, <4>1, <4>2 DEF InOrder
      <4>3. CASE j = Len(queue) + 1
        BY <3>1, <3>2, <3>3, <4>1, <4>3 DEF InOrder
      <4> QED BY <3>2, <3>3, <4>2, <4>3
    <3>5. ASSUME wpc' = "work", NEW i \in DOMAIN queue'
          PROVE  wmsg'.ts < queue'[i].ts
      <4>1. CASE i \in 1 .. Len(queue)
        BY <3>1, <3>2, <3>3, <3>5, <4>1 DEF InOrder
      <4>2. CASE i = Len(queue) + 1
        BY <3>1, <3>3, <3>5, <4>2 DEF InOrder
      <4> QED BY <3>2, <3>3, <4>1, <4>2
    <3> QED BY <2>1, <3>1, <3>4, <3>5 DEF InOrder
  <2>4. CASE ClearRunning \/ WakeQueue \/ Join \/ UNCHANGED vars
    BY <2>1, <2>4 DEF ClearRunning, WakeQueue, Join, vars, shared, engine, InOrder
  <2>5. CASE LoopTest \/ PollWaits
    BY <2>1, <2>5 DEF LoopTest, PollWaits, others, engine, InOrder
  <2>6. CASE PollReturns
    <3>1. UNCHANGED <<epc, emsg>>
      BY <2>6 DEF PollReturns, others, engine
    <3>2. CASE queue = <<>>
      BY <2>1, <2>6, <3>1, <3>2 DEF PollReturns, InOrder
    <3>3. CASE queue # <<>>
      <4>1. /\ queue' = Tail(queue) /\ wmsg' = queue[1] /\ 1 \in DOMAIN queue
            /\ queue \in Seq(Messages)
            /\ \A i \in DOMAIN queue' : i + 1 \in DOMAIN queue /\ queue'[i] = queue[i + 1]
            /\ \A i \in DOMAIN queue' : i \in Nat \ {0}
        BY <2>6, <3>3, QueueParts DEF PollReturns, Types
      <4>2. \A i, j \in DOMAIN queue' : i < j => queue'[i].ts < queue'[j].ts
        <5> TAKE i, j \in DOMAIN queue'
        <5> HAVE i < j
        <5>1. i + 1 < j + 1
          BY <4>1
        <5> QED BY <4>1, <5>1 DEF InOrder
      <4>3. \A i \in DOMAIN queue' : wmsg'.ts < queue'[i].ts
        <5> TAKE i \in DOMAIN queue'
        <5>1. 1 < i + 1
          BY <4>1
        <5> QED BY <4>1, <5>1 DEF InOrder
      <4>4. epc' # "idle" => wmsg'.ts < emsg'.ts /\ \A i \in DOMAIN queue' : queue'[i].ts < emsg'.ts
        BY <3>1, <4>1 DEF InOrder
      <4> QED BY <2>1, <4>2, <4>3, <4>4 DEF InOrder
    <3> QED BY <3>2, <3>3
  <2> QED BY <1>2, <2>2, <2>3, <2>4, <2>5, <2>6 DEF Moves
<1>3. CASE Processes
  <2>1. /\ wpc' = "loop"
        /\ UNCHANGED <<ts, epc, emsg, queue>>
        /\ Todo' \subseteq Todo
    BY <1>3, ProcessesTakes
  <2> QED BY <2>1 DEF InOrder
<1> QED BY <1>1, <1>2, <1>3, Steps

-----------------------------------------------------------------------------
(* What was written is older than what is kept and what is to come.        *)

LEMMA BeforeKept ==
  ASSUME Types, Types', InOrder, WrittenBefore, [Next]_vars
  PROVE  WrittenBefore'
<1>1. ASSUME NEW b \in Cameras, Posts(b), NEW c \in Cameras, NEW i \in DOMAIN written'[c]
      PROVE  Before(Last(written[c][i]), i, c)'
  <2>0. PICK f : f = Last(written[c][i])
    OBVIOUS
  <2>1. /\ ts' = ts + 1 /\ emsg'.ts = ts' /\ ts \in Nat
        /\ Todo' \subseteq Todo \cup {emsg'}
        /\ UNCHANGED <<written, detections>>
    <3>1. /\ ts' = ts + 1 /\ emsg'.ts = ts'
          /\ Todo' \subseteq Todo \cup {emsg'}
          /\ UNCHANGED plugin
      BY <1>1, PostsAdd
    <3>2. ts \in Nat
      BY PluginConstants DEF Types, TypeOK
    <3> QED BY <3>1, <3>2 DEF plugin, local
  <2>2. Before(f, i, c)
    BY <1>1, <2>0, <2>1 DEF WrittenBefore
  <2>3. f \in Messages
    BY <1>1, <2>0, <2>1 DEF Types, Last
  <2>4. f.ts \in Nat /\ f.ts <= ts' /\ f.ts < ts'
    BY <2>1, <2>2, <2>3 DEF Before, Messages
  <2>5. buffered'[c] = buffered[c] \/ buffered'[c] = emsg'
    BY <1>1 DEF Posts, PostStart, PostUpdate, PostEnd, PostStopped, Types
  <2>6. Before(f, i, c)'
    BY <2>1, <2>2, <2>4, <2>5 DEF Before
  <2> QED BY <2>0, <2>1, <2>6 DEF Before
<1>2. CASE Moves
  BY <1>2, MovesKeep DEF memory, local, WrittenBefore, Before
<1>3. CASE Processes
  <2>1. /\ wpc = "work" /\ wmsg \in Messages /\ wmsg.ts <= ts
        /\ UNCHANGED ts
        /\ Todo = Todo' \cup {wmsg}
        /\ \A p \in Todo' : wmsg.ts < p.ts
    BY <1>3, ProcessesTakes
  <2>2. PICK a \in Cameras : a = wmsg.cam
    BY <2>1 DEF Messages
  <2>3. CASE ProcessStart \/ ProcessPeriodic
    <3>1. /\ UNCHANGED written
          /\ \A c \in Cameras :
               \A d \in ToSet(detections'[c]) : d \in ToSet(detections[c]) \/ (c = a /\ d = wmsg)
          /\ \A c \in Cameras : buffered'[c] = buffered[c] \/ buffered'[c] = NoMsg
      <4>1. CASE ProcessStart
        BY <2>1, <2>2, <4>1, OneFrame DEF ProcessStart, StartsAnew, Types
      <4>2. CASE ProcessPeriodic
        <5>1. /\ detections' = [detections EXCEPT ![a] = Append(detections[a], wmsg)]
              /\ UNCHANGED <<written, buffered>>
          BY <2>2, <4>2 DEF ProcessPeriodic
        <5>2. ToSet(Append(detections[a], wmsg)) = ToSet(detections[a]) \cup {wmsg}
          BY <2>1, <2>2, Appended DEF Types
        <5> QED BY <2>2, <5>1, <5>2 DEF Types
      <4> QED BY <2>3, <4>1, <4>2
    <3>2. ASSUME NEW c \in Cameras, NEW i \in DOMAIN written[c]
          PROVE  Before(Last(written[c][i]), i, c)'
      <4>0. PICK f : f = Last(written[c][i])
        OBVIOUS
      <4>1. Before(f, i, c)
        BY <4>0 DEF WrittenBefore
      <4>2. f.ts < wmsg.ts
        BY <2>1, <4>1 DEF Before
      <4>3. Before(f, i, c)'
        BY <2>1, <3>1, <4>1, <4>2 DEF Before
      <4> QED BY <4>0, <3>1, <4>3 DEF Before
    <3> QED BY <3>1, <3>2 DEF WrittenBefore
  <2>4. CASE ProcessEnd
    <3>1. /\ buffered' = [buffered EXCEPT ![a] = NoMsg]
          /\ \/ /\ written' = [written EXCEPT ![a] = Append(written[a], All(a))]
                /\ detections' = [detections EXCEPT ![a] = <<>>]
             \/ /\ detections' = [detections EXCEPT ![a] = All(a)]
                /\ UNCHANGED written
      BY <2>2, <2>4 DEF ProcessEnd, Forgotten, All
    <3>2. /\ All(a) \in Seq(Messages)
          /\ Last(All(a)) = wmsg
          /\ \A d \in ToSet(All(a)) :
               \/ d \in ToSet(detections[a])
               \/ d = buffered[a] /\ buffered[a] # NoMsg
               \/ d = wmsg
      BY <2>1, <2>2, AllFrames
    <3>3. ASSUME NEW i \in DOMAIN written[a], NEW d \in ToSet(All(a))
          PROVE  Last(written[a][i]).ts < d.ts
      <4>1. Before(Last(written[a][i]), i, a)
        BY <2>2 DEF WrittenBefore
      <4> QED BY <2>1, <3>2, <4>1 DEF Before
    <3>4. \A c \in Cameras : buffered'[c] = buffered[c] \/ buffered'[c] = NoMsg
      BY <3>1 DEF Types
    <3>5. CASE /\ detections' = [detections EXCEPT ![a] = All(a)]
               /\ UNCHANGED written
      <4>1. ASSUME NEW c \in Cameras, NEW i \in DOMAIN written[c]
            PROVE  Before(Last(written[c][i]), i, c)'
        <5>0. PICK f : f = Last(written[c][i])
          OBVIOUS
        <5>1. Before(f, i, c)
          BY <5>0 DEF WrittenBefore
        <5>2. \A d \in ToSet(detections'[c]) : f.ts < d.ts
          BY <2>2, <3>3, <3>5, <5>0, <5>1 DEF Before, Types
        <5>3. Before(f, i, c)'
          BY <2>1, <3>4, <3>5, <5>1, <5>2 DEF Before
        <5> QED BY <5>0, <3>5, <5>3 DEF Before
      <4> QED BY <3>5, <4>1 DEF WrittenBefore
    <3>6. CASE /\ written' = [written EXCEPT ![a] = Append(written[a], All(a))]
               /\ detections' = [detections EXCEPT ![a] = <<>>]
      <4>0. PICK n \in Nat : n = Len(written[a])
        BY <2>2 DEF Types
      <4>1. written[a] \in Seq(Seq(Messages)) /\ DOMAIN written[a] = 1 .. n
        BY <2>2, <4>0 DEF Types
      <4>2. /\ DOMAIN written'[a] = 1 .. (n + 1)
            /\ \A i \in 1 .. n : written'[a][i] = written[a][i]
            /\ written'[a][n + 1] = All(a)
        <5>1. written'[a] = Append(written[a], All(a))
          BY <2>2, <3>6 DEF Types
        <5> QED BY <3>2, <4>0, <4>1, <5>1
      <4>3. \A c \in Cameras : c # a => written'[c] = written[c]
        BY <2>2, <3>6 DEF Types
      <4>4. \A c \in Cameras : ToSet(detections'[c]) \subseteq ToSet(detections[c])
        BY <2>2, <3>6, EmptySequence DEF Types
      <4>5. ASSUME NEW c \in Cameras, NEW i \in DOMAIN written[c]
            PROVE  /\ written'[c][i] = written[c][i]
                   /\ Before(Last(written[c][i]), i, c)'
        <5>0. PICK f : f = Last(written[c][i])
          OBVIOUS
        <5>1. Before(f, i, c)
          BY <5>0 DEF WrittenBefore
        <5>2. ASSUME NEW j \in DOMAIN written'[c], i < j, NEW d \in ToSet(written'[c][j])
              PROVE  f.ts < d.ts
          <6>1. CASE j \in DOMAIN written[c] /\ written'[c][j] = written[c][j]
            BY <5>1, <5>2, <6>1 DEF Before
          <6>2. CASE c = a /\ j = n + 1
            BY <3>3, <4>2, <5>0, <5>2, <6>2
          <6> QED BY <4>1, <4>2, <4>3, <6>1, <6>2
        <5>3. written'[c][i] = written[c][i]
          BY <4>1, <4>2, <4>3
        <5>4. Before(f, i, c)'
          BY <2>1, <3>4, <4>4, <5>1, <5>2 DEF Before
        <5> QED BY <5>0, <5>3, <5>4 DEF Before
      <4>6. Before(wmsg, n + 1, a)'
        <5>1. detections'[a] = <<>> /\ buffered'[a] = NoMsg
          BY <2>2, <3>1, <3>6 DEF Types
        <5>2. \A j \in DOMAIN written'[a] : ~(n + 1 < j)
          BY <4>1, <4>2
        <5>3. wmsg.ts <= ts' /\ \A p \in Todo' : wmsg.ts < p.ts
          BY <2>1
        <5>4. UNCHANGED wmsg
          BY <2>4 DEF ProcessEnd
        <5> QED BY <5>1, <5>2, <5>3, <5>4, EmptySequence DEF Before
      <4>7. Last(written'[a][n + 1]) = wmsg /\ UNCHANGED wmsg
        BY <2>4, <3>2, <4>2 DEF ProcessEnd
      <4> QED
        <5> SUFFICES ASSUME NEW c \in Cameras, NEW i \in DOMAIN written'[c]
                     PROVE  Before(Last(written[c][i]), i, c)'
          BY DEF WrittenBefore
        <5>1. CASE i \in DOMAIN written[c]
          BY <4>5, <5>1
        <5>2. CASE c = a /\ i = n + 1
          BY <4>6, <4>7, <5>2
        <5> QED BY <4>1, <4>2, <4>3, <5>1, <5>2
    <3> QED BY <3>1, <3>5, <3>6
  <2> QED BY <1>3, <2>3, <2>4 DEF Processes
<1> QED BY <1>1, <1>2, <1>3, Steps DEF WrittenBefore

-----------------------------------------------------------------------------
(* Detections are of different frames.                                     *)

LEMMA AllInjective ==
  ASSUME Types, DetectedOnce, ~threw, wpc = "work", wmsg.evt = "end",
         NEW c \in Cameras
  PROVE  IsInjective(All(c))
<1>1. detections[c] \in Seq(Messages) /\ wmsg \in Messages
  BY DEF Types
<1>2. IsInjective(detections[c])
  BY DEF DetectedOnce
<1>3. ASSUME NEW f \in ToSet(detections[c])
      PROVE  f.ts <= lastProcessed[c] /\ f.ts < wmsg.ts
  BY TodoTimes DEF DetectedOnce
<1>4. wmsg \notin ToSet(detections[c])
  <2>1. wmsg.ts \in Nat
    BY <1>1 DEF Messages
  <2> QED BY <1>3, <2>1
<1>5. CASE Middle(c) = <<>>
  <2>1. All(c) = detections[c] \o <<wmsg>>
    BY <1>1, <1>5 DEF All
  <2> QED BY <1>1, <1>2, <1>4, <2>1, OneMore
<1>6. CASE /\ Middle(c) = <<buffered[c]>>
           /\ buffered[c] # NoMsg
           /\ buffered[c] \in Messages
           /\ buffered[c].ts > lastProcessed[c]
  <2>1. buffered[c] \notin ToSet(detections[c])
    <3>1. buffered[c].ts \in Nat /\ lastProcessed[c] \in Int
      BY <1>6 DEF Types, TypeOK, Messages, None
    <3> QED BY <1>3, <1>6, <3>1
  <2>2. buffered[c] # wmsg
    BY <1>6 DEF Types
  <2> DEFINE s == detections[c] \o <<buffered[c]>>
  <2>3. /\ s \in Seq(Messages)
        /\ IsInjective(s)
        /\ \A f \in ToSet(s) : f \in ToSet(detections[c]) \/ f = buffered[c]
    BY <1>1, <1>2, <1>6, <2>1, OneMore
  <2>4. All(c) = s \o <<wmsg>>
    BY <1>6 DEF All
  <2> HIDE DEF s
  <2>5. wmsg \notin ToSet(s)
    BY <1>4, <2>2, <2>3
  <2> QED BY <1>1, <2>3, <2>4, <2>5, OneMore
<1> QED BY <1>5, <1>6, MiddleFrame

LEMMA OnceKept ==
  ASSUME Types, Types', InOrder, DetectedOnce, [Next]_vars
  PROVE  DetectedOnce'
<1>1. ASSUME NEW b \in Cameras, Posts(b), ~threw', NEW c \in Cameras,
             NEW f \in ToSet(detections'[c])
      PROVE  f.ts <= lastProcessed'[c] /\ \A p \in Todo' : f.ts < p.ts
  <2>1. /\ ts' = ts + 1 /\ emsg'.ts = ts'
        /\ Todo' \subseteq Todo \cup {emsg'}
        /\ UNCHANGED plugin
    BY <1>1, PostsAdd
  <2>2. UNCHANGED <<detections, lastProcessed, threw>>
    BY <2>1 DEF plugin, local
  <2>3. f.ts <= lastProcessed[c] /\ \A p \in Todo : f.ts < p.ts
    BY <1>1, <2>2 DEF DetectedOnce
  <2>4. f \in Messages
    BY <1>1, <2>2 DEF Types, ToSet
  <2>5. f.ts \in Nat /\ ts \in Nat /\ lastProcessed[c] \in Int /\ lastProcessed[c] <= ts
    <3>1. f.ts \in Nat
      BY <2>4 DEF Messages
    <3>2. ts \in 0 .. MaxTs /\ lastProcessed[c] \in 0 .. ts \cup {None}
      BY DEF Types, TypeOK
    <3>3. ts \in Nat
      BY <3>2, PluginConstants
    <3> QED BY <3>1, <3>2, <3>3 DEF None
  <2>6. f.ts < emsg'.ts
    BY <2>1, <2>3, <2>5
  <2> QED BY <2>1, <2>2, <2>3, <2>6
<1>2. ASSUME NEW b \in Cameras, Posts(b)
      PROVE  DetectedOnce'
  <2>1. UNCHANGED plugin
    BY <1>2, PostsAdd
  <2>2. UNCHANGED <<detections, written, threw>>
    BY <2>1 DEF plugin, local
  <2> QED BY <1>1, <1>2, <2>2 DEF DetectedOnce
<1>3. CASE Moves
  BY <1>3, MovesKeep DEF memory, local, DetectedOnce
<1>4. CASE Processes
  <2>1. /\ wpc = "work" /\ wmsg \in Messages
        /\ Todo = Todo' \cup {wmsg}
        /\ \A p \in Todo' : wmsg.ts < p.ts
    BY <1>4, ProcessesTakes
  <2>2. PICK a \in Cameras : a = wmsg.cam
    BY <2>1 DEF Messages
  <2>3. wmsg.ts \in Nat
    BY <2>1 DEF Messages
  <2> SUFFICES ASSUME ~threw'
               PROVE  DetectedOnce'
    BY DEF DetectedOnce
  <2>4. CASE ProcessStart
    <3>1. /\ detections' = [detections EXCEPT ![a] = <<wmsg>>]
          /\ lastProcessed' = [lastProcessed EXCEPT ![a] = wmsg.ts]
          /\ UNCHANGED <<written, threw>>
      BY <2>2, <2>4 DEF ProcessStart, StartsAnew
    <3>2. ASSUME NEW c \in Cameras
          PROVE  /\ IsInjective(detections'[c])
                 /\ \A f \in ToSet(detections'[c]) :
                      f.ts <= lastProcessed'[c] /\ \A p \in Todo' : f.ts < p.ts
                 /\ \A i \in DOMAIN written'[c] : IsInjective(written'[c][i])
      <4>1. CASE c # a
        BY <2>1, <3>1, <4>1 DEF DetectedOnce, Types, TypeOK
      <4>2. CASE c = a
        <5>1. detections'[c] = <<wmsg>> /\ lastProcessed'[c] = wmsg.ts
          BY <2>2, <3>1, <4>2 DEF Types, TypeOK
        <5> QED BY <2>1, <2>3, <3>1, <5>1, OneFrame DEF DetectedOnce
      <4> QED BY <4>1, <4>2
    <3> QED BY <3>2 DEF DetectedOnce
  <2>5. CASE ProcessPeriodic
    <3>1. /\ detections' = [detections EXCEPT ![a] = Append(detections[a], wmsg)]
          /\ lastProcessed' = [lastProcessed EXCEPT ![a] = wmsg.ts]
          /\ UNCHANGED <<written, threw>>
      BY <2>2, <2>5 DEF ProcessPeriodic
    <3>2. ASSUME NEW c \in Cameras
          PROVE  /\ IsInjective(detections'[c])
                 /\ \A f \in ToSet(detections'[c]) :
                      f.ts <= lastProcessed'[c] /\ \A p \in Todo' : f.ts < p.ts
                 /\ \A i \in DOMAIN written'[c] : IsInjective(written'[c][i])
      <4>1. CASE c # a
        BY <2>1, <3>1, <4>1 DEF DetectedOnce, Types, TypeOK
      <4>2. CASE c = a
        <5>1. detections'[c] = Append(detections[c], wmsg) /\ lastProcessed'[c] = wmsg.ts
          BY <2>2, <3>1, <4>2 DEF Types, TypeOK
        <5>2. detections[c] \in Seq(Messages)
          BY DEF Types
        <5>3. /\ IsInjective(detections[c])
              /\ \A f \in ToSet(detections[c]) :
                   f.ts < wmsg.ts /\ \A p \in Todo' : f.ts < p.ts
          BY <2>1, <3>1 DEF DetectedOnce
        <5>4. wmsg \notin ToSet(detections[c])
          BY <2>3, <5>3
        <5>5. /\ Append(detections[c], wmsg) = detections[c] \o <<wmsg>>
              /\ ToSet(Append(detections[c], wmsg)) = ToSet(detections[c]) \cup {wmsg}
          BY <2>1, <5>2, Appended
        <5>6. IsInjective(detections[c] \o <<wmsg>>)
          BY <2>1, <5>2, <5>3, <5>4, OneMore
        <5>7. IsInjective(detections'[c])
          BY <5>1, <5>5, <5>6
        <5>8. ASSUME NEW f \in ToSet(detections[c])
              PROVE  f.ts <= wmsg.ts
          <6>1. f \in Messages
            BY <5>2 DEF ToSet
          <6> QED BY <2>3, <5>3, <6>1 DEF Messages
        <5>9. ASSUME NEW f \in ToSet(detections'[c])
              PROVE  f.ts <= lastProcessed'[c] /\ \A p \in Todo' : f.ts < p.ts
          <6>1. CASE f = wmsg
            BY <2>1, <2>3, <5>1, <6>1
          <6>2. CASE f \in ToSet(detections[c])
            BY <5>1, <5>3, <5>8, <6>2
          <6> QED BY <5>1, <5>5, <6>1, <6>2
        <5> QED BY <3>1, <5>7, <5>9 DEF DetectedOnce
      <4> QED BY <4>1, <4>2
    <3> QED BY <3>2 DEF DetectedOnce
  <2>6. CASE ProcessEnd
    <3>1. /\ written' = [written EXCEPT ![a] = Append(written[a], All(a))]
          /\ detections' = [detections EXCEPT ![a] = <<>>]
          /\ lastProcessed' = [lastProcessed EXCEPT ![a] = None]
          /\ UNCHANGED threw
      BY <2>2, <2>6 DEF ProcessEnd, Forgotten, All
    <3>2. IsInjective(All(a)) /\ All(a) \in Seq(Messages)
      BY <2>1, <2>6, <3>1, AllInjective, AllFrames DEF ProcessEnd, Working
    <3>3. ASSUME NEW c \in Cameras
          PROVE  /\ IsInjective(detections'[c])
                 /\ \A f \in ToSet(detections'[c]) :
                      f.ts <= lastProcessed'[c] /\ \A p \in Todo' : f.ts < p.ts
                 /\ \A i \in DOMAIN written'[c] : IsInjective(written'[c][i])
      <4>1. CASE c # a
        BY <2>1, <3>1, <4>1 DEF DetectedOnce, Types, TypeOK
      <4>2. CASE c = a
        <5>1. detections'[c] = <<>> /\ written'[c] = Append(written[c], All(c))
          BY <2>2, <3>1, <4>2 DEF Types, TypeOK
        <5>2. written[c] \in Seq(Seq(Messages))
          BY DEF Types
        <5>3. \A i \in DOMAIN written'[c] :
                \/ i \in DOMAIN written[c] /\ written'[c][i] = written[c][i]
                \/ written'[c][i] = All(c)
          BY <3>2, <4>2, <5>1, <5>2
        <5>4. \A i \in DOMAIN written[c] : IsInjective(written[c][i])
          BY <3>1 DEF DetectedOnce
        <5> QED BY <3>2, <4>2, <5>1, <5>3, <5>4, EmptySequence
      <4> QED BY <4>1, <4>2
    <3> QED BY <3>3 DEF DetectedOnce
  <2> QED BY <1>4, <2>4, <2>5, <2>6 DEF Processes
<1> QED BY <1>2, <1>3, <1>4, Steps

-----------------------------------------------------------------------------
(* A worker that keeps up mixes no events.                                 *)

LEMMA NothingWaits ==
  ASSUME Types, CaughtUp, epc = "idle"
  PROVE  Todo = {}
BY EmptySequence DEF CaughtUp, Todo

LEMMA PostsOwn ==
  ASSUME Types, InOrder, KeepsUp, OwnFramesOnly, NEW b \in Cameras, Posts(b)
  PROVE  KeepsUp' /\ OwnFramesOnly'
<1> SUFFICES ASSUME ~behind'
             PROVE  KeepsUp' /\ OwnFramesOnly'
  BY DEF KeepsUp, OwnFramesOnly
<1>1. /\ emsg' \in Messages /\ emsg'.cam = b /\ emsg'.ev = event'[b]
      /\ Todo' \subseteq Todo \cup {emsg'}
      /\ epc' = "idle" => Todo' = Todo
      /\ epc = "idle" /\ epc' \in {"idle", "check"}
      /\ UNCHANGED plugin
  BY PostsAdd
<1>2. UNCHANGED <<running, queue, wpc, detections, written>>
  BY <1>1 DEF plugin, local
<1>3. PICK evt \in {"start", "update", "end"} : Message(b, evt)
  BY DEF Posts, PostStart, PostUpdate, PostEnd, PostStopped
<1>4. ~behind /\ CaughtUp
  BY <1>3 DEF Message
<1>5. Todo = {} /\ queue = <<>> /\ wpc # "work"
  BY <1>1, <1>4, NothingWaits DEF CaughtUp
<1>6. OwnFramesOnly'
  BY <1>2, <1>4 DEF OwnFramesOnly
<1>7. ASSUME NEW c \in Cameras
      PROVE  OwnKept(c)'
  <2>1. CASE ~running
    <3>1. epc' = "idle"
      BY <1>1, <2>1 DEF Posts, PostStart, PostUpdate, PostEnd, PostStopped
    <3> QED BY <1>1, <1>2, <1>5, <2>1, <3>1 DEF OwnKept
  <2>2. CASE running
    <3>1. /\ \A f \in ToSet(detections[c]) : f.ev = event[c]
          /\ buffered[c] # NoMsg => buffered[c].ev = event[c]
      BY <1>4, <1>5, <2>2 DEF KeepsUp, OwnKept
    <3>2. CASE PostStart(b) /\ c = b
      <4>1. emsg'.evt = "start" /\ epc' = "check"
        BY <3>2 DEF PostStart, Message
      <4>2. emsg' \in Todo'
        BY <4>1 DEF Todo
      <4> QED BY <1>1, <3>2, <4>1, <4>2 DEF OwnKept
    <3>3. CASE PostStart(b) /\ c # b
      <4>1. event'[c] = event[c] /\ buffered'[c] = buffered[c]
        BY <3>3 DEF PostStart, Message, Types
      <4> QED BY <1>2, <3>1, <4>1 DEF OwnKept
    <3>4. CASE PostEnd(b)
      <4>1. event' = event /\ buffered' = buffered
        BY <3>4 DEF PostEnd, Message
      <4> QED BY <1>2, <3>1, <4>1 DEF OwnKept
    <3>5. CASE PostUpdate(b)
      <4>1. event' = event /\ buffered' = [buffered EXCEPT ![b] = emsg']
        BY <3>5 DEF PostUpdate, Message
      <4>2. buffered'[c] = buffered[c] \/ (c = b /\ buffered'[c] = emsg')
        BY <4>1 DEF Types
      <4> QED BY <1>1, <1>2, <3>1, <4>1, <4>2 DEF OwnKept
    <3> QED BY <2>2, <3>2, <3>3, <3>4, <3>5 DEF Posts, PostStopped
  <2> QED BY <2>1, <2>2
<1>8. Len(queue') <= 1
  BY <1>2, <1>5
<1>9. \A p \in Todo' : p.ev = event'[p.cam]
  BY <1>1, <1>5
<1> QED BY <1>2, <1>5, <1>6, <1>7, <1>8, <1>9 DEF KeepsUp

LEMMA MovesOwn ==
  ASSUME Types, KeepsUp, OwnFramesOnly, Moves
  PROVE  KeepsUp' /\ OwnFramesOnly'
<1>1. /\ UNCHANGED <<event, behind, emsg, memory>>
      /\ Todo' \subseteq Todo
      /\ ~running => ~running'
      /\ running' /\ ~CheckRoom => Todo' = Todo
  BY MovesKeep
<1>2. UNCHANGED <<detections, buffered, written>>
  BY <1>1 DEF memory, local
<1>3. OwnFramesOnly'
  BY <1>1, <1>2 DEF OwnFramesOnly
<1> SUFFICES ASSUME ~behind, ~behind'
             PROVE  KeepsUp'
  BY <1>1, <1>3 DEF KeepsUp
<1>4. /\ Len(queue) <= 1
      /\ wpc = "work" => queue = <<>> /\ epc = "idle"
      /\ epc # "idle" => queue = <<>>
      /\ \A p \in Todo : p.ev = event[p.cam]
      /\ \A c \in Cameras : OwnKept(c)
  BY DEF KeepsUp
<1>5. queue \in Seq(Messages)
  BY DEF Types
<1>6. /\ Len(queue') <= 1
      /\ wpc' = "work" => queue' = <<>> /\ epc' = "idle"
      /\ epc' # "idle" => queue' = <<>>
      /\ Todo' = Todo \/ (Todo' = {} /\ ~running')
  <2>1. CASE CheckRoom
    <3>1. queue = <<>> /\ Len(queue) = 0 /\ epc = "check"
      BY <1>4, <2>1 DEF CheckRoom
    <3>2. HasRoom
      BY <3>1, PluginConstants DEF HasRoom
    <3>3. epc' = "post" /\ UNCHANGED <<wpc, wmsg, queue, emsg>>
      BY <2>1, <3>2 DEF CheckRoom, plugin
    <3>4. Todo' = Todo
      BY <3>1, <3>3 DEF Todo
    <3> QED BY <1>4, <3>1, <3>3, <3>4
  <2>2. CASE Enqueue
    <3>1. /\ epc = "post" /\ epc' = "idle"
          /\ queue' = Append(queue, emsg)
          /\ UNCHANGED <<wpc, wmsg, running>>
      BY <2>2 DEF Enqueue
    <3>2. queue = <<>> /\ wpc # "work" /\ emsg \in Messages
      BY <1>4, <3>1 DEF Types
    <3>3. Len(queue') = 1
      BY <3>1, <3>2
    <3>4. Todo' = Todo
      <4>1. ToSet(queue') = ToSet(queue) \cup {emsg}
        BY <1>5, <3>1, <3>2, Appended
      <4> QED BY <3>1, <4>1 DEF Todo
    <3> QED BY <3>1, <3>2, <3>3, <3>4
  <2>3. CASE ClearRunning \/ WakeQueue \/ Join \/ UNCHANGED vars
    BY <1>4, <2>3 DEF ClearRunning, WakeQueue, Join, vars, shared, engine, Todo
  <2>4. CASE LoopTest \/ PollWaits
    BY <1>4, <2>4 DEF LoopTest, PollWaits, others, engine, Todo
  <2>5. CASE PollReturns
    <3>1. UNCHANGED <<epc, emsg, running>>
      BY <2>5 DEF PollReturns, others, engine
    <3>2. CASE queue = <<>>
      <4>1. queue' = <<>> /\ wpc # "work" /\ wpc' # "work"
        BY <2>5, <3>2 DEF PollReturns
      <4>2. Todo' = Todo
        BY <3>1, <3>2, <4>1 DEF Todo
      <4> QED BY <1>4, <3>1, <3>2, <4>1, <4>2
    <3>3. CASE queue # <<>>
      <4>1. queue' = Tail(queue) /\ Len(queue') = Len(queue) - 1 /\ queue' \in Seq(Messages)
        BY <1>5, <2>5, <3>3, QueueParts DEF PollReturns
      <4>2. queue' = <<>> /\ Len(queue') = 0
        BY <1>4, <1>5, <3>3, <4>1
      <4>3. epc' = "idle"
        BY <1>4, <3>1, <3>3
      <4>4. CASE running
        BY <1>1, <2>5, <3>1, <4>2, <4>3, <4>4 DEF PollReturns, CheckRoom
      <4>5. CASE ~running
        <5>1. wpc' = "done"
          BY <2>5, <4>5 DEF PollReturns
        <5>2. Todo' = {}
          BY <4>2, <4>3, <5>1, EmptySequence DEF Todo
        <5> QED BY <3>1, <4>2, <4>3, <4>5, <5>1, <5>2
      <4> QED BY <4>4, <4>5
    <3> QED BY <3>2, <3>3
  <2> QED BY <2>1, <2>2, <2>3, <2>4, <2>5 DEF Moves
<1>7. ASSUME NEW c \in Cameras
      PROVE  OwnKept(c)'
  BY <1>1, <1>2, <1>4, <1>6 DEF OwnKept
<1> QED BY <1>1, <1>4, <1>6, <1>7 DEF KeepsUp

LEMMA ProcessesOwn ==
  ASSUME Types, InOrder, KeepsUp, OwnFramesOnly, Processes
  PROVE  KeepsUp' /\ OwnFramesOnly'
<1>1. /\ wpc = "work" /\ wpc' = "loop"
      /\ wmsg \in Messages
      /\ UNCHANGED <<event, epc, emsg, behind, queue, wmsg>>
      /\ Todo = Todo' \cup {wmsg}
  BY ProcessesTakes
<1> SUFFICES ASSUME ~behind, ~behind'
             PROVE  KeepsUp' /\ OwnFramesOnly'
  BY <1>1 DEF KeepsUp, OwnFramesOnly
<1>2. queue = <<>> /\ epc = "idle"
  BY <1>1 DEF KeepsUp
<1>3. Todo' = {} /\ Todo = {wmsg}
  BY <1>1, <1>2, EmptySequence DEF Todo
<1>4. PICK a \in Cameras : a = wmsg.cam
  BY <1>1 DEF Messages
<1>5. wmsg.ev = event[a]
  BY <1>3, <1>4 DEF KeepsUp
<1>6. ASSUME NEW c \in Cameras, c # a \/ wmsg.evt # "start"
      PROVE  /\ \A f \in ToSet(detections[c]) : f.ev = event[c]
             /\ buffered[c] # NoMsg => buffered[c].ev = event[c]
  BY <1>3, <1>4, <1>6 DEF KeepsUp, OwnKept
<1>7. ASSUME \A c \in Cameras :
               /\ \A f \in ToSet(detections'[c]) : f.ev = event[c]
               /\ buffered'[c] # NoMsg => buffered'[c].ev = event[c]
      PROVE  KeepsUp'
  <2>1. \A c \in Cameras : OwnKept(c)'
    BY <1>1, <1>7 DEF OwnKept
  <2>2. Len(queue') <= 1
    BY <1>1, <1>2
  <2> QED BY <1>1, <1>2, <1>3, <2>1, <2>2 DEF KeepsUp
<1>8. CASE ProcessStart
  <2>1. /\ buffered' = [buffered EXCEPT ![a] = NoMsg]
        /\ detections' = [detections EXCEPT ![a] = <<wmsg>>]
        /\ UNCHANGED written
    BY <1>4, <1>8 DEF ProcessStart, StartsAnew
  <2>2. ASSUME NEW c \in Cameras
        PROVE  /\ \A f \in ToSet(detections'[c]) : f.ev = event[c]
               /\ buffered'[c] # NoMsg => buffered'[c].ev = event[c]
    <3>1. CASE c # a
      BY <1>6, <2>1, <3>1 DEF Types
    <3>2. CASE c = a
      <4>1. detections'[c] = <<wmsg>> /\ buffered'[c] = NoMsg
        BY <2>1, <3>2 DEF Types
      <4> QED BY <1>1, <1>5, <3>2, <4>1, OneFrame
    <3> QED BY <3>1, <3>2
  <2> QED BY <1>7, <2>1, <2>2 DEF OwnFramesOnly
<1>9. CASE ProcessPeriodic
  <2>1. /\ detections' = [detections EXCEPT ![a] = Append(detections[a], wmsg)]
        /\ UNCHANGED <<buffered, written>>
        /\ wmsg.evt = "update"
    BY <1>4, <1>9 DEF ProcessPeriodic, Working
  <2>2. ASSUME NEW c \in Cameras
        PROVE  /\ \A f \in ToSet(detections'[c]) : f.ev = event[c]
               /\ buffered'[c] # NoMsg => buffered'[c].ev = event[c]
    <3>1. CASE c # a
      BY <1>6, <2>1, <3>1 DEF Types
    <3>2. CASE c = a
      <4>1. detections'[c] = Append(detections[c], wmsg) /\ detections[c] \in Seq(Messages)
        BY <2>1, <3>2 DEF Types
      <4>2. ToSet(detections'[c]) = ToSet(detections[c]) \cup {wmsg}
        BY <1>1, <4>1, Appended
      <4> QED BY <1>5, <1>6, <2>1, <3>2, <4>2
    <3> QED BY <3>1, <3>2
  <2> QED BY <1>7, <2>1, <2>2 DEF OwnFramesOnly
<1>10. CASE ProcessEnd
  <2>1. /\ buffered' = [buffered EXCEPT ![a] = NoMsg]
        /\ wmsg.evt = "end"
        /\ \/ /\ written' = [written EXCEPT ![a] = Append(written[a], All(a))]
              /\ detections' = [detections EXCEPT ![a] = <<>>]
           \/ /\ detections' = [detections EXCEPT ![a] = All(a)]
              /\ UNCHANGED written
    BY <1>4, <1>10 DEF ProcessEnd, Working, Forgotten, All
  <2>2. /\ All(a) \in Seq(Messages)
        /\ Last(All(a)) = wmsg
        /\ \A f \in ToSet(All(a)) :
             \/ f \in ToSet(detections[a])
             \/ f = buffered[a] /\ buffered[a] # NoMsg
             \/ f = wmsg
    BY <1>1, AllFrames
  <2>3. \A f \in ToSet(All(a)) : f.ev = event[a]
    BY <1>5, <1>6, <2>1, <2>2
  <2>4. ASSUME NEW c \in Cameras
        PROVE  /\ \A f \in ToSet(detections'[c]) : f.ev = event[c]
               /\ buffered'[c] # NoMsg => buffered'[c].ev = event[c]
    <3>1. buffered'[c] = buffered[c] \/ buffered'[c] = NoMsg
      BY <2>1 DEF Types
    <3>2. \/ detections'[c] = detections[c]
          \/ detections'[c] = <<>>
          \/ c = a /\ detections'[c] = All(a)
      BY <2>1 DEF Types
    <3> QED BY <1>6, <2>1, <2>3, <3>1, <3>2, EmptySequence
  <2>5. CASE UNCHANGED written
    BY <1>7, <2>4, <2>5 DEF OwnFramesOnly
  <2>6. CASE written' = [written EXCEPT ![a] = Append(written[a], All(a))]
    <3>1. ASSUME NEW c \in Cameras, NEW i \in DOMAIN written'[c]
          PROVE  \/ i \in DOMAIN written[c] /\ written'[c][i] = written[c][i]
                 \/ written'[c][i] = All(a)
      <4>1. written[a] \in Seq(Seq(Messages))
        BY DEF Types
      <4>2. CASE c # a
        BY <2>6, <3>1, <4>2 DEF Types
      <4>3. CASE c = a
        <5>1. written'[c] = Append(written[a], All(a))
          BY <2>6, <4>3 DEF Types
        <5> QED BY <2>2, <3>1, <4>1, <4>3, <5>1
      <4> QED BY <4>2, <4>3
    <3>2. OwnFramesOnly'
      <4> SUFFICES ASSUME NEW c \in Cameras, NEW i \in DOMAIN written'[c],
                          NEW f \in ToSet(written'[c][i])
                   PROVE  f.ev = Last(written'[c][i]).ev
        BY DEF OwnFramesOnly
      <4>1. CASE i \in DOMAIN written[c] /\ written'[c][i] = written[c][i]
        BY <4>1 DEF OwnFramesOnly
      <4>2. CASE written'[c][i] = All(a)
        BY <1>5, <2>2, <2>3, <4>2
      <4> QED BY <3>1, <4>1, <4>2
    <3> QED BY <1>7, <2>4, <3>2
  <2> QED BY <2>1, <2>5, <2>6
<1> QED BY <1>8, <1>9, <1>10 DEF Processes

-----------------------------------------------------------------------------
(* The theorems.                                                           *)

LEMMA InitInvariant == Init => IInv
<1> SUFFICES ASSUME Init
             PROVE  IInv
  OBVIOUS
<1>1. Types
  BY InitTypes
<1>2. /\ queue = <<>> /\ wpc = "loop" /\ epc = "idle"
      /\ \A c \in Cameras :
           detections[c] = <<>> /\ written[c] = <<>> /\ buffered[c] = NoMsg
  BY DEF Init, Each
<1>3. Todo = {}
  BY <1>2, EmptySequence DEF Todo
<1>4. InOrder
  BY <1>2, <1>3 DEF InOrder
<1>5. WrittenBefore /\ OwnFramesOnly
  BY <1>2 DEF WrittenBefore, OwnFramesOnly
<1>6. DetectedOnce
  BY <1>2, EmptySequence DEF DetectedOnce
<1>7. KeepsUp
  <2>1. \A c \in Cameras : OwnKept(c)
    BY <1>2, EmptySequence DEF OwnKept
  <2>2. Len(queue) <= 1
    BY <1>2
  <2> QED BY <1>2, <1>3, <2>1, <2>2 DEF KeepsUp
<1> QED BY <1>1, <1>4, <1>5, <1>6, <1>7 DEF IInv

LEMMA NextInvariant ==
  ASSUME IInv, [Next]_vars
  PROVE  IInv'
<1>1. Types'
  BY Steps, PostsTypes, MovesTypes, ProcessesTypes DEF IInv
<1>2. InOrder' /\ WrittenBefore' /\ DetectedOnce'
  BY <1>1, OrderKept, BeforeKept, OnceKept DEF IInv
<1>3. KeepsUp' /\ OwnFramesOnly'
  BY Steps, PostsOwn, MovesOwn, ProcessesOwn DEF IInv
<1> QED BY <1>1, <1>2, <1>3 DEF IInv

\* The inductive invariant holds in every reachable state, whatever the cameras,
\* the depth of the queue, the interval of the periodic frames and the messages.
THEOREM Invariance == Spec => []IInv
<1>1. Init => IInv
  BY InitInvariant
<1>2. IInv /\ [Next]_vars => IInv'
  BY NextInvariant
<1> QED BY <1>1, <1>2, PTL DEF Spec

\* Every reachable state is type correct; in particular post_motion_event never
\* lets the queue grow beyond MAX_QUEUE_DEPTH, although size() and post() take
\* its lock one after the other.
THEOREM TypeCorrect == Spec => []TypeOK
<1>1. IInv => TypeOK
  BY DEF IInv, Types
<1> QED BY <1>1, Invariance, PTL

\* What the plugin writes at the ENDs of a camera grows from one to the next, and
\* as long as every write succeeds no frame counts twice in one of them.
THEOREM WrittenOnce == Spec => []EachFrameWrittenOnce
<1>1. IInv => EachFrameWrittenOnce
  <2> SUFFICES ASSUME IInv
               PROVE  EachFrameWrittenOnce
    OBVIOUS
  <2>1. ASSUME NEW c \in Cameras, ~threw, NEW i \in DOMAIN written[c]
        PROVE  IsInjective(written[c][i])
    BY <2>1 DEF IInv, DetectedOnce
  <2>2. ASSUME NEW c \in Cameras, NEW i \in DOMAIN written[c], NEW j \in DOMAIN written[c],
               i < j, NEW f \in ToSet(written[c][j])
        PROVE  f.ts > Last(written[c][i]).ts
    <3>1. Before(Last(written[c][i]), i, c)
      BY DEF IInv, WrittenBefore
    <3>2. Last(written[c][i]).ts < f.ts
      BY <2>2, <3>1 DEF Before
    <3> QED BY <3>2
  <2> QED BY <2>1, <2>2 DEF EachFrameWrittenOnce
<1> QED BY <1>1, Invariance, PTL

\* While the worker is done whenever a message comes, what is written at an END is
\* of frames of the event that ended, also when writes throw or ENDs are missing.
THEOREM NoEventsMixed == Spec => []OwnFramesOnly
<1>1. IInv => OwnFramesOnly
  BY DEF IInv
<1> QED BY <1>1, Invariance, PTL

=============================================================================
