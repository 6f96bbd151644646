-------------------------- MODULE Discovery_proofs --------------------------
(***************************************************************************)
(* For any number of cameras and every bound: the table has what the agent *)
(* remembers of a camera, and a camera that the wizard assigned has a url. *)
(*                                                                         *)
(* Both are about commands that wait in the queue.  The first holds since  *)
(* the latest partial update of a camera there carries the remembered hash *)
(* so that the table has it when the last one was executed; the second,    *)
(* since the main thread posts one command and waits for the answer to it, *)
(* behind the full update that precedes it.                                *)
(***************************************************************************)
EXTENDS Discovery, FiniteSetTheorems, SequenceTheorems, TLAPS

-----------------------------------------------------------------------------
(* The invariant.                                                          *)

\* Rows as the database and the window hold them, and rows of camera c: their
\* addresses are addresses c has or had.
Addresses == {None} \cup 0 .. MaxMoves

AllRows ==
  [addr : Addresses, url : Addresses, state : {"none", "discovered", "assigned"},
   full : BOOLEAN]

Fits(a, c) == a \in {None} \cup 0 .. net[c]

RowFits(row, c) ==
  /\ row \in AllRows
  /\ Fits(row.addr, c) /\ Fits(row.url, c)
  /\ (row.state = "none") <=> (row = NoRow)

\* Commands as they are posted.
Configs == [addr : Addresses, url : Addresses, full : BOOLEAN]
Commands ==
  [op : {"update"}, by : {"nobody"}, cam : {None}, configs : UNION {[D -> Configs] : D \in SUBSET Cams}]
    \cup [op : {"get"}, by : {"agent", "ui"}, cam : Cams]
    \cup [op : {"save"}, by : {"ui"}, cam : Cams, row : AllRows]
    \cup [op : {"remove"}, by : {"ui"}, cam : Cams]

CommandFits(cmd) ==
  /\ cmd.op = "update" =>
       \A c \in DOMAIN cmd.configs :
         /\ cmd.configs[c].addr \in 0 .. net[c]
         /\ Fits(cmd.configs[c].url, c)
         /\ cmd.configs[c].full => cmd.configs[c].url # None
  /\ cmd.op = "save" =>
       RowFits(cmd.row, cmd.cam) /\ cmd.row.state # "none" /\ cmd.row.full

Waits == DOMAIN After

UiSteps ==
  Waits \cup {"idle", "credentials", "waiting", "wizard", "dialog", "error", "picked", "found",
              "forgetting", "stopping", "closing", "ended"}

\* Steps of the main thread that are about the camera ui.cam.
OfCamera == {"opening", "picking", "finding", "removing", "picked", "found", "forgetting"}

Types ==
  /\ count \in [moves : Nat, fails : Nat, crashes : Nat, flows : Nat, lost : BOOLEAN]
  /\ net \in [Cams -> Nat] /\ \A c \in Cams : net[c] <= count.moves
  /\ count.moves <= MaxMoves
  /\ hashes \in [Cams -> Addresses] /\ probed \in [Cams -> Addresses] /\ rows \in [Cams -> AllRows]
  /\ \A c \in Cams : Fits(hashes[c], c) /\ Fits(probed[c], c) /\ RowFits(rows[c], c)
  /\ queue \in Seq(Commands)
  /\ \A i \in 1 .. Len(queue) : CommandFits(queue[i])

AgentTypes ==
  /\ agent \in [at : {"asleep", "polling", "asking", "ended"},
                found : UNION {[D -> 0 .. MaxMoves] : D \in SUBSET Cams}, todo : SUBSET Cams]
  /\ \A c \in DOMAIN agent.found : agent.found[c] \in 0 .. net[c]

WindowTypes ==
  /\ \A i \in DOMAIN items : items[i] \in Cams
  /\ listed \subseteq Cams
  /\ ui \in [at : UiSteps, cam : Cams \cup {None}, sel : Int, named : Cams \cup {None},
             snap : AllRows, forced : BOOLEAN]
  /\ ui.at \in OfCamera => ui.cam \in Cams
  /\ ui.at = "picked" => RowFits(ui.snap, ui.cam)
  /\ wizard \in [cam : Cams \cup {None}, snap : AllRows, probes : Nat, late : BOOLEAN]
  /\ wizard.cam = None => (wizard.snap = NoRow /\ ui.at # "reading")
  /\ (wizard.cam # None /\ ui.at # "reading") => RowFits(wizard.snap, wizard.cam)

\* The main thread waits for this command.
Meant(cmd) ==
  /\ ui.at \in Waits
  /\ (ui.at = "saving") <=> (cmd.op = "save")
  /\ (ui.at = "removing") <=> (cmd.op = "remove")
  /\ ui.at \in {"reading", "probing"} => cmd.cam = wizard.cam
  /\ ui.at \in OfCamera => cmd.cam = ui.cam

\* At most one command of the agent is in the queue, while it asks, and one of
\* the main thread, which is what it waits for.
Asked ==
  /\ \A i, j \in 1 .. Len(queue) :
       i # j => queue[i].by # queue[j].by \/ queue[i].by = "nobody"
  /\ \A i \in 1 .. Len(queue) :
       /\ queue[i].by = "agent" => agent.at = "asking"
       /\ queue[i].by = "ui" => Meant(queue[i])

FewUpdates ==
  /\ Cardinality(Updates) <= MaxUpdates + 1
  /\ agent.at \in {"polling", "asking"} => Cardinality(Updates) <= MaxUpdates

\* The latest update of the agent about c, of those in the queue.
Partial(i, c) ==
  queue[i].op = "update" /\ c \in DOMAIN queue[i].configs /\ ~queue[i].configs[c].full

LatestIsKnown ==
  \A c \in Cams : hashes[c] # None =>
    \A i \in 1 .. Len(queue) :
      Partial(i, c) /\ (\A j \in 1 .. Len(queue) : i < j => ~Partial(j, c))
        => queue[i].configs[c].addr = hashes[c]

\* Rows that are, or may become, those of an assigned camera have its url.
AssignedHasUrl(row) == row.state = "assigned" => row.url # None

UrlKept ==
  ~wizard.late =>
    /\ \A c \in Cams : AssignedHasUrl(rows[c])
    /\ AssignedHasUrl(ui.snap)
    /\ \A i \in 1 .. Len(queue) : queue[i].op = "save" => AssignedHasUrl(queue[i].row)
    /\ ui.at \in {"waiting", "wizard"} => wizard.snap.url # None

IInv ==
  /\ Types /\ AgentTypes /\ WindowTypes
  /\ Asked /\ FewUpdates /\ LatestIsKnown /\ KnownIsStored /\ UrlKept

-----------------------------------------------------------------------------
(* Commands, and the queue when one is appended or the first is taken.     *)

LEMMA CommandShape ==
  ASSUME NEW cmd \in Commands
  PROVE  /\ cmd.op \in {"update", "get", "save", "remove"}
         /\ cmd.by \in {"nobody", "agent", "ui"}
         /\ cmd.op = "update" <=> cmd.by = "nobody"
         /\ cmd.op = "update" => cmd.cam = None
         /\ cmd.op = "update" => \E D \in SUBSET Cams : cmd.configs \in [D -> Configs]
         /\ cmd.op # "update" => cmd.cam \in Cams
         /\ cmd.by = "agent" => cmd.op = "get"
         /\ cmd.op = "save" => cmd.row \in AllRows
<1>1. CASE cmd \in [op : {"update"}, by : {"nobody"}, cam : {None},
                    configs : UNION {[D -> Configs] : D \in SUBSET Cams}]
  <2>1. cmd.op = "update" /\ cmd.by = "nobody" /\ cmd.cam = None
    BY <1>1
  <2>2. cmd.configs \in UNION {[D -> Configs] : D \in SUBSET Cams}
    BY <1>1
  <2> QED
    BY <2>1, <2>2
<1>2. CASE cmd \in [op : {"get"}, by : {"agent", "ui"}, cam : Cams]
  BY <1>2
<1>3. CASE cmd \in [op : {"save"}, by : {"ui"}, cam : Cams, row : AllRows]
  BY <1>3
<1>4. CASE cmd \in [op : {"remove"}, by : {"ui"}, cam : Cams]
  BY <1>4
<1> QED
  BY <1>1, <1>2, <1>3, <1>4 DEF Commands

LEMMA CamsNotNone == None \notin Cams /\ Cams \subseteq Nat
BY DEF None, Cams

LEMMA QueueShape ==
  ASSUME Types
  PROVE  /\ queue \in Seq(Commands) /\ Len(queue) \in Nat
         /\ DOMAIN queue = 1 .. Len(queue)
         /\ \A i \in 1 .. Len(queue) : queue[i] \in Commands
         /\ Updates = {i \in 1 .. Len(queue) : queue[i].op = "update"}
<1>1. queue \in Seq(Commands)
  BY DEF Types
<1>2. Len(queue) \in Nat /\ DOMAIN queue = 1 .. Len(queue)
  BY <1>1
<1>3. \A i \in 1 .. Len(queue) : queue[i] \in Commands
  BY <1>1
<1> QED
  BY <1>1, <1>2, <1>3 DEF Updates

LEMMA UpdatesFinite ==
  ASSUME Types
  PROVE  IsFiniteSet(Updates) /\ Cardinality(Updates) \in Nat
<1>1. Len(queue) \in Nat /\ Updates \in SUBSET (1 .. Len(queue))
  BY QueueShape
<1>2. IsFiniteSet(1 .. Len(queue))
  BY <1>1, FS_Interval
<1> QED
  BY <1>1, <1>2, FS_Subset, FS_CardinalityType

LEMMA AppendedCommand ==
  ASSUME NEW q \in Seq(Commands), NEW cmd \in Commands
  PROVE  /\ Append(q, cmd) \in Seq(Commands)
         /\ Len(Append(q, cmd)) = Len(q) + 1
         /\ \A i \in 1 .. Len(q) : Append(q, cmd)[i] = q[i]
         /\ Append(q, cmd)[Len(q) + 1] = cmd
  BY AppendProperties

\* The queue grew by n commands.
Grew(n) ==
  /\ queue' \in Seq(Commands) /\ Len(queue') = Len(queue) + n
  /\ \A i \in 1 .. Len(queue) : queue'[i] = queue[i]

LEMMA GrewShape ==
  ASSUME Types, NEW n \in Nat, Grew(n)
  PROVE  /\ Len(queue) \in Nat /\ Len(queue') \in Nat /\ Len(queue') = Len(queue) + n
         /\ DOMAIN queue = 1 .. Len(queue) /\ DOMAIN queue' = 1 .. Len(queue')
         /\ \A i \in 1 .. Len(queue) : i \in 1 .. Len(queue') /\ queue'[i] = queue[i]
         /\ \A i \in 1 .. Len(queue') :
              i \in 1 .. Len(queue) \/ i \in Len(queue) + 1 .. Len(queue) + n
         /\ Updates = {i \in 1 .. Len(queue) : queue[i].op = "update"}
         /\ Updates' = {i \in 1 .. Len(queue') : queue'[i].op = "update"}
<1>1. /\ Len(queue) \in Nat /\ DOMAIN queue = 1 .. Len(queue)
      /\ Updates = {i \in 1 .. Len(queue) : queue[i].op = "update"}
  BY QueueShape
<1>2. Len(queue') \in Nat /\ DOMAIN queue' = 1 .. Len(queue')
  BY DEF Grew
<1>3. Updates' = {i \in 1 .. Len(queue') : queue'[i].op = "update"}
  BY <1>2 DEF Updates
<1>4. Len(queue') = Len(queue) + n /\ \A i \in 1 .. Len(queue) : queue'[i] = queue[i]
  BY DEF Grew
<1>5. \A i \in 1 .. Len(queue) : i \in 1 .. Len(queue')
  BY <1>1, <1>4
<1>6. \A i \in 1 .. Len(queue') :
        i \in 1 .. Len(queue) \/ i \in Len(queue) + 1 .. Len(queue) + n
  BY <1>1, <1>4
<1> QED
  BY <1>1, <1>2, <1>3, <1>4, <1>5, <1>6

\* What is on its way to the table stays so.
LEMMA GrewUnderway ==
  ASSUME Types, NEW n \in Nat, Grew(n), NEW c \in Cams, Underway(c)
  PROVE  Underway(c)'
<1>1. PICK i \in Updates : c \in DOMAIN queue[i].configs /\ ~queue[i].configs[c].full
  BY DEF Underway
<1>2. i \in Updates' /\ queue'[i] = queue[i]
  BY <1>1, GrewShape
<1> QED
  BY <1>1, <1>2 DEF Underway

\* Commands that are not partial updates leave the latest ones the latest.
LEMMA GrewLatest ==
  ASSUME Types, LatestIsKnown, NEW n \in Nat, Grew(n), hashes' = hashes,
         \A i \in Len(queue) + 1 .. Len(queue) + n : \A c \in Cams : ~Partial(i, c)'
  PROVE  LatestIsKnown'
<1> SUFFICES ASSUME NEW c \in Cams, hashes[c] # None, NEW i \in 1 .. Len(queue'),
                    Partial(i, c)',
                    \A j \in 1 .. Len(queue') : i < j => ~Partial(j, c)'
             PROVE  queue'[i].configs[c].addr = hashes[c]
  BY DEF LatestIsKnown
<1>1. i \in 1 .. Len(queue)
  BY GrewShape
<1>2. \A j \in 1 .. Len(queue) : Partial(j, c)' <=> Partial(j, c)
  BY GrewShape DEF Partial
<1>3. \A j \in 1 .. Len(queue) : i < j => ~Partial(j, c)
  BY <1>2, GrewShape
<1>4. queue[i].configs[c].addr = hashes[c]
  BY <1>1, <1>2, <1>3 DEF LatestIsKnown
<1> QED
  BY <1>1, <1>4, GrewShape

LEMMA GrewFinite ==
  ASSUME Types, NEW n \in Nat, Grew(n)
  PROVE  IsFiniteSet(Updates') /\ Cardinality(Updates') \in Nat
<1>1. Len(queue') \in Nat /\ Updates' \in SUBSET (1 .. Len(queue'))
  BY GrewShape
<1>2. IsFiniteSet(1 .. Len(queue'))
  BY <1>1, FS_Interval
<1> QED
  BY <1>1, <1>2, FS_Subset, FS_CardinalityType

LEMMA GrewUpdates ==
  ASSUME Types, NEW n \in Nat, Grew(n)
  PROVE  /\ (\A i \in Len(queue) + 1 .. Len(queue) + n : queue'[i].op # "update")
              => Cardinality(Updates') = Cardinality(Updates)
         /\ \A u \in Len(queue) + 1 .. Len(queue) + n :
              (\A i \in Len(queue) + 1 .. Len(queue) + n : i # u => queue'[i].op # "update")
                => Cardinality(Updates') <= Cardinality(Updates) + 1
<1>1. ASSUME \A i \in Len(queue) + 1 .. Len(queue) + n : queue'[i].op # "update"
      PROVE  Cardinality(Updates') = Cardinality(Updates)
  <2>1. \A i : i \in Updates' <=> i \in Updates
    BY <1>1, GrewShape
  <2>2. Updates' = Updates
    BY <2>1
  <2> QED
    BY <2>2
<1>2. ASSUME NEW u \in Len(queue) + 1 .. Len(queue) + n,
             \A i \in Len(queue) + 1 .. Len(queue) + n : i # u => queue'[i].op # "update"
      PROVE  Cardinality(Updates') <= Cardinality(Updates) + 1
  <2>1. \A i \in Updates' : i \in Updates \/ i = u
    BY <1>2, GrewShape
  <2>2. Updates' \in SUBSET (Updates \cup {u})
    BY <2>1
  <2>3. /\ IsFiniteSet(Updates \cup {u})
        /\ Cardinality(Updates \cup {u}) =
             IF u \in Updates THEN Cardinality(Updates) ELSE Cardinality(Updates) + 1
    BY UpdatesFinite, FS_AddElement
  <2>4. IsFiniteSet(Updates') /\ Cardinality(Updates') <= Cardinality(Updates \cup {u})
    BY <2>2, <2>3, FS_Subset
  <2>5. Cardinality(Updates') \in Nat /\ Cardinality(Updates) \in Nat
    BY <2>4, UpdatesFinite, FS_CardinalityType
  <2> QED
    BY <2>3, <2>4, <2>5
<1> QED
  BY <1>1, <1>2

\* The first command was taken.
Took == queue # << >> /\ queue' = Tail(queue)

LEMMA TookShape ==
  ASSUME Types, Took
  PROVE  /\ Head(queue) \in Commands /\ Head(queue) = queue[1] /\ 1 \in 1 .. Len(queue)
         /\ queue' \in Seq(Commands)
         /\ Len(queue) \in Nat /\ Len(queue') \in Nat /\ Len(queue') = Len(queue) - 1
         /\ DOMAIN queue = 1 .. Len(queue) /\ DOMAIN queue' = 1 .. Len(queue')
         /\ \A i \in 1 .. Len(queue') : i + 1 \in 1 .. Len(queue) /\ queue'[i] = queue[i + 1]
         /\ \A i \in 1 .. Len(queue) :
              i = 1 \/ (i - 1 \in 1 .. Len(queue') /\ queue'[i - 1] = queue[i])
         /\ Updates = {i \in 1 .. Len(queue) : queue[i].op = "update"}
         /\ Updates' = {i \in 1 .. Len(queue') : queue'[i].op = "update"}
<1>1. /\ queue \in Seq(Commands) /\ Len(queue) \in Nat /\ DOMAIN queue = 1 .. Len(queue)
      /\ Updates = {i \in 1 .. Len(queue) : queue[i].op = "update"}
  BY QueueShape
<1>2. /\ Head(queue) \in Commands /\ Tail(queue) \in Seq(Commands)
      /\ Len(Tail(queue)) = Len(queue) - 1
      /\ \A i \in 1 .. Len(Tail(queue)) : Tail(queue)[i] = queue[i + 1]
  BY <1>1, HeadTailProperties DEF Took
<1>3. Head(queue) = queue[1] /\ Len(queue) # 0
  BY <1>1 DEF Took
<1>4. /\ queue' \in Seq(Commands) /\ Len(queue') = Len(queue) - 1
      /\ \A i \in 1 .. Len(queue') : queue'[i] = queue[i + 1]
  BY <1>2 DEF Took
<1>5. Len(queue') \in Nat /\ DOMAIN queue' = 1 .. Len(queue')
  BY <1>4
<1>6. Updates' = {i \in 1 .. Len(queue') : queue'[i].op = "update"}
  BY <1>5 DEF Updates
<1>7. \A i \in 1 .. Len(queue') : i + 1 \in 1 .. Len(queue)
  BY <1>1, <1>4
<1>8. ASSUME NEW i \in 1 .. Len(queue), i # 1
      PROVE  i - 1 \in 1 .. Len(queue') /\ queue'[i - 1] = queue[i]
  <2>1. i - 1 \in 1 .. Len(queue') /\ (i - 1) + 1 = i
    BY <1>1, <1>4, <1>8
  <2> QED
    BY <2>1, <1>4
<1>9. 1 \in 1 .. Len(queue)
  BY <1>1, <1>3
<1> QED
  BY <1>1, <1>2, <1>3, <1>4, <1>5, <1>6, <1>7, <1>8, <1>9

LEMMA TookUnderway ==
  ASSUME Types, Took, NEW c \in Cams, Underway(c)
  PROVE  Underway(c)' \/ Partial(1, c)
<1>1. PICK i \in Updates : c \in DOMAIN queue[i].configs /\ ~queue[i].configs[c].full
  BY DEF Underway
<1>2. i \in 1 .. Len(queue) /\ queue[i].op = "update"
  BY TookShape
<1>3. CASE i = 1
  BY <1>1, <1>2, <1>3 DEF Partial
<1>4. CASE i # 1
  <2>1. i - 1 \in 1 .. Len(queue') /\ queue'[i - 1] = queue[i]
    BY <1>2, <1>4, TookShape
  <2>2. i - 1 \in Updates'
    BY <1>2, <2>1, TookShape
  <2> QED
    BY <1>1, <2>1, <2>2 DEF Underway
<1> QED
  BY <1>3, <1>4

LEMMA TookLatest ==
  ASSUME Types, LatestIsKnown, Took, hashes' = hashes
  PROVE  LatestIsKnown'
<1> SUFFICES ASSUME NEW c \in Cams, hashes[c] # None, NEW i \in 1 .. Len(queue'),
                    Partial(i, c)',
                    \A j \in 1 .. Len(queue') : i < j => ~Partial(j, c)'
             PROVE  queue'[i].configs[c].addr = hashes[c]
  BY DEF LatestIsKnown
<1>1. i + 1 \in 1 .. Len(queue) /\ queue'[i] = queue[i + 1]
  BY TookShape
<1>2. Partial(i + 1, c)
  BY <1>1 DEF Partial
<1>3. ASSUME NEW j \in 1 .. Len(queue), i + 1 < j
      PROVE  ~Partial(j, c)
  <2>1. j # 1 /\ i < j - 1
    BY <1>3
  <2>2. j - 1 \in 1 .. Len(queue') /\ queue'[j - 1] = queue[j]
    BY <2>1, TookShape
  <2>3. ~Partial(j - 1, c)'
    BY <2>1, <2>2
  <2> QED
    BY <2>2, <2>3 DEF Partial
<1> QED
  BY <1>1, <1>2, <1>3 DEF LatestIsKnown

\* The last update about c that is executed carries what is known of c.
LEMMA TookLast ==
  ASSUME Types, LatestIsKnown, Took, NEW c \in Cams, hashes[c] # None,
         Partial(1, c), ~Underway(c)'
  PROVE  queue[1].configs[c].addr = hashes[c]
<1>1. ASSUME NEW j \in 1 .. Len(queue), 1 < j, Partial(j, c)
      PROVE  FALSE
  <2>1. j # 1
    BY <1>1
  <2>2. j - 1 \in 1 .. Len(queue') /\ queue'[j - 1] = queue[j]
    BY <2>1, TookShape
  <2>3. j - 1 \in Updates'
    BY <1>1, <2>2, TookShape DEF Partial
  <2> QED
    BY <1>1, <2>2, <2>3 DEF Underway, Partial
<1> QED
  BY <1>1, TookShape DEF LatestIsKnown

LEMMA TookFinite ==
  ASSUME Types, Took
  PROVE  IsFiniteSet(Updates') /\ Cardinality(Updates') \in Nat
<1>1. Len(queue') \in Nat /\ Updates' \in SUBSET (1 .. Len(queue'))
  BY TookShape
<1>2. IsFiniteSet(1 .. Len(queue'))
  BY <1>1, FS_Interval
<1> QED
  BY <1>1, <1>2, FS_Subset, FS_CardinalityType

LEMMA TookUpdates ==
  ASSUME Types, Took
  PROVE  Cardinality(Updates') <= Cardinality(Updates)
<1> DEFINE f == [i \in Updates' |-> i + 1]
<1>1. \A i \in Updates' : i \in Nat /\ i + 1 \in Updates
  BY TookShape
<1>2. f \in [Updates' -> Updates]
  BY <1>1
<1>3. \A i, j \in Updates' : f[i] = f[j] => i = j
  BY <1>1
<1>4. f \in Injection(Updates', Updates)
  BY <1>2, <1>3 DEF Injection, IsInjective
<1> QED
  BY <1>4, UpdatesFinite, FS_Injection

\* There are few commands in the queue.
LEMMA QueueBound ==
  ASSUME Types, Asked, FewUpdates
  PROVE  Len(queue) <= MaxUpdates + 3
<1>1. PICK n \in Nat : n = Len(queue)
  BY QueueShape
<1>2. PICK a \in 0 .. n : \A i \in 1 .. n : queue[i].by = "agent" => i = a
  <2>1. CASE \E i \in 1 .. n : queue[i].by = "agent"
    <3>1. PICK i \in 1 .. n : queue[i].by = "agent"
      BY <2>1
    <3>2. \A j \in 1 .. n : queue[j].by = "agent" => j = i
      BY <1>1, <3>1 DEF Asked
    <3> QED
      BY <3>1, <3>2
  <2>2. CASE ~\E i \in 1 .. n : queue[i].by = "agent"
    <3>1. 0 \in 0 .. n
      BY <1>1
    <3> QED
      BY <2>2, <3>1
  <2> QED
    BY <2>1, <2>2
<1>3. PICK b \in 0 .. n : \A i \in 1 .. n : queue[i].by = "ui" => i = b
  <2>1. CASE \E i \in 1 .. n : queue[i].by = "ui"
    <3>1. PICK i \in 1 .. n : queue[i].by = "ui"
      BY <2>1
    <3>2. \A j \in 1 .. n : queue[j].by = "ui" => j = i
      BY <1>1, <3>1 DEF Asked
    <3> QED
      BY <3>1, <3>2
  <2>2. CASE ~\E i \in 1 .. n : queue[i].by = "ui"
    <3>1. 0 \in 0 .. n
      BY <1>1
    <3> QED
      BY <2>2, <3>1
  <2> QED
    BY <2>1, <2>2
<1>4. 1 .. n \in SUBSET ((Updates \cup {a}) \cup {b})
  <2>1. ASSUME NEW i \in 1 .. n
        PROVE  i \in Updates \/ i = a \/ i = b
    <3>1. queue[i] \in Commands
      BY <1>1, QueueShape
    <3>2. queue[i].op = "update" \/ queue[i].by \in {"agent", "ui"}
      BY <3>1, CommandShape
    <3> QED
      BY <1>1, <1>2, <1>3, <3>2, QueueShape
  <2> QED
    BY <2>1
<1>5. /\ IsFiniteSet(Updates \cup {a})
      /\ Cardinality(Updates \cup {a}) <= Cardinality(Updates) + 1
      /\ Cardinality(Updates \cup {a}) \in Nat /\ Cardinality(Updates) \in Nat
  <2>1. /\ IsFiniteSet(Updates \cup {a})
        /\ Cardinality(Updates \cup {a}) =
             IF a \in Updates THEN Cardinality(Updates) ELSE Cardinality(Updates) + 1
    BY UpdatesFinite, FS_AddElement
  <2> QED
    BY <2>1, UpdatesFinite, FS_CardinalityType
<1>6. /\ IsFiniteSet((Updates \cup {a}) \cup {b})
      /\ Cardinality((Updates \cup {a}) \cup {b}) <= Cardinality(Updates) + 2
      /\ Cardinality((Updates \cup {a}) \cup {b}) \in Nat
  <2>1. /\ IsFiniteSet((Updates \cup {a}) \cup {b})
        /\ Cardinality((Updates \cup {a}) \cup {b}) =
             IF b \in Updates \cup {a} THEN Cardinality(Updates \cup {a})
             ELSE Cardinality(Updates \cup {a}) + 1
    BY <1>5, FS_AddElement
  <2>2. Cardinality((Updates \cup {a}) \cup {b}) \in Nat
    BY <2>1, FS_CardinalityType
  <2> QED
    BY <1>5, <2>1, <2>2
<1>7. Cardinality(1 .. n) <= Cardinality((Updates \cup {a}) \cup {b})
  BY <1>4, <1>6, FS_Subset
<1>8. Cardinality(1 .. n) = n
  <2>1. 1 \in Int /\ n \in Int /\ (IF 1 > n THEN 0 ELSE n - 1 + 1) = n
    OBVIOUS
  <2> QED
    BY <2>1, FS_Interval
<1>9. Cardinality(Updates) <= MaxUpdates + 1 /\ MaxUpdates \in Nat
  BY DiscoveryConstants DEF FewUpdates
<1> QED
  BY <1>1, <1>5, <1>6, <1>7, <1>8, <1>9

-----------------------------------------------------------------------------
(* Parts of the invariant that a step leaves alone.                        *)

LEMMA TypesKept ==
  ASSUME Types, UNCHANGED <<net, hashes, probed, rows, queue>>,
         count' \in [moves : Nat, fails : Nat, crashes : Nat, flows : Nat, lost : BOOLEAN],
         count'.moves = count.moves
  PROVE  Types'
<1>1. \A i \in 1 .. Len(queue) : CommandFits(queue[i])'
  BY DEF Types, CommandFits, RowFits, Fits
<1>2. \A c \in Cams : (Fits(hashes[c], c) /\ Fits(probed[c], c) /\ RowFits(rows[c], c))'
  BY DEF Types, RowFits, Fits
<1> QED
  BY <1>1, <1>2 DEF Types

LEMMA AgentTypesKept ==
  ASSUME AgentTypes, UNCHANGED <<net, agent>>
  PROVE  AgentTypes'
BY DEF AgentTypes

LEMMA WindowTypesKept ==
  ASSUME WindowTypes, UNCHANGED <<net, items, listed, ui, wizard>>
  PROVE  WindowTypes'
BY DEF WindowTypes, RowFits, Fits

LEMMA AskedKept ==
  ASSUME Asked, UNCHANGED <<agent, queue, ui, wizard>>
  PROVE  Asked'
BY DEF Asked, Meant

LEMMA FewUpdatesKept ==
  ASSUME FewUpdates, UNCHANGED <<agent, queue>>
  PROVE  FewUpdates'
BY DEF FewUpdates, Updates

LEMMA LatestKept ==
  ASSUME LatestIsKnown, UNCHANGED <<hashes, queue>>
  PROVE  LatestIsKnown'
BY DEF LatestIsKnown, Partial

LEMMA KnownKept ==
  ASSUME KnownIsStored, UNCHANGED <<hashes, queue, rows>>,
         count'.lost = count.lost,
         ui.at = "forgetting" => ui' = ui
  PROVE  KnownIsStored'
BY DEF KnownIsStored, Underway, Updates

LEMMA UrlKeptKept ==
  ASSUME UrlKept, UNCHANGED <<rows, ui, queue, wizard>>
  PROVE  UrlKept'
BY DEF UrlKept, AssignedHasUrl

LEMMA CountKept ==
  ASSUME Types, count' = count
  PROVE  /\ count' \in [moves : Nat, fails : Nat, crashes : Nat, flows : Nat, lost : BOOLEAN]
         /\ count'.moves = count.moves /\ count'.lost = count.lost
BY DEF Types

-----------------------------------------------------------------------------
(* Steps of the main thread that post nothing.                             *)

LEMMA NotWaiting ==
  ASSUME Asked, ui.at \notin Waits, NEW i \in 1 .. Len(queue)
  PROVE  queue[i].by # "ui"
BY DEF Asked, Meant

LEMMA WaitsShape ==
  Waits = {"reading", "probing", "opening", "picking", "finding", "saving", "removing"}
BY DEF Waits, After

UiAlone == UNCHANGED <<net, hashes, agent, probed, rows, queue, count>>

LEMMA UiStep ==
  ASSUME IInv, UiAlone, ui.at \notin Waits, ui.at # "forgetting", WindowTypes', UrlKept'
  PROVE  IInv'
<1>1. Types'
  BY TypesKept, CountKept DEF IInv, UiAlone
<1>2. AgentTypes'
  BY AgentTypesKept DEF IInv, UiAlone
<1>3. Asked'
  <2>1. \A i \in 1 .. Len(queue) : queue[i].by # "ui"
    BY NotWaiting DEF IInv
  <2> QED
    BY <2>1 DEF IInv, Asked, UiAlone
<1>4. FewUpdates' /\ LatestIsKnown'
  BY FewUpdatesKept, LatestKept DEF IInv, UiAlone
<1>5. KnownIsStored'
  BY KnownKept DEF IInv, UiAlone
<1> QED
  BY <1>1, <1>2, <1>3, <1>4, <1>5 DEF IInv

LEMMA NoRowTypes ==
  /\ NoRow \in AllRows /\ NoRow.state = "none" /\ NoRow.url = None /\ AssignedHasUrl(NoRow)
  /\ \A c \in Cams : RowFits(NoRow, c)
BY DEF NoRow, AllRows, Addresses, AssignedHasUrl, RowFits, Fits

Resting(at, forced) ==
  [at |-> at, cam |-> None, sel |-> None, named |-> None, snap |-> NoRow, forced |-> forced]

LEMMA RestingTypes ==
  ASSUME NEW at \in UiSteps, NEW forced \in BOOLEAN
  PROVE  /\ Resting(at, forced) \in
              [at : UiSteps, cam : Cams \cup {None}, sel : Int,
               named : Cams \cup {None}, snap : AllRows, forced : BOOLEAN]
         /\ Resting(at, forced).at = at /\ Resting(at, forced).snap = NoRow
<1>1. NoRow \in AllRows /\ None \in Int
  BY NoRowTypes DEF None
<1> QED
  BY <1>1 DEF Resting

\* The main thread gives up, or is done, and shows nothing.
LEMMA UiRests ==
  ASSUME IInv, UiAlone, ui.at \notin Waits, ui.at # "forgetting",
         UNCHANGED <<items, listed, wizard>>,
         NEW at \in {"idle", "stopping", "closing", "ended"}, NEW forced \in BOOLEAN,
         ui' = Resting(at, forced)
  PROVE  IInv'
<1>1. /\ ui' \in [at : UiSteps, cam : Cams \cup {None}, sel : Int,
                  named : Cams \cup {None}, snap : AllRows, forced : BOOLEAN]
      /\ ui'.at = at /\ ui'.snap = NoRow
  <2>1. at \in UiSteps
    BY DEF UiSteps
  <2> QED
    BY <2>1, RestingTypes
<1>2. net' = net
  BY DEF UiAlone
<1>3. WindowTypes'
  <2>1. /\ \A i \in DOMAIN items : items[i] \in Cams
        /\ listed \subseteq Cams
        /\ wizard \in [cam : Cams \cup {None}, snap : AllRows, probes : Nat, late : BOOLEAN]
        /\ wizard.cam = None => wizard.snap = NoRow
    BY DEF IInv, WindowTypes
  <2>2. wizard.cam # None => RowFits(wizard.snap, wizard.cam)
    BY WaitsShape DEF IInv, WindowTypes
  <2>3. (wizard.cam # None => RowFits(wizard.snap, wizard.cam))'
    BY <1>2, <2>2 DEF RowFits, Fits
  <2>4. /\ ui'.at # "reading" /\ ui'.at \notin OfCamera /\ ui'.at # "picked"
    BY <1>1 DEF OfCamera
  <2> QED
    BY <1>1, <2>1, <2>3, <2>4 DEF WindowTypes
<1>4. UrlKept'
  <2>1. ui'.at \notin {"waiting", "wizard"} /\ AssignedHasUrl(ui'.snap)
    BY <1>1, NoRowTypes
  <2> QED
    BY <2>1 DEF IInv, UrlKept, UiAlone, AssignedHasUrl
<1> QED
  BY <1>3, <1>4, UiStep

LEMMA RestSteps ==
  ASSUME IInv, Cancel \/ NothingFound \/ Quit \/ AgentJoined \/ WorkerJoined
  PROVE  IInv'
<1>1. /\ UiAlone /\ UNCHANGED <<items, listed, wizard>>
      /\ ui.at \notin Waits /\ ui.at # "forgetting"
  <2>1. UiAlone /\ UNCHANGED <<items, listed, wizard>>
    BY DEF Cancel, NothingFound, Quit, AgentJoined, WorkerJoined, UiAlone, shown
  <2>2. ui.at \in {"credentials", "waiting", "wizard", "dialog", "error", "found", "picked",
                   "idle", "stopping", "closing"}
    BY DEF Cancel, NothingFound, Quit, AgentJoined, WorkerJoined, WizardActive
  <2>3. ui.at \notin Waits /\ ui.at # "forgetting"
    BY <2>2, WaitsShape
  <2> QED
    BY <2>1, <2>3
<1>2. ui.forced \in BOOLEAN
  BY DEF IInv, WindowTypes
<1>3. \/ ui' = Resting("idle", FALSE) \/ ui' = Resting("idle", ui.forced)
      \/ ui' = Resting("stopping", FALSE) \/ ui' = Resting("closing", FALSE)
      \/ ui' = Resting("ended", FALSE)
  BY DEF Cancel, NothingFound, Quit, AgentJoined, WorkerJoined, Idle, Resting
<1>4. PICK at \in {"idle", "stopping", "closing", "ended"}, forced \in BOOLEAN :
        ui' = Resting(at, forced)
  BY <1>2, <1>3
<1> QED
  BY <1>1, <1>4, UiRests

WizardSteps == {"credentials", "waiting", "wizard", "dialog", "error"}

LEMMA WizardShape ==
  /\ WizardActive <=> ui.at \in WizardSteps
  /\ WizardSteps \subseteq UiSteps
  /\ WizardSteps \cap (Waits \cup OfCamera \cup {"forgetting", "picked", "idle"}) = {}
  /\ "idle" \in UiSteps /\ "idle" \notin Waits \cup OfCamera
BY WaitsShape DEF WizardActive, WizardSteps, UiSteps, OfCamera

UiTypes == [at : UiSteps, cam : Cams \cup {None}, sel : Int, named : Cams \cup {None},
            snap : AllRows, forced : BOOLEAN]

WizardTypes == [cam : Cams \cup {None}, snap : AllRows, probes : Nat, late : BOOLEAN]

\* What is known of the window when no command concerns it.
LEMMA WindowShape ==
  ASSUME IInv
  PROVE  /\ ui \in UiTypes /\ wizard \in WizardTypes
         /\ listed \subseteq Cams /\ \A i \in DOMAIN items : items[i] \in Cams
         /\ wizard.cam = None => wizard.snap = NoRow
         /\ wizard.cam = None => ui.at # "reading"
         /\ (wizard.cam # None /\ ui.at # "reading") => RowFits(wizard.snap, wizard.cam)
BY DEF IInv, WindowTypes, UiTypes, WizardTypes

\* A window whose main thread is not about a camera.
LEMMA WindowMade ==
  ASSUME ui' \in UiTypes, wizard' \in WizardTypes,
         listed' \subseteq Cams, \A i \in DOMAIN items' : items'[i] \in Cams,
         ui'.at \notin OfCamera, ui'.at # "reading",
         wizard'.cam = None => wizard'.snap = NoRow,
         wizard'.cam # None => RowFits(wizard.snap, wizard.cam)'
  PROVE  WindowTypes'
<1>1. ui'.at # "picked"
  BY DEF OfCamera
<1> QED
  BY <1>1 DEF WindowTypes, UiTypes, WizardTypes

LEMMA RowFitsKept ==
  ASSUME net' = net, NEW row, NEW c
  PROVE  RowFits(row, c)' <=> RowFits(row, c)
BY DEF RowFits, Fits

LEMMA RanksCams ==
  ASSUME NEW S \in SUBSET Cams
  PROVE  \A i \in DOMAIN ByIdOrder(S) : ByIdOrder(S)[i] \in Cams
<1> SUFFICES ASSUME NEW i \in {Rank(S, c) : c \in S}
             PROVE  (CHOOSE c \in S : Rank(S, c) = i) \in Cams
  BY DEF ByIdOrder
<1>1. \E c \in S : Rank(S, c) = i
  OBVIOUS
<1> QED
  BY <1>1

LEMMA RefreshListsStep ==
  ASSUME IInv, RefreshLists
  PROVE  IInv'
<1>1. UiAlone /\ wizard' = wizard /\ rows' = rows /\ net' = net /\ queue' = queue
  BY DEF RefreshLists, UiAlone
<1>2. ui.at \in WizardSteps \cup {"idle"}
  BY WizardShape DEF RefreshLists
<1>3. ui.at \notin Waits /\ ui.at # "forgetting" /\ ui.at \notin OfCamera /\ ui.at # "reading"
  BY <1>2, WizardShape, WaitsShape
<1>4. ui' = [ui EXCEPT !.forced = FALSE]
  BY DEF RefreshLists
<1>5. ui' \in UiTypes /\ ui'.at = ui.at /\ ui'.snap = ui.snap
  BY <1>4, WindowShape DEF UiTypes
<1>6. \A i \in DOMAIN items' : items'[i] \in Cams
  <2>1. items' = ByIdOrder({c \in Cams : cached[c] = "assigned"})
    BY DEF RefreshLists
  <2>2. {c \in Cams : cached[c] = "assigned"} \in SUBSET Cams
    OBVIOUS
  <2> QED
    BY <2>1, <2>2, RanksCams
<1>7. listed' \subseteq Cams
  BY DEF RefreshLists
<1>8. WindowTypes'
  BY <1>1, <1>3, <1>5, <1>6, <1>7, WindowShape, WindowMade, RowFitsKept
<1>9. UrlKept'
  BY <1>1, <1>5 DEF IInv, UrlKept, AssignedHasUrl
<1> QED
  BY <1>1, <1>3, <1>8, <1>9, UiStep

\* A late answer of a camera is the one way past the reading of the row.
LEMMA ProbedStep ==
  ASSUME IInv, Probed
  PROVE  IInv'
<1>1. /\ UiAlone /\ rows' = rows /\ net' = net /\ queue' = queue
      /\ items' = items /\ listed' = listed
  BY DEF Probed, UiAlone, shown
<1>2. /\ wizard' = [wizard EXCEPT !.probes = wizard.probes - 1,
                          !.late = wizard.late \/ (WizardActive
                                                /\ (ui.at # "waiting" \/ wizard.probes > 1))]
  BY DEF Probed
<1>3. WizardActive \in BOOLEAN
  BY DEF WizardActive
<1>4. wizard' \in WizardTypes /\ wizard'.cam = wizard.cam /\ wizard'.snap = wizard.snap
  <2>1. PICK late \in BOOLEAN : wizard' = [wizard EXCEPT !.probes = wizard.probes - 1, !.late = late]
    BY <1>2, <1>3
  <2>2. wizard \in WizardTypes
    BY WindowShape
  <2>3. wizard.probes \in Nat /\ wizard.probes > 0
    BY <2>2 DEF Probed, WizardTypes
  <2>4. wizard.probes - 1 \in Nat
    <3>1. PICK p \in Nat : p = wizard.probes /\ p > 0
      BY <2>3
    <3>2. p - 1 \in Nat
      BY <3>1
    <3> QED
      BY <3>1, <3>2
  <2> QED
    BY <2>1, <2>2, <2>4 DEF WizardTypes
<1>5. wizard.late => wizard'.late
  BY <1>2, WindowShape DEF WizardTypes
<1>6. CASE WizardActive
  <2>1. ui' = [ui EXCEPT !.at = "wizard"]
    BY <1>6 DEF Probed
  <2>2. ui' \in UiTypes /\ ui'.at = "wizard" /\ ui'.snap = ui.snap
    BY <2>1, WindowShape, WizardShape DEF UiTypes, WizardSteps
  <2>3. ui.at \in WizardSteps
    BY <1>6, WizardShape
  <2>4. ui.at \notin Waits /\ ui.at # "forgetting" /\ ui.at # "reading"
    BY <2>3, WizardShape, WaitsShape
  <2>5. ui'.at \notin OfCamera /\ ui'.at # "reading"
    BY <2>2 DEF OfCamera
  <2>6. WindowTypes'
    BY <1>1, <1>4, <2>2, <2>4, <2>5, WindowShape, WindowMade, RowFitsKept
  <2>7. ~wizard'.late => ~wizard.late /\ ui.at = "waiting"
    BY <1>2, <1>6, WindowShape DEF WizardTypes
  <2>8. UrlKept'
    BY <1>1, <1>4, <2>2, <2>7 DEF IInv, UrlKept, AssignedHasUrl
  <2> QED
    BY <1>1, <2>4, <2>6, <2>8, UiStep
<1>7. CASE ~WizardActive
  <2>1. ui' = ui
    BY <1>7 DEF Probed
  <2>2. Types' /\ AgentTypes' /\ FewUpdates' /\ LatestIsKnown' /\ KnownIsStored'
    BY <1>1, <2>1, TypesKept, CountKept, AgentTypesKept, FewUpdatesKept, LatestKept, KnownKept
       DEF IInv, UiAlone
  <2>3. WindowTypes'
    BY <1>1, <1>4, <2>1 DEF IInv, WindowTypes, WizardTypes, RowFits, Fits
  <2>4. Asked'
    BY <1>1, <1>4, <2>1 DEF IInv, Asked, Meant, UiAlone
  <2>5. UrlKept'
    BY <1>1, <1>4, <1>5, <2>1 DEF IInv, UrlKept, AssignedHasUrl
  <2> QED
    BY <2>2, <2>3, <2>4, <2>5 DEF IInv
<1> QED
  BY <1>6, <1>7

LEMMA ProbeFailsStep ==
  ASSUME IInv, ProbeFails
  PROVE  IInv'
<1>1. /\ UiAlone /\ rows' = rows /\ net' = net /\ queue' = queue
      /\ items' = items /\ listed' = listed
  BY DEF ProbeFails, UiAlone, shown
<1>2. wizard' = [wizard EXCEPT !.probes = wizard.probes - 1]
  BY DEF ProbeFails
<1>3. wizard' \in WizardTypes /\ wizard'.cam = wizard.cam /\ wizard'.snap = wizard.snap /\ wizard'.late = wizard.late
  <2>1. wizard \in WizardTypes
    BY WindowShape
  <2>2. wizard.probes \in Nat /\ wizard.probes > 0
    BY <2>1 DEF ProbeFails, WizardTypes
  <2>3. wizard.probes - 1 \in Nat
    <3>1. PICK p \in Nat : p = wizard.probes /\ p > 0
      BY <2>2
    <3>2. p - 1 \in Nat
      BY <3>1
    <3> QED
      BY <3>1, <3>2
  <2> QED
    BY <1>2, <2>1, <2>3 DEF WizardTypes
<1>4. ui' = [ui EXCEPT !.at = "error"]
  BY DEF ProbeFails
<1>5. ui' \in UiTypes /\ ui'.at = "error" /\ ui'.snap = ui.snap
  BY <1>4, WindowShape, WizardShape DEF UiTypes, WizardSteps
<1>6. ui.at \in WizardSteps \cup {"idle"}
  BY WizardShape DEF ProbeFails
<1>7. ui.at \notin Waits /\ ui.at # "forgetting" /\ ui.at # "reading"
  BY <1>6, WizardShape, WaitsShape
<1>8. ui'.at \notin OfCamera /\ ui'.at # "reading"
  BY <1>5 DEF OfCamera
<1>9. WindowTypes'
  BY <1>1, <1>3, <1>5, <1>7, <1>8, WindowShape, WindowMade, RowFitsKept
<1>10. UrlKept'
  BY <1>1, <1>3, <1>5 DEF IInv, UrlKept, AssignedHasUrl
<1> QED
  BY <1>1, <1>7, <1>9, <1>10, UiStep

-----------------------------------------------------------------------------
(* Steps of the main thread that post commands and wait.                   *)

Counts == [moves : Nat, fails : Nat, crashes : Nat, flows : Nat, lost : BOOLEAN]

\* What is new of a queue that grew by n.
New(n) == Len(queue) + 1 .. Len(queue) + n

LEMMA UiPosts ==
  ASSUME IInv, NEW n \in Nat, Grew(n),
         UNCHANGED <<net, hashes, agent, rows>>,
         count' \in Counts, count'.moves = count.moves, count'.lost = count.lost,
         probed' \in [Cams -> Addresses], \A c \in Cams : Fits(probed[c], c)',
         ui.at \notin Waits, ui.at # "forgetting",
         \A i \in New(n) :
           /\ CommandFits(queue[i])'
           /\ queue'[i].by # "agent"
           /\ queue'[i].by = "ui" => Meant(queue[i])'
           /\ \A c \in Cams : ~Partial(i, c)',
         \A i, j \in New(n) : i # j => queue'[i].by # "ui" \/ queue'[j].by # "ui",
         \/ Cardinality(Updates') <= MaxUpdates
         \/ Cardinality(Updates') = Cardinality(Updates),
         WindowTypes', UrlKept'
  PROVE  IInv'
<1>1. /\ \A i \in 1 .. Len(queue) : i \in 1 .. Len(queue') /\ queue'[i] = queue[i]
      /\ \A i \in 1 .. Len(queue') : i \in 1 .. Len(queue) \/ i \in New(n)
      /\ queue' \in Seq(Commands)
      /\ \A i \in 1 .. Len(queue') : queue'[i] \in Commands
  <2>1. queue' \in Seq(Commands)
    BY DEF Grew
  <2> QED
    BY <2>1, GrewShape DEF IInv, New
<1>2. Types'
  <2>1. \A i \in 1 .. Len(queue) : CommandFits(queue[i])
    BY DEF IInv, Types
  <2>2. \A i \in 1 .. Len(queue) : CommandFits(queue'[i])
    BY <1>1, <2>1
  <2>3. \A i \in 1 .. Len(queue) : CommandFits(queue[i])'
    BY <2>2 DEF CommandFits, RowFits, Fits
  <2>4. \A i \in 1 .. Len(queue') : CommandFits(queue[i])'
    BY <1>1, <2>3
  <2>5. \A c \in Cams : (Fits(hashes[c], c) /\ RowFits(rows[c], c))'
    BY DEF IInv, Types, RowFits, Fits
  <2>6. /\ count'.moves <= MaxMoves
        /\ net' \in [Cams -> Nat] /\ \A c \in Cams : net'[c] <= count'.moves
        /\ hashes' \in [Cams -> Addresses] /\ rows' \in [Cams -> AllRows]
    BY DEF IInv, Types
  <2> QED
    BY <1>1, <2>4, <2>5, <2>6 DEF Types, Counts
<1>3. AgentTypes'
  BY AgentTypesKept DEF IInv
<1>4. Asked'
  <2>1. \A i \in 1 .. Len(queue) : queue'[i] = queue[i] /\ queue[i].by # "ui"
    BY <1>1, NotWaiting DEF IInv
  <2>2. ASSUME NEW i \in 1 .. Len(queue'), NEW j \in 1 .. Len(queue'), i # j
        PROVE  queue'[i].by # queue'[j].by \/ queue'[i].by = "nobody"
    <3>1. CASE i \in 1 .. Len(queue) /\ j \in 1 .. Len(queue)
      BY <2>1, <2>2, <3>1 DEF IInv, Asked
    <3>2. CASE i \in New(n) /\ j \in New(n)
      <4>1. queue'[i].by \in {"nobody", "ui"} /\ queue'[j].by \in {"nobody", "ui"}
        BY <1>1, <3>2, CommandShape
      <4> QED
        BY <2>2, <3>2, <4>1
    <3>3. CASE i \in New(n) /\ j \in 1 .. Len(queue)
      <4>1. queue'[i].by \in {"nobody", "ui"} /\ queue'[j].by # "ui"
        BY <1>1, <2>1, <3>3, CommandShape
      <4> QED
        BY <4>1
    <3>4. CASE i \in 1 .. Len(queue) /\ j \in New(n)
      <4>1. queue'[j].by \in {"nobody", "ui"} /\ queue'[i].by # "ui"
        BY <1>1, <2>1, <3>4, CommandShape
      <4> QED
        BY <4>1
    <3> QED
      BY <1>1, <3>1, <3>2, <3>3, <3>4
  <2>3. ASSUME NEW i \in 1 .. Len(queue')
        PROVE  /\ queue'[i].by = "agent" => agent'.at = "asking"
               /\ queue'[i].by = "ui" => Meant(queue[i])'
    <3>1. CASE i \in 1 .. Len(queue)
      BY <2>1, <3>1 DEF IInv, Asked
    <3>2. CASE i \in New(n)
      BY <3>2
    <3> QED
      BY <1>1, <3>1, <3>2
  <2> QED
    BY <2>2, <2>3 DEF Asked
<1>5. FewUpdates'
  <2>1. Cardinality(Updates) \in Nat /\ Cardinality(Updates') \in Nat /\ MaxUpdates \in Nat
    BY UpdatesFinite, GrewFinite, DiscoveryConstants DEF IInv
  <2> QED
    BY <2>1 DEF IInv, FewUpdates
<1>6. LatestIsKnown'
  BY GrewLatest DEF IInv, New
<1>7. KnownIsStored'
  BY GrewUnderway DEF IInv, KnownIsStored
<1> QED
  BY <1>2, <1>3, <1>4, <1>5, <1>6, <1>7 DEF IInv

LEMMA UiPostsOne ==
  ASSUME IInv, NEW cmd \in Commands, cmd.by = "ui", queue' = Append(queue, cmd),
         UNCHANGED <<net, hashes, agent, rows, probed>>,
         count' \in Counts, count'.moves = count.moves, count'.lost = count.lost,
         ui.at \notin Waits, ui.at # "forgetting",
         CommandFits(cmd), Meant(cmd)', WindowTypes',
         ~wizard'.late =>
           /\ ~wizard.late
           /\ AssignedHasUrl(ui'.snap)
           /\ cmd.op = "save" => AssignedHasUrl(cmd.row)
  PROVE  IInv'
<1>1. /\ queue \in Seq(Commands) /\ Len(queue) \in Nat
      /\ queue' \in Seq(Commands) /\ Len(queue') = Len(queue) + 1
      /\ \A i \in 1 .. Len(queue) : queue'[i] = queue[i]
      /\ queue'[Len(queue) + 1] = cmd
  BY QueueShape, AppendedCommand DEF IInv
<1>2. Grew(1) /\ \A i \in New(1) : i = Len(queue) + 1 /\ queue'[i] = cmd
  BY <1>1 DEF Grew, New
<1>3. cmd.op # "update" /\ cmd.by # "agent"
  BY CommandShape
<1>4. \A i \in New(1) : /\ CommandFits(queue[i])'
                        /\ queue'[i].by # "agent"
                        /\ Meant(queue[i])'
                        /\ \A c \in Cams : ~Partial(i, c)'
  <2>1. CommandFits(cmd)'
    BY DEF CommandFits, RowFits, Fits
  <2> QED
    BY <1>2, <1>3, <2>1 DEF Partial
<1>5. Cardinality(Updates') = Cardinality(Updates)
  BY <1>2, <1>3, GrewUpdates DEF IInv, New
<1>6. probed' \in [Cams -> Addresses] /\ \A c \in Cams : Fits(probed[c], c)'
  BY DEF IInv, Types, Fits
<1>7. UrlKept'
  <2> SUFFICES ASSUME ~wizard'.late PROVE UrlKept'
    BY DEF UrlKept
  <2>1. \A c \in Cams : AssignedHasUrl(rows'[c])
    BY DEF IInv, UrlKept, AssignedHasUrl
  <2>2. \A i \in 1 .. Len(queue') : queue'[i].op = "save" => AssignedHasUrl(queue'[i].row)
    BY <1>1 DEF IInv, UrlKept
  <2>3. ui'.at \notin {"waiting", "wizard"}
    BY WaitsShape DEF Meant, Waits
  <2> QED
    BY <2>1, <2>2, <2>3 DEF UrlKept, AssignedHasUrl
<1>8. \A i, j \in New(1) : i = j
  BY <1>2
<1> QED
  BY <1>2, <1>4, <1>5, <1>6, <1>7, <1>8, UiPosts

LEMMA CommandsMade ==
  ASSUME NEW c \in Cams
  PROVE  /\ \A by \in {"agent", "ui"} :
              /\ Get(c, by) \in Commands /\ CommandFits(Get(c, by))
              /\ Get(c, by).op = "get" /\ Get(c, by).by = by /\ Get(c, by).cam = c
         /\ \A row \in AllRows :
              /\ Save(c, row) \in Commands
              /\ Save(c, row).op = "save" /\ Save(c, row).by = "ui"
              /\ Save(c, row).cam = c /\ Save(c, row).row = row
         /\ Delete(c) \in Commands /\ CommandFits(Delete(c))
         /\ Delete(c).op = "remove" /\ Delete(c).by = "ui" /\ Delete(c).cam = c
<1>1. ASSUME NEW by \in {"agent", "ui"}
      PROVE  /\ Get(c, by) \in Commands /\ CommandFits(Get(c, by))
             /\ Get(c, by).op = "get" /\ Get(c, by).by = by /\ Get(c, by).cam = c
  <2>1. Get(c, by) \in [op : {"get"}, by : {"agent", "ui"}, cam : Cams]
    BY DEF Get
  <2>2. Get(c, by).op = "get" /\ Get(c, by).by = by /\ Get(c, by).cam = c
    BY DEF Get
  <2> QED
    BY <2>1, <2>2 DEF Commands, CommandFits
<1>2. ASSUME NEW row \in AllRows
      PROVE  /\ Save(c, row) \in Commands
             /\ Save(c, row).op = "save" /\ Save(c, row).by = "ui"
             /\ Save(c, row).cam = c /\ Save(c, row).row = row
  <2>1. Save(c, row) \in [op : {"save"}, by : {"ui"}, cam : Cams, row : AllRows]
    BY DEF Save
  <2>2. /\ Save(c, row).op = "save" /\ Save(c, row).by = "ui"
        /\ Save(c, row).cam = c /\ Save(c, row).row = row
    BY DEF Save
  <2> QED
    BY <2>1, <2>2 DEF Commands
<1>3. /\ Delete(c) \in Commands /\ CommandFits(Delete(c))
      /\ Delete(c).op = "remove" /\ Delete(c).by = "ui" /\ Delete(c).cam = c
  <2>1. Delete(c) \in [op : {"remove"}, by : {"ui"}, cam : Cams]
    BY DEF Delete
  <2>2. Delete(c).op = "remove" /\ Delete(c).by = "ui" /\ Delete(c).cam = c
    BY DEF Delete
  <2> QED
    BY <2>1, <2>2 DEF Commands, CommandFits
<1> QED
  BY <1>1, <1>2, <1>3

\* A window that waits for the answer about a camera.
LEMMA WindowPosted ==
  ASSUME IInv, ui' \in UiTypes, wizard' \in WizardTypes, UNCHANGED <<net, items, listed>>,
         ui'.at \in Waits, ui'.at \in OfCamera => ui'.cam \in Cams,
         wizard'.cam = None => wizard'.snap = NoRow /\ ui'.at # "reading",
         (wizard'.cam # None /\ ui'.at # "reading") => RowFits(wizard.snap, wizard.cam)'
  PROVE  WindowTypes'
<1>1. ui'.at # "picked"
  BY WaitsShape
<1>2. listed' \subseteq Cams /\ \A i \in DOMAIN items' : items'[i] \in Cams
  BY WindowShape
<1> QED
  BY <1>1, <1>2 DEF WindowTypes, UiTypes, WizardTypes

LEMMA StepNames ==
  Waits \subseteq UiSteps
BY DEF UiSteps

LEMMA BeginStep ==
  ASSUME IInv, NEW at \in {"reading", "finding", "opening"}, NEW c \in Cams,
         NEW sel \in Int, Begin(at, c, sel),
         at # "reading" => wizard' = wizard,
         at = "reading" => wizard' = [wizard EXCEPT !.cam = c]
  PROVE  IInv'
<1>1. /\ ui.at = "idle"
      /\ ui' = [Idle EXCEPT !.at = at, !.cam = c, !.sel = sel, !.named = c, !.forced = TRUE]
      /\ queue' = Append(queue, Get(c, "ui"))
      /\ count' = [count EXCEPT !.flows = count.flows + 1]
      /\ UNCHANGED <<net, hashes, agent, probed, rows, items, listed>>
  BY DEF Begin, shown
<1>2. ui' = [at |-> at, cam |-> c, sel |-> sel, named |-> c, snap |-> NoRow, forced |-> TRUE]
  BY <1>1 DEF Idle
<1>3. at \in Waits /\ at \in UiSteps
  BY WaitsShape, StepNames
<1>4. /\ ui' \in UiTypes
      /\ ui'.at = at /\ ui'.cam = c /\ ui'.snap = NoRow
  BY <1>2, <1>3, NoRowTypes DEF UiTypes
<1>5. /\ count' \in Counts /\ count'.moves = count.moves /\ count'.lost = count.lost
  <2>1. count \in Counts
    BY DEF IInv, Types, Counts
  <2>2. count.flows + 1 \in Nat
    BY <2>1 DEF Counts
  <2> QED
    BY <1>1, <2>1, <2>2 DEF Counts
<1>6. /\ wizard' \in WizardTypes /\ wizard'.snap = wizard.snap /\ wizard'.late = wizard.late
      /\ at = "reading" => wizard'.cam = c
      /\ at # "reading" => wizard'.cam = wizard.cam
  <2>1. wizard \in WizardTypes
    BY WindowShape
  <2> QED
    BY <2>1 DEF WizardTypes
<1>7. WindowTypes'
  <2>1. wizard'.cam = None => wizard'.snap = NoRow /\ ui'.at # "reading"
    BY <1>4, <1>6, WindowShape, CamsNotNone
  <2>2. (wizard'.cam # None /\ ui'.at # "reading") => RowFits(wizard.snap, wizard.cam)'
    BY <1>1, <1>4, <1>6, WindowShape DEF RowFits, Fits
  <2> QED
    BY <1>1, <1>3, <1>4, <1>6, <2>1, <2>2, WindowPosted
<1>8. /\ Get(c, "ui") \in Commands /\ CommandFits(Get(c, "ui"))
      /\ Get(c, "ui").op = "get" /\ Get(c, "ui").by = "ui" /\ Get(c, "ui").cam = c
  BY CommandsMade
<1>9. Meant(Get(c, "ui"))'
  <2>1. PICK cmd : cmd = Get(c, "ui")
    OBVIOUS
  <2>2. /\ ui'.at \in Waits /\ ui'.at \notin {"saving", "removing", "probing"}
        /\ ui'.at = "reading" => cmd.cam = wizard'.cam
        /\ cmd.cam = ui'.cam /\ cmd.op = "get"
    BY <1>3, <1>4, <1>6, <1>8, <2>1
  <2>3. Meant(cmd)'
    BY <2>2 DEF Meant
  <2> QED
    BY <2>1, <2>3 DEF Get
<1>10. AssignedHasUrl(ui'.snap)
  BY <1>4, NoRowTypes
<1>11. ui.at \notin Waits /\ ui.at # "forgetting"
  BY <1>1, WaitsShape
<1> QED
  BY <1>1, <1>5, <1>6, <1>7, <1>8, <1>9, <1>10, <1>11, UiPostsOne

LEMMA BeginSteps ==
  ASSUME IInv,
         \/ \E c \in Cams : Record(c) \/ Forget(c)
         \/ \E i \in 1 .. NumCams : OpenDialog(i)
  PROVE  IInv'
<1>1. ASSUME NEW c \in Cams, Record(c)
      PROVE  IInv'
  <2>1. Begin("reading", c, None) /\ wizard' = [wizard EXCEPT !.cam = c] /\ None \in Int
    BY <1>1 DEF Record, None
  <2> QED
    BY <2>1, BeginStep
<1>2. ASSUME NEW c \in Cams, Forget(c)
      PROVE  IInv'
  <2>1. Begin("finding", c, None) /\ wizard' = wizard /\ None \in Int
    BY <1>2 DEF Forget, None
  <2> QED
    BY <2>1, BeginStep
<1>3. ASSUME NEW i \in 1 .. NumCams, OpenDialog(i)
      PROVE  IInv'
  <2>1. items[i] \in Cams /\ Begin("opening", items[i], i) /\ wizard' = wizard /\ i \in Int
    BY <1>3, WindowShape DEF OpenDialog
  <2> QED
    BY <2>1, BeginStep
<1> QED
  BY <1>1, <1>2, <1>3

\* The window waits for another command about a camera it is about.
LEMMA AskStep ==
  ASSUME IInv, NEW cmd \in Commands, NEW at \in Waits \ {"reading", "probing"},
         cmd.by = "ui", CommandFits(cmd), cmd.cam \in Cams,
         (at = "saving") <=> (cmd.op = "save"), (at = "removing") <=> (cmd.op = "remove"),
         ui' \in UiTypes, ui'.at = at,
         at \in OfCamera => ui'.cam = cmd.cam, ui'.snap = ui.snap,
         queue' = Append(queue, cmd),
         UNCHANGED <<net, hashes, agent, probed, rows, items, listed, wizard, count>>,
         ui.at \notin Waits, ui.at # "forgetting",
         ~wizard.late => (cmd.op = "save" => AssignedHasUrl(cmd.row))
  PROVE  IInv'
<1>1. WindowTypes'
  <2>1. wizard' \in WizardTypes
    BY WindowShape
  <2>2. ui.at # "reading"
    BY WaitsShape
  <2>3. wizard'.cam = None => wizard'.snap = NoRow /\ ui'.at # "reading"
    BY WindowShape
  <2>4. (wizard'.cam # None /\ ui'.at # "reading") => RowFits(wizard.snap, wizard.cam)'
    BY <2>2, WindowShape DEF RowFits, Fits
  <2> QED
    BY <2>1, <2>3, <2>4, WindowPosted
<1>2. Meant(cmd)'
  BY DEF Meant
<1>3. ~wizard'.late => ~wizard.late /\ AssignedHasUrl(ui'.snap)
  BY DEF IInv, UrlKept
<1>4. count' \in Counts /\ count'.moves = count.moves /\ count'.lost = count.lost
  BY CountKept DEF IInv, Counts
<1> QED
  BY <1>1, <1>2, <1>3, <1>4, UiPostsOne

LEMMA ConfirmStep ==
  ASSUME IInv, Confirm
  PROVE  IInv'
<1>1. /\ ui.at = "dialog"
      /\ UNCHANGED <<net, hashes, agent, probed, rows, items, listed, wizard, count>>
  BY DEF Confirm, shown
<1>2. ui.at \notin Waits /\ ui.at # "forgetting"
  BY <1>1, WaitsShape
<1>3. CASE ui.sel \in DOMAIN items
  <2>1. PICK c \in Cams : c = items[ui.sel]
    BY <1>3, WindowShape
  <2>2. ui' = [ui EXCEPT !.at = "picking", !.cam = c] /\ queue' = Append(queue, Get(c, "ui"))
    BY <1>3, <2>1 DEF Confirm
  <2>3. "picking" \in Waits \ {"reading", "probing"} /\ "picking" \in UiSteps
    BY WaitsShape, StepNames
  <2>4. ui' \in UiTypes /\ ui'.at = "picking" /\ ui'.cam = c /\ ui'.snap = ui.snap
    BY <2>2, <2>3, WindowShape DEF UiTypes
  <2>5. PICK cmd \in Commands : /\ cmd = Get(c, "ui") /\ CommandFits(cmd)
                                /\ cmd.op = "get" /\ cmd.by = "ui" /\ cmd.cam = c
    BY CommandsMade
  <2> QED
    BY <1>1, <1>2, <2>2, <2>3, <2>4, <2>5, AskStep
<1>4. CASE ui.sel \notin DOMAIN items
  <2>1. ui' = Resting("idle", FALSE) /\ queue' = queue
    BY <1>4 DEF Confirm, Idle, Resting
  <2> QED
    BY <1>1, <1>2, <2>1, UiRests DEF UiAlone
<1> QED
  BY <1>3, <1>4

\* A row that is saved.
LEMMA SavedRow ==
  ASSUME NEW row \in AllRows, NEW c \in Cams, RowFits(row, c),
         NEW state \in {"discovered", "assigned"}
  PROVE  /\ [row EXCEPT !.state = state, !.full = TRUE] \in AllRows
         /\ [row EXCEPT !.state = state, !.full = TRUE].state = state
         /\ [row EXCEPT !.state = state, !.full = TRUE].url = row.url
         /\ CommandFits(Save(c, [row EXCEPT !.state = state, !.full = TRUE]))
<1>1. PICK new : new = [row EXCEPT !.state = state, !.full = TRUE]
  OBVIOUS
<1>2. /\ new \in AllRows /\ new.state = state /\ new.url = row.url /\ new.addr = row.addr
      /\ new.full
  BY <1>1 DEF AllRows
<1>3. new # NoRow
  BY <1>2 DEF NoRow
<1>4. RowFits(new, c)
  BY <1>2, <1>3 DEF RowFits
<1>5. CommandFits(Save(c, new))
  <2>1. PICK cmd : cmd = Save(c, new)
    OBVIOUS
  <2>2. cmd.op = "save" /\ cmd.row = new /\ cmd.cam = c
    BY <2>1 DEF Save
  <2>3. CommandFits(cmd)
    BY <1>2, <1>4, <2>2 DEF CommandFits
  <2> QED
    BY <2>1, <2>3
<1> QED
  BY <1>1, <1>2, <1>5

LEMMA AssignStep ==
  ASSUME IInv, Assign
  PROVE  IInv'
<1>1. /\ ui.at = "wizard" /\ wizard.snap # NoRow
      /\ UNCHANGED <<net, hashes, agent, probed, rows, items, listed, wizard, count>>
  BY DEF Assign, shown
<1>2. ui.at \notin Waits /\ ui.at # "forgetting" /\ ui.at # "reading"
  BY <1>1, WaitsShape
<1>3. PICK c \in Cams : c = wizard.cam
  BY <1>1, WindowShape DEF WizardTypes
<1>4. wizard.snap \in AllRows /\ RowFits(wizard.snap, c)
  BY <1>2, <1>3, WindowShape, CamsNotNone DEF WizardTypes
<1>5. PICK row \in AllRows :
        /\ row = [wizard.snap EXCEPT !.state = "assigned", !.full = TRUE]
        /\ row.url = wizard.snap.url
        /\ CommandFits(Save(c, row))
  BY <1>4, SavedRow
<1>6. PICK cmd \in Commands : /\ cmd = Save(c, row) /\ CommandFits(cmd)
                              /\ cmd.op = "save" /\ cmd.by = "ui" /\ cmd.cam = c
                              /\ cmd.row = row
  BY <1>5, CommandsMade
<1>7. queue' = Append(queue, cmd) /\ ui' = [ui EXCEPT !.at = "saving", !.forced = TRUE]
  BY <1>3, <1>5, <1>6 DEF Assign
<1>8. "saving" \in Waits \ {"reading", "probing"} /\ "saving" \in UiSteps
  BY WaitsShape, StepNames
<1>9. ui' \in UiTypes /\ ui'.at = "saving" /\ ui'.snap = ui.snap
  BY <1>7, <1>8, WindowShape DEF UiTypes
<1>10. ~wizard.late => AssignedHasUrl(cmd.row)
  <2>1. ~wizard.late => wizard.snap.url # None
    BY <1>1 DEF IInv, UrlKept
  <2> QED
    BY <1>5, <1>6, <2>1 DEF AssignedHasUrl
<1>11. "saving" \notin OfCamera
  BY DEF OfCamera
<1> QED
  BY <1>1, <1>2, <1>6, <1>7, <1>8, <1>9, <1>10, <1>11, AskStep

LEMMA SavePickedStep ==
  ASSUME IInv, SavePicked
  PROVE  IInv'
<1>1. /\ ui.at = "picked" /\ ui.snap # NoRow
      /\ UNCHANGED <<net, hashes, agent, probed, rows, items, listed, wizard, count>>
  BY DEF SavePicked, shown
<1>2. ui.at \notin Waits /\ ui.at # "forgetting"
  BY <1>1, WaitsShape
<1>3. PICK c \in Cams : c = ui.cam
  BY <1>1 DEF IInv, WindowTypes, OfCamera
<1>4. RowFits(ui.snap, c) /\ ui.snap \in AllRows
  BY <1>1, <1>3 DEF IInv, WindowTypes, RowFits
<1>5. PICK state \in {"discovered", ui.snap.state} :
        /\ ui' = [ui EXCEPT !.at = "saving"]
        /\ queue' = Append(queue, Save(c, [ui.snap EXCEPT !.state = state, !.full = TRUE]))
  BY <1>3 DEF SavePicked, Wait
<1>6. state \in {"discovered", "assigned"}
  BY <1>1, <1>4 DEF RowFits, AllRows
<1>7. PICK row \in AllRows :
        /\ row = [ui.snap EXCEPT !.state = state, !.full = TRUE]
        /\ row.url = ui.snap.url /\ row.state = state
        /\ CommandFits(Save(c, row))
  BY <1>4, <1>6, SavedRow
<1>8. PICK cmd \in Commands : /\ cmd = Save(c, row) /\ CommandFits(cmd)
                              /\ cmd.op = "save" /\ cmd.by = "ui" /\ cmd.cam = c
                              /\ cmd.row = row
  BY <1>7, CommandsMade
<1>9. queue' = Append(queue, cmd)
  BY <1>5, <1>7, <1>8
<1>10. "saving" \in Waits \ {"reading", "probing"} /\ "saving" \in UiSteps
  BY WaitsShape, StepNames
<1>11. ui' \in UiTypes /\ ui'.at = "saving" /\ ui'.snap = ui.snap
  BY <1>5, <1>10, WindowShape DEF UiTypes
<1>12. ~wizard.late => AssignedHasUrl(cmd.row)
  BY <1>5, <1>7, <1>8 DEF IInv, UrlKept, AssignedHasUrl
<1>13. "saving" \notin OfCamera
  BY DEF OfCamera
<1> QED
  BY <1>1, <1>2, <1>8, <1>9, <1>10, <1>11, <1>12, <1>13, AskStep

LEMMA RemoveFoundStep ==
  ASSUME IInv, RemoveFound
  PROVE  IInv'
<1>1. /\ ui.at = "found"
      /\ UNCHANGED <<net, hashes, agent, probed, rows, items, listed, wizard, count>>
  BY DEF RemoveFound, shown
<1>2. ui.at \notin Waits /\ ui.at # "forgetting"
  BY <1>1, WaitsShape
<1>3. PICK c \in Cams : c = ui.cam
  BY <1>1 DEF IInv, WindowTypes, OfCamera
<1>4. ui' = [ui EXCEPT !.at = "removing"] /\ queue' = Append(queue, Delete(c))
  BY <1>3 DEF RemoveFound, Wait
<1>5. PICK cmd \in Commands : /\ cmd = Delete(c) /\ CommandFits(cmd)
                              /\ cmd.op = "remove" /\ cmd.by = "ui" /\ cmd.cam = c
  BY CommandsMade
<1>6. "removing" \in Waits \ {"reading", "probing"} /\ "removing" \in UiSteps
  BY WaitsShape, StepNames
<1>7. ui' \in UiTypes /\ ui'.at = "removing" /\ ui'.snap = ui.snap /\ ui'.cam = c
  BY <1>3, <1>4, <1>6, WindowShape DEF UiTypes
<1> QED
  BY <1>1, <1>2, <1>4, <1>5, <1>6, <1>7, AskStep

LEMMA UpdateMade ==
  ASSUME NEW D \in SUBSET Cams, NEW configs \in [D -> Configs]
  PROVE  /\ Update(configs) \in Commands
         /\ Update(configs).op = "update" /\ Update(configs).by = "nobody"
         /\ Update(configs).configs = configs
<1>1. configs \in UNION {[E -> Configs] : E \in SUBSET Cams}
  OBVIOUS
<1>2. Update(configs) \in [op : {"update"}, by : {"nobody"}, cam : {None},
                           configs : UNION {[E -> Configs] : E \in SUBSET Cams}]
  BY <1>1 DEF Update
<1>3. /\ Update(configs).op = "update" /\ Update(configs).by = "nobody"
      /\ Update(configs).configs = configs
  BY DEF Update
<1> QED
  BY <1>2, <1>3 DEF Commands

\* The commands of an interrogation.
LEMMA ProbeMade ==
  ASSUME Types, NEW c \in Cams, NEW addr \in 0 .. net[c]
  PROVE  \E u \in Commands :
           /\ ProbeCommands(c, addr) = <<u, Get(c, "ui")>>
           /\ CommandFits(u) /\ u.op = "update" /\ u.by = "nobody"
           /\ \A d \in DOMAIN u.configs : u.configs[d].full
<1>1. PICK configs : configs = [d \in {c} |-> [addr |-> addr, url |-> addr, full |-> TRUE]]
  OBVIOUS
<1>2. net[c] \in Nat /\ net[c] <= MaxMoves /\ MaxMoves \in Nat
  BY DiscoveryConstants DEF Types, Counts
<1>3. addr \in Nat /\ addr <= net[c] /\ addr \in Addresses /\ addr # None
  BY <1>2 DEF Addresses, None
<1>4. [addr |-> addr, url |-> addr, full |-> TRUE] \in Configs
  BY <1>3 DEF Configs
<1>5. {c} \in SUBSET Cams /\ configs \in [{c} -> Configs]
  BY <1>1, <1>4
<1>6. PICK u \in Commands : /\ u = Update(configs)
                            /\ u.op = "update" /\ u.by = "nobody" /\ u.configs = configs
  BY <1>5, UpdateMade
<1>7. /\ DOMAIN u.configs = {c}
      /\ u.configs[c].addr = addr /\ u.configs[c].url = addr /\ u.configs[c].full
  <2>1. u.configs = configs
    BY <1>6
  <2>2. DOMAIN configs = {c}
    BY <1>1
  <2>3. configs[c] = [addr |-> addr, url |-> addr, full |-> TRUE]
    BY <1>1
  <2>4. configs[c].addr = addr /\ configs[c].url = addr /\ configs[c].full
    BY <2>3
  <2> QED
    BY <2>1, <2>2, <2>4
<1>8. CommandFits(u)
  BY <1>3, <1>6, <1>7 DEF CommandFits, Fits
<1>9. ProbeCommands(c, addr) = <<u, Get(c, "ui")>>
  BY <1>1, <1>6 DEF ProbeCommands
<1> QED
  BY <1>6, <1>7, <1>8, <1>9

LEMMA ProbingWindow ==
  ASSUME IInv, ui.at = "credentials", ui' = [ui EXCEPT !.at = "probing"],
         UNCHANGED <<net, items, listed, wizard>>
  PROVE  /\ ui' \in UiTypes /\ ui'.at = "probing" /\ ui'.snap = ui.snap
         /\ WindowTypes'
<1>1. "probing" \in UiSteps /\ "probing" \in Waits /\ "probing" \notin OfCamera
  BY WaitsShape, StepNames DEF OfCamera
<1>2. ui' \in UiTypes /\ ui'.at = "probing" /\ ui'.snap = ui.snap
  BY <1>1, WindowShape DEF UiTypes
<1>3. wizard' \in WizardTypes /\ (wizard'.cam = None => wizard'.snap = NoRow /\ ui'.at # "reading")
  BY <1>2, WindowShape
<1>4. (wizard'.cam # None /\ ui'.at # "reading") => RowFits(wizard.snap, wizard.cam)'
  BY WindowShape DEF RowFits, Fits
<1>5. WindowTypes'
  BY <1>1, <1>2, <1>3, <1>4, WindowPosted
<1> QED
  BY <1>2, <1>5

LEMMA InterrogateStep ==
  ASSUME IInv, Interrogate
  PROVE  IInv'
<1>1. /\ ui.at = "credentials" /\ wizard.snap # NoRow
      /\ ui' = [ui EXCEPT !.at = "probing"]
      /\ UNCHANGED <<net, hashes, agent, rows, items, listed, wizard, count>>
  BY DEF Interrogate, shown
<1>2. ui.at \notin Waits /\ ui.at # "forgetting" /\ ui.at # "reading"
  BY <1>1, WaitsShape
<1>3. PICK c \in Cams : c = wizard.cam
  BY <1>1, WindowShape DEF WizardTypes
<1>4. ui' \in UiTypes /\ ui'.at = "probing" /\ ui'.snap = ui.snap /\ WindowTypes'
  BY <1>1, ProbingWindow
<1>5. count' \in Counts /\ count'.moves = count.moves /\ count'.lost = count.lost
  BY <1>1, CountKept DEF IInv, Counts
<1>6. ~wizard'.late => ~wizard.late /\ AssignedHasUrl(ui'.snap)
  BY <1>1, <1>4 DEF IInv, UrlKept
<1>7. PICK g \in Commands : /\ g = Get(c, "ui") /\ CommandFits(g)
                            /\ g.op = "get" /\ g.by = "ui" /\ g.cam = c
  BY CommandsMade
<1>8. Meant(g)'
  BY <1>1, <1>3, <1>4, <1>7, WaitsShape DEF Meant, OfCamera, Waits
<1>9. CASE queue' = Append(queue, g) /\ probed' = probed
  BY <1>1, <1>2, <1>4, <1>5, <1>6, <1>7, <1>8, <1>9, UiPostsOne
<1>10. ASSUME NEW addr \in 0 .. net[c],
              Cardinality(Updates) < MaxUpdates,
              queue' = queue \o ProbeCommands(c, addr),
              probed' = [probed EXCEPT ![c] = addr]
       PROVE  IInv'
  <2>1. PICK u \in Commands :
          /\ ProbeCommands(c, addr) = <<u, g>>
          /\ CommandFits(u) /\ u.op = "update" /\ u.by = "nobody"
          /\ \A d \in DOMAIN u.configs : u.configs[d].full
    BY <1>7, <1>10, ProbeMade DEF IInv
  <2>2. /\ queue \in Seq(Commands) /\ Len(queue) \in Nat
        /\ <<u, g>> \in Seq(Commands) /\ Len(<<u, g>>) = 2
        /\ <<u, g>>[1] = u /\ <<u, g>>[2] = g
    BY QueueShape DEF IInv
  <2>3. queue' = queue \o <<u, g>>
    BY <1>10, <2>1
  <2>4. /\ queue' \in Seq(Commands) /\ Len(queue') = Len(queue) + 2
        /\ \A i \in 1 .. Len(queue) : queue'[i] = queue[i]
        /\ queue'[Len(queue) + 1] = u /\ queue'[Len(queue) + 2] = g
    BY <2>2, <2>3
  <2>5. Grew(2)
    BY <2>4 DEF Grew
  <2>6. \A i \in New(2) : \/ i = Len(queue) + 1 /\ queue'[i] = u
                          \/ i = Len(queue) + 2 /\ queue'[i] = g
    BY <2>2, <2>4 DEF New
  <2>7. \A i \in New(2) : /\ CommandFits(queue[i])'
                          /\ queue'[i].by # "agent"
                          /\ queue'[i].by = "ui" => Meant(queue[i])'
                          /\ \A d \in Cams : ~Partial(i, d)'
    <3>1. CommandFits(u)' /\ CommandFits(g)'
      BY <1>1, <1>7, <2>1 DEF CommandFits, RowFits, Fits
    <3>2. ASSUME NEW i \in New(2), queue'[i] = u
          PROVE  /\ CommandFits(queue[i])'
                 /\ queue'[i].by # "agent" /\ queue'[i].by # "ui"
                 /\ \A d \in Cams : ~Partial(i, d)'
      <4>1. CommandFits(queue[i])'
        BY <3>1, <3>2
      <4>2. queue'[i].by # "agent" /\ queue'[i].by # "ui"
        BY <2>1, <3>2
      <4>3. \A d \in Cams : ~Partial(i, d)'
        BY <2>1, <3>2 DEF Partial
      <4> QED
        BY <4>1, <4>2, <4>3
    <3>3. ASSUME NEW i \in New(2), queue'[i] = g
          PROVE  /\ CommandFits(queue[i])'
                 /\ queue'[i].by # "agent" /\ Meant(queue[i])'
                 /\ \A d \in Cams : ~Partial(i, d)'
      <4>1. CommandFits(queue[i])' /\ Meant(queue[i])'
        BY <1>8, <3>1, <3>3
      <4>2. queue'[i].by # "agent"
        BY <1>7, <3>3
      <4>3. \A d \in Cams : ~Partial(i, d)'
        BY <1>7, <3>3 DEF Partial
      <4> QED
        BY <4>1, <4>2, <4>3
    <3> QED
      BY <2>6, <3>2, <3>3
  <2>8. \A i, j \in New(2) : i # j => queue'[i].by # "ui" \/ queue'[j].by # "ui"
    BY <2>1, <2>6
  <2>9. Cardinality(Updates') <= MaxUpdates
    <3>1. /\ Len(queue) + 1 \in New(2)
          /\ \A i \in New(2) : i # Len(queue) + 1 => queue'[i].op # "update"
      BY <1>7, <2>2, <2>6 DEF New
    <3>2. Cardinality(Updates') <= Cardinality(Updates) + 1
      BY <2>5, <3>1, GrewUpdates DEF IInv, New
    <3>3. /\ Cardinality(Updates) \in Nat /\ Cardinality(Updates') \in Nat
          /\ MaxUpdates \in Nat
      BY <2>5, UpdatesFinite, GrewFinite, DiscoveryConstants DEF IInv
    <3> QED
      BY <1>10, <3>2, <3>3
  <2>10. probed' \in [Cams -> Addresses] /\ \A d \in Cams : Fits(probed[d], d)'
    <3>1. /\ probed \in [Cams -> Addresses] /\ \A d \in Cams : Fits(probed[d], d)
          /\ net[c] \in Nat /\ net[c] <= MaxMoves /\ MaxMoves \in Nat
      BY DiscoveryConstants DEF IInv, Types
    <3>2. addr \in Addresses
      BY <1>10, <3>1 DEF Addresses
    <3>3. probed' \in [Cams -> Addresses]
      BY <1>10, <3>1, <3>2
    <3>4. ASSUME NEW d \in Cams
          PROVE  Fits(probed[d], d)'
      <4>1. CASE d = c
        BY <1>1, <1>10, <3>1, <4>1 DEF Fits
      <4>2. CASE d # c
        <5>1. probed'[d] = probed[d]
          BY <1>10, <3>1, <4>2
        <5> QED
          BY <1>1, <3>1, <5>1 DEF Fits
      <4> QED
        BY <4>1, <4>2
    <3> QED
      BY <3>3, <3>4
  <2>11. UrlKept'
    <3> SUFFICES ASSUME ~wizard'.late PROVE UrlKept'
      BY DEF UrlKept
    <3>1. \A d \in Cams : AssignedHasUrl(rows'[d])
      BY <1>1, <1>6 DEF IInv, UrlKept, AssignedHasUrl
    <3>2. \A i \in 1 .. Len(queue) : queue[i].op = "save" => AssignedHasUrl(queue[i].row)
      BY <1>6 DEF IInv, UrlKept
    <3>3. ASSUME NEW i \in 1 .. Len(queue'), queue'[i].op = "save"
          PROVE  AssignedHasUrl(queue'[i].row)
      <4>1. i \in 1 .. Len(queue) \/ i \in New(2)
        BY <2>2, <2>4 DEF New
      <4>2. i \notin New(2)
        BY <1>7, <2>1, <2>6, <3>3
      <4> QED
        BY <2>4, <3>2, <3>3, <4>1, <4>2
    <3>4. ui'.at \notin {"waiting", "wizard"}
      BY <1>4
    <3> QED
      BY <1>6, <3>1, <3>3, <3>4 DEF UrlKept, AssignedHasUrl
  <2> QED
    BY <1>1, <1>2, <1>4, <1>5, <2>5, <2>7, <2>8, <2>9, <2>10, <2>11, UiPosts
<1>11. \/ queue' = Append(queue, g) /\ probed' = probed
       \/ \E addr \in 0 .. net[c] :
            /\ Cardinality(Updates) < MaxUpdates
            /\ queue' = queue \o ProbeCommands(c, addr)
            /\ probed' = [probed EXCEPT ![c] = addr]
  <2>1. CASE wizard.snap.url # None
    BY <1>3, <1>7, <2>1 DEF Interrogate
  <2>2. CASE wizard.snap.url = None
    <3>1. PICK addr : /\ addr = (IF probed[c] # None THEN probed[c] ELSE wizard.snap.addr)
                      /\ probed[c] # None \/ addr = net[c]
                      /\ Cardinality(Updates) < MaxUpdates
                      /\ queue' = queue \o ProbeCommands(c, addr)
                      /\ probed' = [probed EXCEPT ![c] = addr]
      BY <1>3, <2>2 DEF Interrogate
    <3>2. Fits(probed[c], c) /\ net[c] \in Nat
      BY DEF IInv, Types
    <3>3. addr \in 0 .. net[c]
      BY <3>1, <3>2 DEF Fits
    <3> QED
      BY <3>1, <3>3
  <2> QED
    BY <2>1, <2>2
<1> QED
  BY <1>9, <1>10, <1>11

-----------------------------------------------------------------------------
(* Steps of the agent.                                                     *)

LEMMA NotAsking ==
  ASSUME Asked, agent.at # "asking", NEW i \in 1 .. Len(queue)
  PROVE  queue[i].by # "agent"
BY DEF Asked

\* The agent goes on, with none of its commands in the queue.
LEMMA AgentStep ==
  ASSUME IInv, UNCHANGED <<net, hashes, probed, rows, queue, items, listed, ui, wizard, count>>,
         agent.at # "asking", AgentTypes',
         agent'.at \in {"polling", "asking"} => Cardinality(Updates) <= MaxUpdates
  PROVE  IInv'
<1>1. Types'
  BY TypesKept, CountKept DEF IInv
<1>2. WindowTypes'
  BY WindowTypesKept DEF IInv
<1>3. LatestIsKnown' /\ UrlKept'
  BY LatestKept, UrlKeptKept DEF IInv
<1>4. KnownIsStored'
  BY KnownKept DEF IInv
<1>5. Asked'
  <2>1. \A i \in 1 .. Len(queue) : queue[i].by # "agent"
    BY NotAsking DEF IInv
  <2> QED
    BY <2>1 DEF IInv, Asked, Meant
<1>6. FewUpdates'
  <2>1. Updates' = Updates
    BY DEF Updates
  <2> QED
    BY <2>1 DEF IInv, FewUpdates
<1> QED
  BY <1>1, <1>2, <1>3, <1>4, <1>5, <1>6 DEF IInv

LEMMA AsleepTypes ==
  /\ Asleep.at = "asleep"
  /\ Asleep \in [at : {"asleep", "polling", "asking", "ended"},
                 found : UNION {[D -> 0 .. MaxMoves] : D \in SUBSET Cams}, todo : SUBSET Cams]
  /\ DOMAIN Asleep.found = {}
<1>1. PICK found : found = [c \in {} |-> None]
  OBVIOUS
<1>2. {} \in SUBSET Cams /\ found \in [{} -> 0 .. MaxMoves] /\ DOMAIN found = {}
  BY <1>1
<1>3. found \in UNION {[D -> 0 .. MaxMoves] : D \in SUBSET Cams}
  BY <1>2
<1>4. Asleep = [at |-> "asleep", found |-> found, todo |-> {}]
  BY <1>1 DEF Asleep
<1> QED
  BY <1>2, <1>3, <1>4

LEMMA PollBeginStep ==
  ASSUME IInv, NEW D \in SUBSET Cams, PollBegin(D)
  PROVE  IInv'
<1>1. /\ agent.at = "asleep" /\ Cardinality(Updates) < MaxUpdates
      /\ UNCHANGED <<net, hashes, probed, rows, queue, items, listed, ui, wizard, count>>
  BY DEF PollBegin, shown
<1>2. PICK found : found = [c \in D |-> net[c]]
  OBVIOUS
<1>3. agent' = [at |-> "polling", found |-> found, todo |-> D]
  BY <1>2 DEF PollBegin
<1>4. \A c \in Cams : net[c] \in Nat /\ net[c] <= MaxMoves /\ MaxMoves \in Nat
  BY DiscoveryConstants DEF IInv, Types
<1>5. found \in [D -> 0 .. MaxMoves] /\ DOMAIN found = D /\ \A c \in D : found[c] = net[c]
  BY <1>2, <1>4
<1>6. found \in UNION {[E -> 0 .. MaxMoves] : E \in SUBSET Cams}
  BY <1>5
<1>7. AgentTypes'
  <2>1. \A c \in DOMAIN found : found[c] \in 0 .. net[c]
    BY <1>4, <1>5
  <2> QED
    BY <1>1, <1>3, <1>6, <2>1 DEF AgentTypes
<1>8. Cardinality(Updates) <= MaxUpdates
  <2>1. Cardinality(Updates) \in Nat /\ MaxUpdates \in Nat
    BY UpdatesFinite, DiscoveryConstants DEF IInv
  <2> QED
    BY <1>1, <2>1
<1> QED
  BY <1>1, <1>7, <1>8, AgentStep

LEMMA AgentEndsStep ==
  ASSUME IInv, AgentEnds
  PROVE  IInv'
<1>1. /\ agent.at = "asleep" /\ agent' = [agent EXCEPT !.at = "ended"]
      /\ UNCHANGED <<net, hashes, probed, rows, queue, items, listed, ui, wizard, count>>
  BY DEF AgentEnds, shown
<1>2. AgentTypes' /\ agent'.at = "ended"
  BY <1>1 DEF IInv, AgentTypes
<1> QED
  BY <1>1, <1>2, AgentStep

LEMMA AskCredentialsStep ==
  ASSUME IInv, NEW c \in Cams, AskCredentials(c)
  PROVE  IInv'
<1>1. /\ agent.at = "polling"
      /\ agent' = [agent EXCEPT !.at = "asking", !.todo = agent.todo \ {c}]
      /\ queue' = Append(queue, Get(c, "agent"))
      /\ UNCHANGED <<net, hashes, probed, rows, items, listed, ui, wizard, count>>
  BY DEF AskCredentials, shown
<1>2. PICK g \in Commands : /\ g = Get(c, "agent") /\ CommandFits(g)
                            /\ g.op = "get" /\ g.by = "agent"
  BY CommandsMade
<1>3. /\ queue \in Seq(Commands) /\ Len(queue) \in Nat
      /\ queue' \in Seq(Commands) /\ Len(queue') = Len(queue) + 1
      /\ \A i \in 1 .. Len(queue) : queue'[i] = queue[i]
      /\ queue'[Len(queue) + 1] = g
  BY <1>1, <1>2, QueueShape, AppendedCommand DEF IInv
<1>4. /\ Grew(1) /\ \A i \in New(1) : i = Len(queue) + 1 /\ queue'[i] = g
      /\ \A i \in 1 .. Len(queue') : i \in 1 .. Len(queue) \/ i \in New(1)
  BY <1>3 DEF Grew, New
<1>5. Types'
  <2>1. \A i \in 1 .. Len(queue') : CommandFits(queue'[i])
    BY <1>2, <1>3, <1>4 DEF IInv, Types
  <2>2. \A i \in 1 .. Len(queue') : CommandFits(queue[i])'
    BY <1>1, <2>1 DEF CommandFits, RowFits, Fits
  <2>3. \A d \in Cams : (Fits(hashes[d], d) /\ Fits(probed[d], d) /\ RowFits(rows[d], d))'
    BY <1>1 DEF IInv, Types, RowFits, Fits
  <2> QED
    BY <1>1, <1>3, <2>2, <2>3 DEF IInv, Types
<1>6. AgentTypes' /\ agent'.at = "asking"
  BY <1>1 DEF IInv, AgentTypes
<1>7. WindowTypes'
  BY <1>1, WindowTypesKept DEF IInv
<1>8. Asked'
  <2>1. \A i \in 1 .. Len(queue) : queue'[i] = queue[i] /\ queue[i].by # "agent"
    BY <1>1, <1>3, NotAsking DEF IInv
  <2>2. ASSUME NEW i \in 1 .. Len(queue'), NEW j \in 1 .. Len(queue'), i # j
        PROVE  queue'[i].by # queue'[j].by \/ queue'[i].by = "nobody"
    <3>1. CASE i \in 1 .. Len(queue) /\ j \in 1 .. Len(queue)
      BY <2>1, <2>2, <3>1 DEF IInv, Asked
    <3>2. CASE i \in New(1) \/ j \in New(1)
      BY <1>2, <1>4, <2>1, <2>2, <3>2
    <3> QED
      BY <1>4, <3>1, <3>2
  <2>3. ASSUME NEW i \in 1 .. Len(queue')
        PROVE  /\ queue'[i].by = "agent" => agent'.at = "asking"
               /\ queue'[i].by = "ui" => Meant(queue[i])'
    <3>1. CASE i \in 1 .. Len(queue)
      BY <1>1, <1>6, <2>1, <3>1 DEF IInv, Asked, Meant
    <3>2. CASE i \in New(1)
      BY <1>2, <1>4, <1>6, <3>2
    <3> QED
      BY <1>4, <3>1, <3>2
  <2> QED
    BY <2>2, <2>3 DEF Asked
<1>9. FewUpdates'
  <2>1. Cardinality(Updates') = Cardinality(Updates)
    BY <1>2, <1>4, GrewUpdates DEF IInv, New
  <2>2. Cardinality(Updates) <= MaxUpdates + 1 /\ Cardinality(Updates) <= MaxUpdates
    BY <1>1 DEF IInv, FewUpdates
  <2> QED
    BY <2>1, <2>2 DEF FewUpdates
<1>10. LatestIsKnown'
  <2>1. \A i \in New(1) : \A d \in Cams : ~Partial(i, d)'
    BY <1>2, <1>4 DEF Partial
  <2> QED
    BY <1>1, <1>4, <2>1, GrewLatest DEF IInv, New
<1>11. KnownIsStored'
  BY <1>1, <1>4, GrewUnderway DEF IInv, KnownIsStored
<1>12. UrlKept'
  <2>1. \A i \in 1 .. Len(queue') : queue'[i].op = "save" =>
          i \in 1 .. Len(queue) /\ queue'[i] = queue[i]
    BY <1>2, <1>3, <1>4
  <2> QED
    BY <1>1, <2>1 DEF IInv, UrlKept, AssignedHasUrl
<1> QED
  BY <1>5, <1>6, <1>7, <1>8, <1>9, <1>10, <1>11, <1>12 DEF IInv

\* What a poll posts is remembered, and the latest about its cameras.
LEMMA PollEndStep ==
  ASSUME IInv, PollEnd
  PROVE  IInv'
<1>1. /\ agent.at = "polling" /\ agent' = Asleep
      /\ hashes' = [c \in Cams |-> IF c \in NewOrChanged THEN agent.found[c] ELSE hashes[c]]
      /\ UNCHANGED <<net, probed, rows, items, listed, ui, wizard, count>>
  BY DEF PollEnd, shown
<1>2. /\ NewOrChanged \in SUBSET Cams
      /\ \A c \in NewOrChanged : agent.found[c] \in 0 .. net[c]
  BY DEF IInv, AgentTypes, NewOrChanged
<1>3. \A c \in Cams : net[c] \in Nat /\ net[c] <= MaxMoves /\ MaxMoves \in Nat
  BY DiscoveryConstants DEF IInv, Types
<1>4. /\ hashes' \in [Cams -> Addresses] /\ \A c \in Cams : Fits(hashes[c], c)'
      /\ \A c \in NewOrChanged : hashes'[c] = agent.found[c]
      /\ \A c \in Cams \ NewOrChanged : hashes'[c] = hashes[c]
  <2>1. hashes \in [Cams -> Addresses] /\ \A c \in Cams : Fits(hashes[c], c)
    BY DEF IInv, Types
  <2>2. \A c \in NewOrChanged : agent.found[c] \in Addresses
    BY <1>2, <1>3 DEF Addresses
  <2>3. hashes' \in [Cams -> Addresses]
    BY <1>1, <2>1, <2>2
  <2>4. /\ \A c \in NewOrChanged : hashes'[c] = agent.found[c]
        /\ \A c \in Cams \ NewOrChanged : hashes'[c] = hashes[c]
    BY <1>1, <1>2
  <2>5. \A c \in Cams : Fits(hashes[c], c)'
    BY <1>1, <1>2, <2>1, <2>4 DEF Fits
  <2> QED
    BY <2>3, <2>4, <2>5
<1>5. AgentTypes'
  <2>1. \A c \in DOMAIN Asleep.found : Asleep.found[c] \in 0 .. net'[c]
    BY AsleepTypes
  <2> QED
    BY <1>1, <2>1, AsleepTypes DEF AgentTypes
<1>6. WindowTypes'
  BY <1>1, WindowTypesKept DEF IInv
<1>7. \A i \in 1 .. Len(queue) : queue[i].by # "agent"
  BY <1>1, NotAsking DEF IInv
<1>8. CASE queue' = queue /\ NewOrChanged = {}
  <2>1. hashes' = hashes
    BY <1>4, <1>8 DEF IInv, Types
  <2>2. Types'
    BY <1>1, <1>8, <2>1, TypesKept, CountKept DEF IInv
  <2>3. LatestIsKnown' /\ UrlKept' /\ KnownIsStored'
    BY <1>1, <1>8, <2>1, LatestKept, UrlKeptKept, KnownKept DEF IInv
  <2>4. Asked'
    BY <1>1, <1>7, <1>8 DEF IInv, Asked, Meant
  <2>5. FewUpdates'
    BY <1>1, <1>8, AsleepTypes DEF IInv, FewUpdates, Updates
  <2> QED
    BY <1>5, <1>6, <2>2, <2>3, <2>4, <2>5 DEF IInv
<1>9. ASSUME NEW configs,
             configs = [c \in NewOrChanged |->
                          [addr |-> agent.found[c], url |-> None, full |-> FALSE]],
             queue' = Append(queue, Update(configs))
      PROVE  IInv'
  <2>1. /\ configs \in [NewOrChanged -> Configs]
        /\ \A c \in NewOrChanged : /\ configs[c].addr = agent.found[c]
                                   /\ configs[c].url = None /\ ~configs[c].full
    <3>1. ASSUME NEW c \in NewOrChanged
          PROVE  /\ configs[c] \in Configs /\ configs[c].addr = agent.found[c]
                 /\ configs[c].url = None /\ ~configs[c].full
      <4>1. configs[c] = [addr |-> agent.found[c], url |-> None, full |-> FALSE]
        BY <1>9
      <4>2. c \in Cams /\ agent.found[c] \in Addresses /\ None \in Addresses
        BY <1>2, <1>3 DEF Addresses
      <4> QED
        BY <4>1, <4>2 DEF Configs
    <3>2. configs \in [NewOrChanged -> Configs]
      BY <1>9, <3>1
    <3> QED
      BY <3>1, <3>2
  <2>2. PICK u \in Commands : /\ u = Update(configs) /\ u.op = "update" /\ u.by = "nobody"
                              /\ u.configs = configs
    BY <1>2, <2>1, UpdateMade
  <2>3. DOMAIN u.configs = NewOrChanged
    BY <2>1, <2>2
  <2>4. CommandFits(u)'
    BY <1>1, <1>2, <2>1, <2>2, <2>3 DEF CommandFits, Fits
  <2>5. /\ queue \in Seq(Commands) /\ Len(queue) \in Nat
        /\ queue' \in Seq(Commands) /\ Len(queue') = Len(queue) + 1
        /\ \A i \in 1 .. Len(queue) : queue'[i] = queue[i]
        /\ queue'[Len(queue) + 1] = u
    BY <1>9, <2>2, QueueShape, AppendedCommand DEF IInv
  <2>6. /\ Grew(1) /\ \A i \in New(1) : i = Len(queue) + 1 /\ queue'[i] = u
        /\ Len(queue) + 1 \in New(1) /\ Len(queue) + 1 \in 1 .. Len(queue')
        /\ \A i \in 1 .. Len(queue') : i \in 1 .. Len(queue) \/ i \in New(1)
    BY <2>5 DEF Grew, New
  <2>7. Types'
    <3>1. \A i \in 1 .. Len(queue) : CommandFits(queue'[i])
      BY <2>5 DEF IInv, Types
    <3>2. \A i \in 1 .. Len(queue) : CommandFits(queue[i])'
      BY <1>1, <3>1 DEF CommandFits, RowFits, Fits
    <3>3. \A i \in 1 .. Len(queue') : CommandFits(queue[i])'
      BY <2>4, <2>6, <3>2
    <3>4. \A c \in Cams : (Fits(probed[c], c) /\ RowFits(rows[c], c))'
      BY <1>1 DEF IInv, Types, RowFits, Fits
    <3> QED
      BY <1>1, <1>4, <2>5, <3>3, <3>4 DEF IInv, Types
  <2>8. Asked'
    <3>1. \A i \in 1 .. Len(queue') : i \in New(1) => queue'[i].by = "nobody"
      BY <2>2, <2>6
    <3>2. ASSUME NEW i \in 1 .. Len(queue'), NEW j \in 1 .. Len(queue'), i # j
          PROVE  queue'[i].by # queue'[j].by \/ queue'[i].by = "nobody"
      <4>1. CASE i \in 1 .. Len(queue) /\ j \in 1 .. Len(queue)
        BY <2>5, <3>2, <4>1 DEF IInv, Asked
      <4>2. CASE i \in New(1) \/ j \in New(1)
        BY <3>1, <4>2
      <4> QED
        BY <2>6, <4>1, <4>2
    <3>3. ASSUME NEW i \in 1 .. Len(queue')
          PROVE  /\ queue'[i].by = "agent" => agent'.at = "asking"
                 /\ queue'[i].by = "ui" => Meant(queue[i])'
      <4>1. CASE i \in 1 .. Len(queue)
        BY <1>1, <1>7, <2>5, <4>1 DEF IInv, Asked, Meant
      <4>2. CASE i \in New(1)
        BY <3>1, <4>2
      <4> QED
        BY <2>6, <4>1, <4>2
    <3> QED
      BY <3>2, <3>3 DEF Asked
  <2>9. FewUpdates'
    <3>1. Cardinality(Updates') <= Cardinality(Updates) + 1
      <4>1. \A i \in New(1) : i # Len(queue) + 1 => queue'[i].op # "update"
        BY <2>6
      <4> QED
        BY <2>6, <4>1, GrewUpdates DEF IInv, New
    <3>2. Cardinality(Updates) <= MaxUpdates
      BY <1>1 DEF IInv, FewUpdates
    <3>3. /\ Cardinality(Updates) \in Nat /\ Cardinality(Updates') \in Nat
          /\ MaxUpdates \in Nat
      BY <2>6, UpdatesFinite, GrewFinite, DiscoveryConstants DEF IInv
    <3>4. Cardinality(Updates') <= MaxUpdates + 1
      BY <3>1, <3>2, <3>3
    <3> QED
      BY <1>1, <3>4, AsleepTypes DEF FewUpdates
  <2>10. LatestIsKnown'
    <3> SUFFICES ASSUME NEW c \in Cams, hashes'[c] # None, NEW i \in 1 .. Len(queue'),
                        Partial(i, c)',
                        \A j \in 1 .. Len(queue') : i < j => ~Partial(j, c)'
                 PROVE  queue'[i].configs[c].addr = hashes'[c]
      BY DEF LatestIsKnown
    <3>1. CASE i \in New(1)
      <4>1. queue'[i] = u
        BY <2>6, <3>1
      <4>2. c \in NewOrChanged
        BY <2>3, <4>1 DEF Partial
      <4> QED
        BY <1>4, <2>1, <2>2, <4>1, <4>2
    <3>2. CASE i \in 1 .. Len(queue)
      <4>1. PICK last \in 1 .. Len(queue') : last = Len(queue) + 1
        BY <2>6
      <4>2. i < last /\ queue'[last] = u
        BY <2>5, <3>2, <4>1
      <4>3. ~Partial(last, c)'
        BY <4>1, <4>2
      <4>4. c \notin NewOrChanged
        BY <2>1, <2>2, <2>3, <4>2, <4>3 DEF Partial
      <4>5. hashes'[c] = hashes[c]
        BY <1>4, <4>4
      <4>6. Partial(i, c)
        BY <2>5, <3>2 DEF Partial
      <4>7. ASSUME NEW j \in 1 .. Len(queue), i < j
            PROVE  ~Partial(j, c)
        <5>1. j \in 1 .. Len(queue') /\ queue'[j] = queue[j]
          BY <2>5
        <5>2. ~Partial(j, c)'
          BY <4>7, <5>1
        <5> QED
          BY <5>1, <5>2 DEF Partial
      <4> QED
        BY <2>5, <3>2, <4>5, <4>6, <4>7 DEF IInv, LatestIsKnown
    <3> QED
      BY <2>6, <3>1, <3>2
  <2>11. KnownIsStored'
    <3> SUFFICES ASSUME ~count'.lost, NEW c \in Cams, hashes'[c] # None
                 PROVE  \/ Underway(c)'
                        \/ rows'[c] # NoRow /\ (rows'[c].full \/ rows'[c].addr = hashes'[c])
                        \/ ui'.at = "forgetting" /\ ui'.cam = c
      BY DEF KnownIsStored
    <3>1. CASE c \in NewOrChanged
      <4>1. queue'[Len(queue) + 1] = u /\ Len(queue) + 1 \in Updates'
        BY <2>2, <2>5, <2>6, GrewShape DEF IInv
      <4>2. c \in DOMAIN u.configs /\ ~u.configs[c].full
        BY <2>1, <2>2, <2>3, <3>1
      <4> QED
        BY <4>1, <4>2 DEF Underway
    <3>2. CASE c \notin NewOrChanged
      <4>1. hashes'[c] = hashes[c]
        BY <1>4, <3>2
      <4>2. Underway(c) => Underway(c)'
        BY <2>6, GrewUnderway DEF IInv
      <4> QED
        BY <1>1, <4>1, <4>2 DEF IInv, KnownIsStored
    <3> QED
      BY <3>1, <3>2
  <2>12. UrlKept'
    <3>1. \A i \in 1 .. Len(queue') : queue'[i].op = "save" =>
            i \in 1 .. Len(queue) /\ queue'[i] = queue[i]
      BY <2>2, <2>5, <2>6
    <3> QED
      BY <1>1, <3>1 DEF IInv, UrlKept, AssignedHasUrl
  <2> QED
    BY <1>5, <1>6, <2>7, <2>8, <2>9, <2>10, <2>11, <2>12 DEF IInv
<1>10. CASE DOMAIN agent.found = {}
  BY <1>8, <1>10 DEF PollEnd, NewOrChanged
<1>11. CASE DOMAIN agent.found # {}
  <2>1. PICK configs : configs = [c \in NewOrChanged |->
                          [addr |-> agent.found[c], url |-> None, full |-> FALSE]]
    OBVIOUS
  <2>2. queue' = Append(queue, Update(configs))
    BY <1>11, <2>1 DEF PollEnd
  <2> QED
    BY <1>9, <2>1, <2>2
<1> QED
  BY <1>10, <1>11

\* The camera is remembered no more, once the table has it no more.
LEMMA AgentForgetStep ==
  ASSUME IInv, AgentForget
  PROVE  IInv'
<1>1. /\ ui.at = "forgetting" /\ ui' = Resting("idle", TRUE)
      /\ UNCHANGED <<net, agent, probed, rows, queue, items, listed, wizard, count>>
  BY DEF AgentForget, Idle, Resting, shown
<1>2. PICK f \in Cams : f = ui.cam
  BY <1>1 DEF IInv, WindowTypes, OfCamera
<1>3. hashes' = [hashes EXCEPT ![f] = None]
  BY <1>2 DEF AgentForget, Forgotten
<1>4. /\ hashes \in [Cams -> Addresses] /\ hashes' \in [Cams -> Addresses]
      /\ hashes'[f] = None /\ \A c \in Cams : c # f => hashes'[c] = hashes[c]
  <2>1. hashes \in [Cams -> Addresses] /\ None \in Addresses
    BY DEF IInv, Types, Addresses
  <2> QED
    BY <1>3, <2>1
<1>5. Types'
  <2>1. \A i \in 1 .. Len(queue) : CommandFits(queue[i])'
    BY <1>1 DEF IInv, Types, CommandFits, RowFits, Fits
  <2>2. \A c \in Cams : (Fits(hashes[c], c))'
    <3>1. ASSUME NEW c \in Cams
          PROVE  Fits(hashes[c], c)'
      <4>1. hashes'[c] = None \/ hashes'[c] = hashes[c]
        BY <1>4
      <4> QED
        BY <1>1, <4>1 DEF IInv, Types, Fits
    <3> QED
      BY <3>1
  <2>3. \A c \in Cams : (Fits(probed[c], c) /\ RowFits(rows[c], c))'
    BY <1>1 DEF IInv, Types, RowFits, Fits
  <2> QED
    BY <1>1, <1>4, <2>1, <2>2, <2>3 DEF IInv, Types
<1>6. AgentTypes' /\ FewUpdates'
  BY <1>1, AgentTypesKept, FewUpdatesKept DEF IInv
<1>7. ui' \in UiTypes /\ ui'.at = "idle" /\ ui'.snap = NoRow
  BY <1>1, RestingTypes, WizardShape DEF UiTypes
<1>8. ui'.at \notin OfCamera /\ ui'.at # "reading"
  BY <1>7 DEF OfCamera
<1>9. WindowTypes'
  BY <1>1, <1>7, <1>8, WindowShape, WindowMade, RowFitsKept
<1>10. Asked'
  <2>1. \A i \in 1 .. Len(queue) : queue[i].by # "ui"
    BY <1>1, NotWaiting, WaitsShape DEF IInv
  <2> QED
    BY <1>1, <2>1 DEF IInv, Asked
<1>11. LatestIsKnown'
  <2>1. \A i \in 1 .. Len(queue), c \in Cams : Partial(i, c)' <=> Partial(i, c)
    BY <1>1 DEF Partial
  <2>2. \A c \in Cams : hashes'[c] # None => c # f
    BY <1>4
  <2> QED
    BY <1>1, <1>4, <2>1, <2>2 DEF IInv, LatestIsKnown
<1>12. KnownIsStored'
  <2>1. \A c \in Cams : Underway(c) => Underway(c)'
    BY <1>1 DEF Underway, Updates
  <2> QED
    BY <1>1, <1>2, <1>4, <2>1 DEF IInv, KnownIsStored
<1>13. UrlKept'
  <2>1. AssignedHasUrl(ui'.snap)
    BY <1>7, NoRowTypes
  <2> QED
    BY <1>1, <1>7, <2>1 DEF IInv, UrlKept, AssignedHasUrl
<1> QED
  BY <1>5, <1>6, <1>9, <1>10, <1>11, <1>12, <1>13 DEF IInv

-----------------------------------------------------------------------------
(* The network, the process, and what the worker does without a command.   *)

LEMMA MoveStep ==
  ASSUME IInv, NEW m \in Cams, Move(m)
  PROVE  IInv'
<1>1. /\ count.moves < MaxMoves
      /\ net' = [net EXCEPT ![m] = net[m] + 1]
      /\ count' = [count EXCEPT !.moves = count.moves + 1]
      /\ UNCHANGED <<hashes, agent, probed, rows, queue, items, listed, ui, wizard>>
  BY DEF Move, shown
<1>2. /\ count \in Counts /\ count.moves \in Nat /\ MaxMoves \in Nat
      /\ net \in [Cams -> Nat] /\ \A c \in Cams : net[c] <= count.moves
  BY DiscoveryConstants DEF IInv, Types, Counts
<1>3. PICK n \in Nat : n = count.moves /\ n + 1 <= MaxMoves
  BY <1>1, <1>2
<1>4. count' \in Counts /\ count'.moves = n + 1 /\ count'.lost = count.lost
  <2>1. n + 1 \in Nat
    OBVIOUS
  <2> QED
    BY <1>1, <1>2, <1>3, <2>1 DEF Counts
<1>5. /\ net' \in [Cams -> Nat]
      /\ \A c \in Cams : net[c] <= net'[c] /\ net'[c] <= n + 1
  <2>1. net[m] + 1 \in Nat
    BY <1>2
  <2>2. net' \in [Cams -> Nat] /\ \A c \in Cams : net'[c] \in {net[c], net[c] + 1}
    BY <1>1, <1>2, <2>1
  <2>3. \A c \in Cams : net[c] \in Nat /\ net[c] <= n
    BY <1>2, <1>3
  <2> QED
    BY <2>2, <2>3
<1>6. ASSUME NEW a, NEW c \in Cams
      PROVE  /\ Fits(a, c) => Fits(a, c)'
             /\ a \in 0 .. net[c] => a \in 0 .. net'[c]
  <2>1. net[c] \in Nat /\ net'[c] \in Nat /\ net[c] <= net'[c]
    BY <1>2, <1>5
  <2>2. a \in 0 .. net[c] => a \in 0 .. net'[c]
    BY <2>1
  <2> QED
    BY <2>2 DEF Fits
<1>7. ASSUME NEW row, NEW c \in Cams, RowFits(row, c)
      PROVE  RowFits(row, c)'
  <2>1. PICK addr, url : addr = row.addr /\ url = row.url
    OBVIOUS
  <2>2. Fits(addr, c)' /\ Fits(url, c)'
    BY <1>6, <1>7, <2>1 DEF RowFits
  <2> QED
    BY <1>7, <2>1, <2>2 DEF RowFits
<1>8. ASSUME NEW i \in 1 .. Len(queue)
      PROVE  CommandFits(queue[i])'
  <2>1. PICK cmd \in Commands : cmd = queue[i] /\ CommandFits(cmd)
    BY QueueShape DEF IInv, Types
  <2>2. ASSUME cmd.op = "update", NEW c \in DOMAIN cmd.configs
        PROVE  /\ cmd.configs[c].addr \in 0 .. net'[c]
               /\ Fits(cmd.configs[c].url, c)'
               /\ cmd.configs[c].full => cmd.configs[c].url # None
    <3>1. c \in Cams
      BY <2>2, CommandShape
    <3>2. PICK config : config = cmd.configs[c]
      OBVIOUS
    <3>3. PICK addr, url : addr = config.addr /\ url = config.url
      OBVIOUS
    <3>4. addr \in 0 .. net[c] /\ Fits(url, c) /\ (config.full => url # None)
      BY <2>1, <2>2, <3>2, <3>3 DEF CommandFits
    <3>5. addr \in 0 .. net'[c] /\ Fits(url, c)'
      BY <1>6, <3>1, <3>4
    <3> QED
      BY <3>2, <3>3, <3>4, <3>5
  <2>3. ASSUME cmd.op = "save"
        PROVE  RowFits(cmd.row, cmd.cam)' /\ cmd.row.state # "none" /\ cmd.row.full
    <3>1. PICK row \in AllRows, c \in Cams : row = cmd.row /\ c = cmd.cam
      BY <2>3, CommandShape
    <3>2. RowFits(row, c) /\ row.state # "none" /\ row.full
      BY <2>1, <2>3, <3>1 DEF CommandFits
    <3>3. RowFits(row, c)'
      BY <1>7, <3>2
    <3> QED
      BY <3>1, <3>2, <3>3
  <2>4. CommandFits(cmd)'
    BY <2>2, <2>3 DEF CommandFits
  <2> QED
    BY <1>1, <2>1, <2>4
<1>9. Types'
  <2>1. ASSUME NEW c \in Cams
        PROVE  (Fits(hashes[c], c) /\ Fits(probed[c], c) /\ RowFits(rows[c], c))'
    <3>1. PICK h, p, row : h = hashes[c] /\ p = probed[c] /\ row = rows[c]
      OBVIOUS
    <3>2. Fits(h, c) /\ Fits(p, c) /\ RowFits(row, c)
      BY <3>1 DEF IInv, Types
    <3>3. Fits(h, c)' /\ Fits(p, c)' /\ RowFits(row, c)'
      BY <1>6, <1>7, <3>2
    <3> QED
      BY <1>1, <3>1, <3>3
  <2>2. count'.moves <= MaxMoves /\ \A c \in Cams : net'[c] <= count'.moves
    BY <1>3, <1>4, <1>5
  <2> QED
    BY <1>1, <1>4, <1>5, <1>8, <2>1, <2>2 DEF IInv, Types, Counts
<1>10. AgentTypes'
  <2>1. ASSUME NEW c \in DOMAIN agent.found
        PROVE  agent.found[c] \in 0 .. net'[c]
    <3>1. c \in Cams /\ agent.found[c] \in 0 .. net[c]
      BY DEF IInv, AgentTypes
    <3> QED
      BY <1>6, <3>1
  <2> QED
    BY <1>1, <2>1 DEF IInv, AgentTypes
<1>11. WindowTypes'
  <2>1. ASSUME ui.at = "picked"
        PROVE  RowFits(ui.snap, ui.cam)'
    <3>1. PICK row \in AllRows, c \in Cams : row = ui.snap /\ c = ui.cam
      BY <2>1 DEF IInv, WindowTypes, OfCamera
    <3>2. RowFits(row, c)'
      BY <1>7, <2>1, <3>1 DEF IInv, WindowTypes
    <3> QED
      BY <1>1, <3>1, <3>2
  <2>2. ASSUME wizard.cam # None, ui.at # "reading"
        PROVE  RowFits(wizard.snap, wizard.cam)'
    <3>1. PICK row \in AllRows, c \in Cams : row = wizard.snap /\ c = wizard.cam
      BY <2>2, WindowShape DEF WizardTypes
    <3>2. RowFits(row, c)'
      BY <1>7, <2>2, <3>1, WindowShape
    <3> QED
      BY <1>1, <3>1, <3>2
  <2> QED
    BY <1>1, <2>1, <2>2 DEF IInv, WindowTypes
<1>12. Asked' /\ FewUpdates' /\ LatestIsKnown' /\ UrlKept'
  BY <1>1, AskedKept, FewUpdatesKept, LatestKept, UrlKeptKept DEF IInv
<1>13. KnownIsStored'
  BY <1>1, <1>4, KnownKept DEF IInv
<1> QED
  BY <1>9, <1>10, <1>11, <1>12, <1>13 DEF IInv

LEMMA CrashStep ==
  ASSUME IInv, Crash
  PROVE  IInv'
<1>1. /\ count' = [count EXCEPT !.crashes = count.crashes + 1, !.lost = FALSE]
      /\ hashes' = [c \in Cams |-> None] /\ agent' = Asleep
      /\ probed' = [c \in Cams |-> None] /\ queue' = << >>
      /\ items' = << >> /\ listed' = {}
      /\ ui' = Resting("idle", FALSE) /\ wizard' = [NoCamera EXCEPT !.late = wizard.late]
      /\ net' = net /\ rows' = rows
  BY DEF Crash, Idle, Resting
<1>2. queue' \in Seq(Commands) /\ Len(queue') = 0 /\ DOMAIN queue' = {}
  BY <1>1
<1>3. \A i \in 1 .. Len(queue') : FALSE
  BY <1>2
<1>4. count' \in Counts /\ count'.moves = count.moves
  <2>1. count \in Counts
    BY DEF IInv, Types, Counts
  <2>2. count.crashes + 1 \in Nat
    BY <2>1 DEF Counts
  <2> QED
    BY <1>1, <2>1, <2>2 DEF Counts
<1>5. Types'
  <2>1. None \in Addresses /\ \A c \in Cams : hashes'[c] = None /\ probed'[c] = None
    BY <1>1 DEF Addresses
  <2>2. \A c \in Cams : (Fits(hashes[c], c) /\ Fits(probed[c], c) /\ RowFits(rows[c], c))'
    BY <1>1, <2>1 DEF IInv, Types, Fits, RowFits
  <2>3. hashes' \in [Cams -> Addresses] /\ probed' \in [Cams -> Addresses]
    BY <1>1, <2>1
  <2> QED
    BY <1>1, <1>2, <1>3, <1>4, <2>2, <2>3 DEF IInv, Types, Counts
<1>6. AgentTypes'
  <2>1. \A c \in DOMAIN Asleep.found : Asleep.found[c] \in 0 .. net'[c]
    BY AsleepTypes
  <2> QED
    BY <1>1, <2>1, AsleepTypes DEF AgentTypes
<1>7. ui' \in UiTypes /\ ui'.at = "idle" /\ ui'.snap = NoRow
  BY <1>1, RestingTypes, WizardShape DEF UiTypes
<1>8. /\ wizard' \in WizardTypes /\ wizard'.cam = None /\ wizard'.snap = NoRow
      /\ wizard'.late = wizard.late
  <2>1. wizard' = [cam |-> None, snap |-> NoRow, probes |-> 0, late |-> wizard.late]
    BY <1>1 DEF NoCamera
  <2>2. wizard.late \in BOOLEAN
    BY WindowShape DEF WizardTypes
  <2> QED
    BY <2>1, <2>2, NoRowTypes DEF WizardTypes
<1>9. WindowTypes'
  <2>1. ui'.at \notin OfCamera /\ ui'.at # "reading"
    BY <1>7 DEF OfCamera
  <2>2. listed' \subseteq Cams /\ \A i \in DOMAIN items' : items'[i] \in Cams
    BY <1>1
  <2> QED
    BY <1>7, <1>8, <2>1, <2>2, WindowMade
<1>10. Asked' /\ LatestIsKnown'
  BY <1>3 DEF Asked, LatestIsKnown
<1>11. FewUpdates'
  <2>1. Updates' = {}
    BY <1>2 DEF Updates
  <2>2. Cardinality({}) = 0 /\ MaxUpdates \in Nat
    BY FS_EmptySet, DiscoveryConstants
  <2> QED
    BY <2>1, <2>2 DEF FewUpdates
<1>12. KnownIsStored'
  BY <1>1 DEF KnownIsStored
<1>13. UrlKept'
  <2>1. AssignedHasUrl(ui'.snap)
    BY <1>7, NoRowTypes
  <2> QED
    BY <1>1, <1>3, <1>7, <1>8, <2>1 DEF IInv, UrlKept, AssignedHasUrl
<1> QED
  BY <1>5, <1>6, <1>9, <1>10, <1>11, <1>12, <1>13 DEF IInv

Others == <<net, hashes, agent, probed, rows, queue, items, listed, ui, wizard, count>>

LEMMA OthersKept ==
  ASSUME IInv, UNCHANGED Others
  PROVE  IInv'
<1>1. UNCHANGED <<net, hashes, agent, probed, rows, queue, items, listed, ui, wizard, count>>
  BY DEF Others
<1> QED
  BY <1>1, TypesKept, CountKept, AgentTypesKept, WindowTypesKept, AskedKept, FewUpdatesKept,
     LatestKept, KnownKept, UrlKeptKept DEF IInv

-----------------------------------------------------------------------------
(* Commands are executed, and answered.                                    *)

LEMMA AfterValues ==
  /\ After["reading"] = "credentials" /\ After["probing"] = "waiting"
  /\ After["opening"] = "dialog" /\ After["picking"] = "picked"
  /\ After["finding"] = "found" /\ After["saving"] = "idle"
  /\ After["removing"] = "forgetting"
BY DEF After

\* What the answer to the main thread does to it.
LEMMA Answered ==
  ASSUME IInv, NEW cmd \in Commands, cmd.by = "ui", Meant(cmd),
         NEW row \in AllRows, RowFits(row, cmd.cam), Answer(cmd, row)
  PROVE  /\ ui' \in UiTypes /\ wizard' \in WizardTypes
         /\ ui'.at \notin Waits /\ ui'.snap \in {row, NoRow, ui.snap}
         /\ ui'.at \in OfCamera => ui'.cam = ui.cam /\ ui.cam \in Cams /\ ui.cam = cmd.cam
         /\ ui'.at = "picked" => ui'.snap = row
         /\ cmd.op = "remove" => ui'.at = "forgetting"
         /\ ui'.at \in {"waiting", "wizard"} => wizard'.snap = row /\ row.url # None
         /\ wizard'.late = wizard.late /\ wizard'.cam = wizard.cam
         /\ ui.at \in {"reading", "probing"} => wizard'.snap = row /\ wizard.cam = cmd.cam
         /\ ui.at \notin {"reading", "probing"} => wizard'.snap = wizard.snap
<1>1. /\ ui \in UiTypes /\ wizard \in WizardTypes /\ ui.forced \in BOOLEAN
  BY WindowShape DEF UiTypes
<1>2. /\ ui.at \in {"reading", "probing", "opening", "picking", "finding", "saving", "removing"}
      /\ (ui.at = "saving") <=> (cmd.op = "save")
      /\ (ui.at = "removing") <=> (cmd.op = "remove")
  BY WaitsShape DEF Meant
<1>3. ui.at \in {"opening", "picking", "finding", "removing"} =>
        ui.cam \in Cams /\ ui.cam = cmd.cam
  BY DEF IInv, WindowTypes, Meant, OfCamera
<1>4. /\ ui.at \in {"reading", "probing"} =>
           /\ wizard.cam = cmd.cam
           /\ wizard' = [wizard EXCEPT !.snap = row,
                           !.probes = IF ui'.at = "waiting" THEN wizard.probes + 1
                                      ELSE wizard.probes]
      /\ ui.at \notin {"reading", "probing"} => wizard' = wizard
  BY DEF Answer, Meant
<1>5. /\ wizard' \in WizardTypes /\ wizard'.late = wizard.late /\ wizard'.cam = wizard.cam
      /\ ui.at \in {"reading", "probing"} => wizard'.snap = row /\ wizard.cam = cmd.cam
      /\ ui.at \notin {"reading", "probing"} => wizard'.snap = wizard.snap
  <2>1. CASE ui.at \in {"reading", "probing"}
    <3>1. PICK probes \in Nat : wizard' = [wizard EXCEPT !.snap = row, !.probes = probes]
      <4>1. wizard.probes \in Nat /\ wizard.probes + 1 \in Nat
        BY <1>1 DEF WizardTypes
      <4> QED
        BY <1>4, <2>1, <4>1
    <3> QED
      BY <1>1, <1>4, <2>1, <3>1 DEF WizardTypes
  <2>2. CASE ui.at \notin {"reading", "probing"}
    BY <1>1, <1>4, <2>2
  <2> QED
    BY <2>1, <2>2
<1>6. CASE ui.at = "saving"
  <2>1. ui' = Resting("idle", ui.forced)
    BY <1>2, <1>6 DEF Answer, Idle, Resting
  <2>2. ui' \in UiTypes /\ ui'.at = "idle" /\ ui'.snap = NoRow
    BY <1>1, <2>1, RestingTypes, WizardShape DEF UiTypes
  <2>3. "idle" \notin Waits /\ "idle" \notin OfCamera
    BY WizardShape
  <2> QED
    BY <1>2, <1>5, <1>6, <2>2, <2>3
<1>7. CASE ui.at = "probing" /\ row.url = None
  <2>1. ui' = [ui EXCEPT !.at = "error"]
    BY <1>2, <1>7 DEF Answer
  <2>2. "error" \in UiSteps /\ "error" \notin Waits /\ "error" \notin OfCamera
    BY WizardShape DEF WizardSteps
  <2>3. ui' \in UiTypes /\ ui'.at = "error" /\ ui'.snap = ui.snap
    BY <1>1, <2>1, <2>2 DEF UiTypes
  <2> QED
    BY <1>2, <1>5, <1>7, <2>2, <2>3
<1>8. CASE ui.at # "saving" /\ ~(ui.at = "probing" /\ row.url = None)
  <2>1. PICK at, snap :
          /\ at = After[ui.at]
          /\ snap = (IF ui.at \in {"opening", "picking", "finding"} THEN row ELSE NoRow)
    OBVIOUS
  <2>2. ui' = [ui EXCEPT !.at = at, !.snap = snap]
    BY <1>2, <1>8, <2>1 DEF Answer
  <2>3. \/ at = "credentials" /\ ui.at = "reading"
        \/ at = "waiting" /\ ui.at = "probing"
        \/ at = "dialog" /\ ui.at = "opening"
        \/ at = "picked" /\ ui.at = "picking"
        \/ at = "found" /\ ui.at = "finding"
        \/ at = "forgetting" /\ ui.at = "removing"
    BY <1>2, <1>8, <2>1, AfterValues
  <2>4. at \in UiSteps /\ at \notin Waits
    BY <2>3, WaitsShape DEF UiSteps
  <2>5. snap \in AllRows /\ snap \in {row, NoRow} /\ (ui.at = "picking" => snap = row)
    BY <2>1, NoRowTypes
  <2>6. ui' \in UiTypes /\ ui'.at = at /\ ui'.snap = snap /\ ui'.cam = ui.cam
    BY <1>1, <2>2, <2>4, <2>5 DEF UiTypes
  <2>7. at \in OfCamera => ui.at \in {"opening", "picking", "finding", "removing"}
    BY <2>3 DEF OfCamera
  <2>8. at \in {"waiting", "wizard"} => ui.at = "probing" /\ row.url # None
    BY <1>8, <2>3
  <2>9. /\ at = "picked" => ui.at = "picking"
        /\ ui.at = "removing" => at = "forgetting"
    BY <2>3
  <2>10. /\ ui'.at \in OfCamera => ui'.cam = ui.cam /\ ui.cam \in Cams /\ ui.cam = cmd.cam
         /\ ui'.at \in {"waiting", "wizard"} => wizard'.snap = row /\ row.url # None
    BY <1>3, <1>5, <2>6, <2>7, <2>8
  <2>11. /\ ui'.at = "picked" => ui'.snap = row
         /\ cmd.op = "remove" => ui'.at = "forgetting"
    BY <1>2, <2>5, <2>6, <2>9
  <2> QED
    BY <1>5, <2>4, <2>5, <2>6, <2>10, <2>11
<1> QED
  BY <1>6, <1>7, <1>8

\* The agent and the main thread when the first command is taken and answered.
LEMMA Taken ==
  ASSUME IInv, Took, NEW cmd \in Commands, cmd = Head(queue), NEW row \in AllRows,
         cmd.by = "ui" => RowFits(row, cmd.cam), Answer(cmd, row),
         UNCHANGED <<net, hashes, items, listed>>
  PROVE  /\ AgentTypes' /\ WindowTypes' /\ Asked' /\ FewUpdates' /\ LatestIsKnown'
         /\ \A i \in 1 .. Len(queue') : CommandFits(queue[i])'
         /\ CommandFits(cmd) /\ cmd = queue[1]
         /\ cmd.by = "ui" => Meant(cmd)
         /\ cmd.by # "ui" => ui' = ui /\ wizard' = wizard
         /\ wizard'.late = wizard.late
         /\ \A i \in 1 .. Len(queue') : i + 1 \in 1 .. Len(queue) /\ queue'[i] = queue[i + 1]
<1>1. /\ cmd = queue[1] /\ 1 \in 1 .. Len(queue) /\ Len(queue) \in Nat /\ Len(queue') \in Nat
      /\ \A i \in 1 .. Len(queue') : i + 1 \in 1 .. Len(queue) /\ queue'[i] = queue[i + 1]
  BY TookShape DEF IInv
<1>2. /\ CommandFits(cmd)
      /\ \A i \in 1 .. Len(queue') : CommandFits(queue[i])'
  <2>1. CommandFits(cmd) /\ \A i \in 1 .. Len(queue') : CommandFits(queue'[i])
    BY <1>1 DEF IInv, Types
  <2> QED
    BY <2>1 DEF CommandFits, RowFits, Fits
<1>3. /\ cmd.by = "agent" => agent.at = "asking"
      /\ cmd.by = "ui" => Meant(cmd)
      /\ \A i \in 1 .. Len(queue') : queue'[i].by = cmd.by => cmd.by = "nobody"
  <2>1. /\ cmd.by = "agent" => agent.at = "asking"
        /\ cmd.by = "ui" => Meant(cmd)
    BY <1>1 DEF IInv, Asked
  <2>2. ASSUME NEW i \in 1 .. Len(queue'), queue'[i].by = cmd.by
        PROVE  cmd.by = "nobody"
    <3>1. 1 # i + 1
      BY <1>1
    <3> QED
      BY <1>1, <2>2, <3>1 DEF IInv, Asked
  <2> QED
    BY <2>1, <2>2
<1>4. /\ cmd.by # "ui" => ui' = ui /\ wizard' = wizard
      /\ cmd.by # "agent" => agent' = agent
      /\ cmd.by = "agent" => agent' = [agent EXCEPT !.at = "polling"]
  BY DEF Answer
<1>5. AgentTypes'
  BY <1>4 DEF IInv, AgentTypes
<1>6. WindowTypes'
  <2>1. CASE cmd.by # "ui"
    BY <1>4, <2>1, WindowTypesKept DEF IInv
  <2>2. CASE cmd.by = "ui"
    <3>1. /\ ui' \in UiTypes /\ wizard' \in WizardTypes
          /\ ui'.at \in OfCamera => ui'.cam = ui.cam /\ ui.cam \in Cams /\ ui.cam = cmd.cam
          /\ ui'.at = "picked" => ui'.snap = row
          /\ wizard'.cam = wizard.cam
          /\ ui'.at \notin Waits
          /\ ui.at \in {"reading", "probing"} => wizard'.snap = row /\ wizard.cam = cmd.cam
          /\ ui.at \notin {"reading", "probing"} => wizard'.snap = wizard.snap
      BY <1>3, <2>2, Answered
    <3>2. RowFits(row, cmd.cam) /\ cmd.cam \in Cams /\ cmd.cam # None
      BY <2>2, CommandShape, CamsNotNone
    <3>3. ui'.at # "reading"
      BY <3>1, WaitsShape
    <3>4. wizard'.cam = None => wizard'.snap = NoRow
      BY <3>1, <3>2, WindowShape
    <3>5. wizard'.cam # None => RowFits(wizard.snap, wizard.cam)'
      <4>1. CASE ui.at \in {"reading", "probing"}
        BY <3>1, <3>2, <4>1 DEF RowFits, Fits
      <4>2. CASE ui.at \notin {"reading", "probing"}
        BY <3>1, <4>2, WindowShape DEF RowFits, Fits
      <4> QED
        BY <4>1, <4>2
    <3>6. ui'.at = "picked" => RowFits(ui.snap, ui.cam)'
      <4>1. "picked" \in OfCamera
        BY DEF OfCamera
      <4> QED
        BY <3>1, <3>2, <4>1 DEF RowFits, Fits
    <3>7. ui'.at \in OfCamera => ui'.cam \in Cams
      BY <3>1
    <3>8. listed' \subseteq Cams /\ \A i \in DOMAIN items' : items'[i] \in Cams
      BY WindowShape
    <3> QED
      BY <3>1, <3>3, <3>4, <3>5, <3>6, <3>7, <3>8 DEF WindowTypes, UiTypes, WizardTypes
  <2> QED
    BY <2>1, <2>2
<1>7. Asked'
  <2>1. ASSUME NEW i \in 1 .. Len(queue'), NEW j \in 1 .. Len(queue'), i # j
        PROVE  queue'[i].by # queue'[j].by \/ queue'[i].by = "nobody"
    <3>1. i + 1 # j + 1
      BY <2>1
    <3> QED
      BY <1>1, <3>1 DEF IInv, Asked
  <2>2. ASSUME NEW i \in 1 .. Len(queue')
        PROVE  /\ queue'[i].by = "agent" => agent'.at = "asking"
               /\ queue'[i].by = "ui" => Meant(queue[i])'
    <3>1. ASSUME queue'[i].by = "agent"
          PROVE  agent'.at = "asking"
      <4>1. cmd.by # "agent" /\ agent.at = "asking"
        BY <1>1, <1>3, <3>1 DEF IInv, Asked
      <4> QED
        BY <1>4, <4>1
    <3>2. ASSUME queue'[i].by = "ui"
          PROVE  Meant(queue[i])'
      <4>1. cmd.by # "ui" /\ Meant(queue'[i])
        BY <1>1, <1>3, <3>2 DEF IInv, Asked
      <4> QED
        BY <1>4, <4>1 DEF Meant
    <3> QED
      BY <3>1, <3>2
  <2> QED
    BY <2>1, <2>2 DEF Asked
<1>8. FewUpdates'
  <2>1. /\ Cardinality(Updates') <= Cardinality(Updates)
        /\ Cardinality(Updates') \in Nat /\ Cardinality(Updates) \in Nat /\ MaxUpdates \in Nat
    BY TookUpdates, TookFinite, UpdatesFinite, DiscoveryConstants DEF IInv
  <2>2. agent'.at \in {"polling", "asking"} => agent.at \in {"polling", "asking"}
    BY <1>3, <1>4
  <2> QED
    BY <2>1, <2>2 DEF IInv, FewUpdates
<1>9. LatestIsKnown'
  BY TookLatest DEF IInv
<1>10. wizard'.late = wizard.late
  BY <1>3, <1>4, Answered
<1> QED
  BY <1>1, <1>2, <1>3, <1>4, <1>5, <1>6, <1>7, <1>8, <1>9, <1>10

LEMMA UpsertedRow ==
  ASSUME NEW row \in AllRows, NEW c \in Cams, RowFits(row, c), NEW config \in Configs,
         config.addr \in 0 .. net[c], Fits(config.url, c)
  PROVE  /\ RowFits(Upserted(row, config), c) /\ Upserted(row, config) # NoRow
         /\ Upserted(row, config).addr = config.addr
         /\ Upserted(row, config).full = config.full
         /\ AssignedHasUrl(row) => AssignedHasUrl(Upserted(row, config))
<1>1. PICK url, state : /\ url = (IF config.url = None THEN row.url ELSE config.url)
                        /\ state = (IF row = NoRow THEN "discovered" ELSE row.state)
  OBVIOUS
<1>2. PICK new : new = Upserted(row, config)
  OBVIOUS
<1>3. new = [addr |-> config.addr, url |-> url, state |-> state, full |-> config.full]
  BY <1>1, <1>2 DEF Upserted
<1>4. state \in {"discovered", "assigned"} /\ (state = "assigned" => row.state = "assigned")
  BY <1>1 DEF RowFits, AllRows
<1>5. /\ url \in Addresses /\ Fits(url, c) /\ (row.url # None => url # None)
      /\ config.addr \in Addresses /\ config.full \in BOOLEAN /\ Fits(config.addr, c)
  BY <1>1 DEF RowFits, AllRows, Configs, Fits
<1>6. /\ new \in AllRows /\ new.addr = config.addr /\ new.url = url /\ new.state = state
      /\ new.full = config.full
  BY <1>3, <1>4, <1>5 DEF AllRows
<1>7. new # NoRow
  BY <1>4, <1>6 DEF NoRow
<1>8. RowFits(new, c)
  BY <1>4, <1>5, <1>6, <1>7 DEF RowFits
<1>9. AssignedHasUrl(row) => AssignedHasUrl(new)
  BY <1>4, <1>5, <1>6 DEF AssignedHasUrl
<1> QED
  BY <1>2, <1>6, <1>7, <1>8, <1>9

\* The table after a command that fits.
LEMMA AppliedRows ==
  ASSUME Types, NEW cmd \in Commands, CommandFits(cmd), NEW c \in Cams
  PROVE  /\ Applied(cmd) \in [Cams -> AllRows] /\ RowFits(Applied(cmd)[c], c)
         /\ \/ Applied(cmd)[c] = rows[c]
            \/ /\ cmd.op = "update" /\ c \in DOMAIN cmd.configs
               /\ Applied(cmd)[c] # NoRow
               /\ Applied(cmd)[c].addr = cmd.configs[c].addr
               /\ Applied(cmd)[c].full = cmd.configs[c].full
               /\ AssignedHasUrl(rows[c]) => AssignedHasUrl(Applied(cmd)[c])
            \/ /\ cmd.op = "save" /\ cmd.cam = c /\ Applied(cmd)[c] = cmd.row
               /\ cmd.row # NoRow /\ cmd.row.full
            \/ cmd.op = "remove" /\ cmd.cam = c /\ Applied(cmd)[c] = NoRow
<1>1. rows \in [Cams -> AllRows] /\ \A d \in Cams : RowFits(rows[d], d)
  BY DEF Types
<1>2. CASE cmd.op = "update"
  <2>1. Applied(cmd) = [d \in Cams |-> IF d \in DOMAIN cmd.configs
                                       THEN Upserted(rows[d], cmd.configs[d]) ELSE rows[d]]
    BY <1>2 DEF Applied
  <2>2. ASSUME NEW d \in Cams, d \in DOMAIN cmd.configs
        PROVE  /\ RowFits(Upserted(rows[d], cmd.configs[d]), d)
               /\ Upserted(rows[d], cmd.configs[d]) # NoRow
               /\ Upserted(rows[d], cmd.configs[d]).addr = cmd.configs[d].addr
               /\ Upserted(rows[d], cmd.configs[d]).full = cmd.configs[d].full
               /\ AssignedHasUrl(rows[d]) =>
                    AssignedHasUrl(Upserted(rows[d], cmd.configs[d]))
    <3>1. cmd.configs[d] \in Configs
      BY <1>2, <2>2, CommandShape
    <3>2. cmd.configs[d].addr \in 0 .. net[d] /\ Fits(cmd.configs[d].url, d)
      BY <1>2, <2>2 DEF CommandFits
    <3> QED
      BY <1>1, <3>1, <3>2, UpsertedRow
  <2>3. ASSUME NEW d \in Cams
        PROVE  Applied(cmd)[d] \in AllRows /\ RowFits(Applied(cmd)[d], d)
    BY <1>1, <2>1, <2>2 DEF RowFits
  <2>4. Applied(cmd) \in [Cams -> AllRows]
    BY <2>1, <2>3
  <2> QED
    BY <1>2, <2>1, <2>2, <2>3, <2>4
<1>3. CASE cmd.op = "save"
  <2>1. Applied(cmd) = [rows EXCEPT ![cmd.cam] = cmd.row]
    BY <1>3 DEF Applied
  <2>2. /\ cmd.cam \in Cams /\ cmd.row \in AllRows /\ RowFits(cmd.row, cmd.cam)
        /\ cmd.row # NoRow /\ cmd.row.full
    BY <1>3, CommandShape DEF CommandFits, RowFits
  <2>3. /\ Applied(cmd) \in [Cams -> AllRows] /\ Applied(cmd)[cmd.cam] = cmd.row
        /\ c # cmd.cam => Applied(cmd)[c] = rows[c]
    BY <1>1, <2>1, <2>2
  <2> QED
    BY <1>1, <1>3, <2>2, <2>3
<1>4. CASE cmd.op = "remove"
  <2>1. Applied(cmd) = [rows EXCEPT ![cmd.cam] = NoRow]
    BY <1>4 DEF Applied
  <2>2. cmd.cam \in Cams
    BY <1>4, CommandShape
  <2>3. /\ Applied(cmd) \in [Cams -> AllRows] /\ Applied(cmd)[cmd.cam] = NoRow
        /\ c # cmd.cam => Applied(cmd)[c] = rows[c]
    BY <1>1, <2>1, <2>2, NoRowTypes
  <2> QED
    BY <1>1, <1>4, <2>2, <2>3, NoRowTypes
<1>5. CASE cmd.op = "get"
  BY <1>1, <1>5 DEF Applied
<1> QED
  BY <1>2, <1>3, <1>4, <1>5, CommandShape

LEMMA ExecuteStep ==
  ASSUME IInv, Execute
  PROVE  IInv'
<1>1. /\ Took /\ rows' = Applied(Head(queue))
      /\ UNCHANGED <<net, hashes, probed, items, listed, count>>
  BY DEF Execute, Took, shown
<1>2. PICK cmd \in Commands : cmd = Head(queue)
  BY <1>1, TookShape DEF IInv
<1>3. PICK row : /\ row = (IF cmd.cam = None THEN NoRow ELSE rows[cmd.cam])
                 /\ Answer(cmd, row)
  BY <1>2 DEF Execute
<1>4. cmd.op # "update" => cmd.cam \in Cams /\ cmd.cam # None
  BY CommandShape, CamsNotNone
<1>5. /\ row \in AllRows /\ (cmd.by = "ui" => RowFits(row, cmd.cam))
      /\ row = NoRow \/ (cmd.cam \in Cams /\ row = rows[cmd.cam])
  <2>1. CASE cmd.op = "update"
    <3>1. cmd.cam = None /\ cmd.by # "ui"
      BY <2>1, CommandShape
    <3> QED
      BY <1>3, <3>1, NoRowTypes
  <2>2. CASE cmd.op # "update"
    <3>1. row = rows[cmd.cam] /\ cmd.cam \in Cams
      BY <1>3, <1>4, <2>2
    <3> QED
      BY <3>1 DEF IInv, Types
  <2> QED
    BY <2>1, <2>2
<1>6. /\ AgentTypes' /\ WindowTypes' /\ Asked' /\ FewUpdates' /\ LatestIsKnown'
      /\ \A i \in 1 .. Len(queue') : CommandFits(queue[i])'
      /\ CommandFits(cmd) /\ cmd = queue[1]
      /\ cmd.by = "ui" => Meant(cmd)
      /\ cmd.by # "ui" => ui' = ui /\ wizard' = wizard
      /\ wizard'.late = wizard.late
      /\ \A i \in 1 .. Len(queue') : i + 1 \in 1 .. Len(queue) /\ queue'[i] = queue[i + 1]
  BY <1>1, <1>2, <1>3, <1>5, Taken
<1>7. rows' \in [Cams -> AllRows] /\ rows \in [Cams -> AllRows]
  <2>1. \A c \in Cams : Applied(cmd) \in [Cams -> AllRows]
    BY <1>6, AppliedRows DEF IInv
  <2>2. 1 \in Cams
    BY DiscoveryConstants DEF Cams
  <2> QED
    BY <1>1, <1>2, <2>1, <2>2 DEF IInv, Types
<1>8. ASSUME NEW c \in Cams
      PROVE  /\ RowFits(rows'[c], c)
             /\ \/ rows'[c] = rows[c]
                \/ /\ cmd.op = "update" /\ c \in DOMAIN cmd.configs
                   /\ rows'[c] # NoRow /\ rows'[c].addr = cmd.configs[c].addr
                   /\ rows'[c].full = cmd.configs[c].full
                   /\ AssignedHasUrl(rows[c]) => AssignedHasUrl(rows'[c])
                \/ /\ cmd.op = "save" /\ cmd.cam = c /\ rows'[c] = cmd.row
                   /\ cmd.row # NoRow /\ cmd.row.full
                \/ cmd.op = "remove" /\ cmd.cam = c /\ rows'[c] = NoRow
  <2>1. PICK new : new = Applied(cmd)
    OBVIOUS
  <2>2. rows' = new
    BY <1>1, <1>2, <2>1
  <2> QED
    BY <1>6, <2>1, <2>2, AppliedRows DEF IInv
<1>9. Types'
  <2>1. \A c \in Cams : RowFits(rows[c], c)'
    BY <1>1, <1>8 DEF RowFits, Fits
  <2>2. \A c \in Cams : (Fits(hashes[c], c) /\ Fits(probed[c], c))'
    BY <1>1 DEF IInv, Types, Fits
  <2>3. queue' \in Seq(Commands)
    BY <1>1, TookShape DEF IInv
  <2> QED
    BY <1>1, <1>6, <1>7, <2>1, <2>2, <2>3 DEF IInv, Types
<1>10. KnownIsStored'
  <2> SUFFICES ASSUME ~count'.lost, NEW c \in Cams, hashes'[c] # None, ~Underway(c)'
               PROVE  \/ rows'[c] # NoRow /\ (rows'[c].full \/ rows'[c].addr = hashes'[c])
                      \/ ui'.at = "forgetting" /\ ui'.cam = c
    BY DEF KnownIsStored
  <2>1. \/ Underway(c)
        \/ rows[c] # NoRow /\ (rows[c].full \/ rows[c].addr = hashes[c])
        \/ ui.at = "forgetting" /\ ui.cam = c
    BY <1>1 DEF IInv, KnownIsStored
  <2>2. CASE Partial(1, c)
    <3>1. cmd.configs[c].addr = hashes[c]
      BY <1>1, <1>6, <2>2, TookLast DEF IInv
    <3>2. cmd.op = "update" /\ c \in DOMAIN cmd.configs
      BY <1>6, <2>2 DEF Partial
    <3>3. Applied(cmd)[c] = Upserted(rows[c], cmd.configs[c])
      BY <3>2 DEF Applied
    <3>4. /\ RowFits(rows[c], c) /\ rows[c] \in AllRows
          /\ cmd.configs[c] \in Configs
          /\ cmd.configs[c].addr \in 0 .. net[c] /\ Fits(cmd.configs[c].url, c)
      BY <1>6, <3>2, CommandShape DEF IInv, Types, CommandFits
    <3>5. rows'[c] # NoRow /\ rows'[c].addr = cmd.configs[c].addr
      BY <1>1, <1>2, <3>3, <3>4, UpsertedRow
    <3> QED
      BY <1>1, <3>1, <3>5
  <2>3. CASE ~Partial(1, c)
    <3>1. ~Underway(c)
      BY <1>1, <2>3, TookUnderway DEF IInv
    <3>2. CASE ui.at = "forgetting" /\ ui.cam = c
      <4>1. cmd.by # "ui"
        BY <1>6, <3>2, WaitsShape DEF Meant
      <4> QED
        BY <1>6, <3>2, <4>1
    <3>3. CASE rows[c] # NoRow /\ (rows[c].full \/ rows[c].addr = hashes[c])
      <4>1. CASE rows'[c] = rows[c]
        BY <1>1, <3>3, <4>1
      <4>2. CASE /\ cmd.op = "update" /\ c \in DOMAIN cmd.configs
                 /\ rows'[c] # NoRow /\ rows'[c].full = cmd.configs[c].full
        BY <1>6, <2>3, <4>2 DEF Partial
      <4>3. CASE rows'[c] # NoRow /\ rows'[c].full
        BY <4>3
      <4>4. CASE cmd.op = "remove" /\ cmd.cam = c
        <5>1. cmd.by = "ui" /\ cmd.cam \in Cams
          BY <4>4, CommandShape
        <5>2. /\ ui'.at = "forgetting"
              /\ ui'.at \in OfCamera => ui'.cam = ui.cam /\ ui.cam = cmd.cam
          BY <1>3, <1>5, <1>6, <4>4, <5>1, Answered
        <5> QED
          BY <4>4, <5>2 DEF OfCamera
      <4> QED
        BY <1>8, <4>1, <4>2, <4>3, <4>4
    <3> QED
      BY <2>1, <3>1, <3>2, <3>3
  <2> QED
    BY <2>2, <2>3
<1>11. UrlKept'
  <2> SUFFICES ASSUME ~wizard'.late
               PROVE  UrlKept'
    BY DEF UrlKept
  <2>1. /\ \A c \in Cams : AssignedHasUrl(rows[c])
        /\ AssignedHasUrl(ui.snap)
        /\ \A i \in 1 .. Len(queue) : queue[i].op = "save" => AssignedHasUrl(queue[i].row)
        /\ ui.at \in {"waiting", "wizard"} => wizard.snap.url # None
    BY <1>6 DEF IInv, UrlKept
  <2>2. cmd.op = "save" => AssignedHasUrl(cmd.row)
    <3>1. 1 \in 1 .. Len(queue)
      BY <1>1, TookShape DEF IInv
    <3> QED
      BY <1>6, <2>1, <3>1
  <2>3. \A c \in Cams : AssignedHasUrl(rows'[c])
    BY <1>8, <2>1, <2>2, NoRowTypes
  <2>4. \A i \in 1 .. Len(queue') : queue'[i].op = "save" => AssignedHasUrl(queue'[i].row)
    BY <1>6, <2>1
  <2>5. AssignedHasUrl(ui'.snap) /\ (ui'.at \in {"waiting", "wizard"} => wizard'.snap.url # None)
    <3>1. CASE cmd.by # "ui"
      BY <1>6, <2>1, <3>1
    <3>2. CASE cmd.by = "ui"
      <4>1. /\ ui'.snap \in {row, NoRow, ui.snap}
            /\ ui'.at \in {"waiting", "wizard"} => wizard'.snap = row /\ row.url # None
        BY <1>3, <1>5, <1>6, <3>2, Answered
      <4>2. AssignedHasUrl(row)
        BY <1>5, <2>1, NoRowTypes
      <4> QED
        BY <2>1, <4>1, <4>2, NoRowTypes
    <3> QED
      BY <3>1, <3>2
  <2> QED
    BY <2>3, <2>4, <2>5 DEF UrlKept, AssignedHasUrl
<1> QED
  BY <1>6, <1>9, <1>10, <1>11 DEF IInv

LEMMA ExecuteFailsStep ==
  ASSUME IInv, ExecuteFails
  PROVE  IInv'
<1>1. /\ Took /\ Answer(Head(queue), NoRow)
      /\ count' = [count EXCEPT !.fails = count.fails + 1,
                                !.lost = count.lost \/ Head(queue).op = "update"]
      /\ UNCHANGED <<net, hashes, probed, rows, items, listed>>
  BY DEF ExecuteFails, AnswerFailure, Took, shown
<1>2. PICK cmd \in Commands : cmd = Head(queue)
  BY <1>1, TookShape DEF IInv
<1>3. cmd.by = "ui" => cmd.cam \in Cams /\ RowFits(NoRow, cmd.cam)
  BY CommandShape, NoRowTypes
<1>4. /\ AgentTypes' /\ WindowTypes' /\ Asked' /\ FewUpdates' /\ LatestIsKnown'
      /\ \A i \in 1 .. Len(queue') : CommandFits(queue[i])'
      /\ cmd = queue[1]
      /\ cmd.by = "ui" => Meant(cmd)
      /\ cmd.by # "ui" => ui' = ui /\ wizard' = wizard
      /\ wizard'.late = wizard.late
      /\ \A i \in 1 .. Len(queue') : i + 1 \in 1 .. Len(queue) /\ queue'[i] = queue[i + 1]
  BY <1>1, <1>2, <1>3, NoRowTypes, Taken
<1>5. /\ count' \in Counts /\ count'.moves = count.moves
      /\ ~count'.lost => ~count.lost /\ cmd.op # "update"
  <2>1. count \in Counts
    BY DEF IInv, Types, Counts
  <2>2. PICK lost \in BOOLEAN : lost <=> (count.lost \/ cmd.op = "update")
    OBVIOUS
  <2>3. count.lost \in BOOLEAN /\ count.fails + 1 \in Nat
    BY <2>1 DEF Counts
  <2>4. lost = (count.lost \/ Head(queue).op = "update")
    BY <1>2, <2>2, <2>3
  <2>5. count' = [count EXCEPT !.fails = count.fails + 1, !.lost = lost]
    BY <1>1, <2>4
  <2>6. count' \in Counts /\ count'.moves = count.moves /\ count'.lost = lost
    BY <2>1, <2>3, <2>5 DEF Counts
  <2> QED
    BY <2>2, <2>6
<1>6. Types'
  <2>1. \A c \in Cams : (Fits(hashes[c], c) /\ Fits(probed[c], c) /\ RowFits(rows[c], c))'
    BY <1>1 DEF IInv, Types, Fits, RowFits
  <2>2. queue' \in Seq(Commands)
    BY <1>1, TookShape DEF IInv
  <2> QED
    BY <1>1, <1>4, <1>5, <2>1, <2>2 DEF IInv, Types, Counts
<1>7. KnownIsStored'
  <2> SUFFICES ASSUME ~count'.lost, NEW c \in Cams, hashes'[c] # None, ~Underway(c)'
               PROVE  \/ rows'[c] # NoRow /\ (rows'[c].full \/ rows'[c].addr = hashes'[c])
                      \/ ui'.at = "forgetting" /\ ui'.cam = c
    BY DEF KnownIsStored
  <2>1. ~Partial(1, c)
    BY <1>4, <1>5 DEF Partial
  <2>2. ~Underway(c)
    BY <1>1, <2>1, TookUnderway DEF IInv
  <2>3. ui.at = "forgetting" => ui' = ui
    BY <1>4, WaitsShape DEF Meant
  <2> QED
    BY <1>1, <1>5, <2>2, <2>3 DEF IInv, KnownIsStored
<1>8. UrlKept'
  <2> SUFFICES ASSUME ~wizard'.late
               PROVE  UrlKept'
    BY DEF UrlKept
  <2>1. /\ \A c \in Cams : AssignedHasUrl(rows[c])
        /\ AssignedHasUrl(ui.snap)
        /\ \A i \in 1 .. Len(queue) : queue[i].op = "save" => AssignedHasUrl(queue[i].row)
        /\ ui.at \in {"waiting", "wizard"} => wizard.snap.url # None
    BY <1>4 DEF IInv, UrlKept
  <2>2. \A i \in 1 .. Len(queue') : queue'[i].op = "save" => AssignedHasUrl(queue'[i].row)
    BY <1>4, <2>1
  <2>3. AssignedHasUrl(ui'.snap) /\ (ui'.at \in {"waiting", "wizard"} => wizard'.snap.url # None)
    <3>1. CASE cmd.by # "ui"
      BY <1>4, <2>1, <3>1
    <3>2. CASE cmd.by = "ui"
      <4>1. /\ ui'.snap \in {NoRow, ui.snap}
            /\ ui'.at \in {"waiting", "wizard"} => wizard'.snap = NoRow /\ NoRow.url # None
        BY <1>1, <1>2, <1>3, <1>4, <3>2, NoRowTypes, Answered
      <4> QED
        BY <2>1, <4>1, NoRowTypes
    <3> QED
      BY <3>1, <3>2
  <2> QED
    BY <1>1, <2>1, <2>2, <2>3 DEF UrlKept, AssignedHasUrl
<1> QED
  BY <1>4, <1>6, <1>7, <1>8 DEF IInv

-----------------------------------------------------------------------------
(* The invariant holds.                                                    *)

LEMMA InitInv ==
  Init => IInv
<1> SUFFICES ASSUME Init PROVE IInv
  OBVIOUS
<1>1. /\ net = [c \in Cams |-> 0]
      /\ hashes = [c \in Cams |-> None] /\ probed = [c \in Cams |-> None]
      /\ rows = [c \in Cams |-> IF c \in Recorded THEN AssignedRow(0) ELSE NoRow]
      /\ queue = << >> /\ items = << >> /\ listed = {}
      /\ agent = Asleep /\ ui = Resting("idle", FALSE) /\ wizard = NoCamera
      /\ count = [moves |-> 0, fails |-> 0, crashes |-> 0, flows |-> 0, lost |-> FALSE]
  BY DEF Init, Idle, Resting
<1>2. queue \in Seq(Commands) /\ Len(queue) = 0 /\ DOMAIN queue = {} /\ MaxMoves \in Nat
  BY <1>1, DiscoveryConstants
<1>3. \A i \in 1 .. Len(queue) : FALSE
  BY <1>2
<1>4. /\ AssignedRow(0) \in AllRows /\ AssignedRow(0).addr = 0 /\ AssignedRow(0).url = 0
      /\ AssignedRow(0).state = "assigned"
  <2>1. 0 \in Addresses
    BY <1>2 DEF Addresses
  <2> QED
    BY <2>1 DEF AssignedRow, AllRows
<1>5. \A c \in Cams : net[c] = 0
  BY <1>1
<1>6. \A c \in Cams : Fits(0, c) /\ Fits(None, c)
  BY <1>5 DEF Fits
<1>7. \A c \in Cams : RowFits(AssignedRow(0), c)
  <2>1. AssignedRow(0) # NoRow
    BY <1>4 DEF NoRow
  <2> QED
    BY <1>4, <1>6, <2>1 DEF RowFits
<1>8. ASSUME NEW c \in Cams
      PROVE  rows[c] \in AllRows /\ RowFits(rows[c], c) /\ AssignedHasUrl(rows[c])
  <2>1. CASE c \in Recorded
    <3>1. rows[c] = AssignedRow(0)
      BY <1>1, <2>1
    <3>2. AssignedHasUrl(AssignedRow(0))
      BY <1>4 DEF AssignedHasUrl, None
    <3> QED
      BY <1>4, <1>7, <3>1, <3>2
  <2>2. CASE c \notin Recorded
    <3>1. rows[c] = NoRow
      BY <1>1, <2>2
    <3> QED
      BY <3>1, NoRowTypes
  <2> QED
    BY <2>1, <2>2
<1>9. Types
  <2>1. net \in [Cams -> Nat] /\ None \in Addresses
    BY <1>1 DEF Addresses
  <2>2. hashes \in [Cams -> Addresses] /\ probed \in [Cams -> Addresses]
    BY <1>1, <2>1
  <2>3. rows \in [Cams -> AllRows]
    BY <1>1, <1>8
  <2>4. \A c \in Cams : hashes[c] = None /\ probed[c] = None
    BY <1>1
  <2>5. count \in Counts /\ count.moves = 0
    BY <1>1 DEF Counts
  <2> QED
    BY <1>2, <1>3, <1>5, <1>6, <1>8, <2>1, <2>2, <2>3, <2>4, <2>5 DEF Types, Counts
<1>10. AgentTypes
  BY <1>1, AsleepTypes DEF AgentTypes
<1>11. ui \in UiTypes /\ ui.at = "idle" /\ ui.snap = NoRow
  BY <1>1, RestingTypes, WizardShape DEF UiTypes
<1>12. WindowTypes
  <2>1. wizard \in WizardTypes /\ wizard.cam = None /\ wizard.snap = NoRow
    BY <1>1, NoRowTypes DEF WizardTypes, NoCamera
  <2>2. ui.at \notin OfCamera /\ ui.at # "reading" /\ ui.at # "picked"
    BY <1>11 DEF OfCamera
  <2>3. listed \subseteq Cams /\ \A i \in DOMAIN items : items[i] \in Cams
    BY <1>1
  <2> QED
    BY <1>11, <2>1, <2>2, <2>3 DEF WindowTypes, UiTypes, WizardTypes
<1>13. Asked /\ LatestIsKnown
  BY <1>3 DEF Asked, LatestIsKnown
<1>14. FewUpdates
  <2>1. Updates = {}
    BY <1>2 DEF Updates
  <2>2. Cardinality({}) = 0 /\ MaxUpdates \in Nat
    BY FS_EmptySet, DiscoveryConstants
  <2> QED
    BY <2>1, <2>2 DEF FewUpdates
<1>15. KnownIsStored
  BY <1>1 DEF KnownIsStored
<1>16. UrlKept
  <2>1. AssignedHasUrl(ui.snap)
    BY <1>11, NoRowTypes
  <2> QED
    BY <1>3, <1>8, <1>11, <2>1 DEF UrlKept
<1> QED
  BY <1>9, <1>10, <1>12, <1>13, <1>14, <1>15, <1>16 DEF IInv

LEMMA NextInv ==
  ASSUME IInv, [Next]_vars
  PROVE  IInv'
<1>1. ASSUME NEW D \in SUBSET Cams, PollBegin(D)
      PROVE  IInv'
  BY <1>1, PollBeginStep
<1>2. CASE Agent
  BY <1>2, PollEndStep, AgentEndsStep, AskCredentialsStep DEF Agent
<1>3. CASE Execute
  BY <1>3, ExecuteStep
<1>4. CASE PollTimesOut \/ UpdateCaches
  <2>1. UNCHANGED Others
    BY <1>4 DEF PollTimesOut, UpdateCaches, Others, shown
  <2> QED
    BY <2>1, OthersKept
<1>5. CASE ExecuteFails
  BY <1>5, ExecuteFailsStep
<1>6. CASE RefreshLists
  BY <1>6, RefreshListsStep
<1>7. CASE Program
  BY <1>7, RefreshListsStep, RestSteps, SavePickedStep, RemoveFoundStep, AgentForgetStep
     DEF Program
<1>8. CASE User
  BY <1>8, BeginSteps, RestSteps, InterrogateStep, AssignStep, ConfirmStep DEF User
<1>9. CASE Probes
  BY <1>9, ProbedStep, ProbeFailsStep DEF Probes
<1>10. ASSUME NEW c \in Cams, Move(c)
       PROVE  IInv'
  BY <1>10, MoveStep
<1>11. CASE Crash
  BY <1>11, CrashStep
<1>12. CASE UNCHANGED vars
  <2>1. UNCHANGED Others
    BY <1>12 DEF vars, Others, shown
  <2> QED
    BY <2>1, OthersKept
<1> QED
  BY <1>1, <1>2, <1>3, <1>4, <1>5, <1>6, <1>7, <1>8, <1>9, <1>10, <1>11, <1>12
     DEF Next, Worker

\* Of every table, queue and window the program reaches: what IInv says.
THEOREM Invariance == Spec => []IInv
<1>1. Init => IInv
  BY InitInv
<1>2. IInv /\ [Next]_vars => IInv'
  BY NextInv
<1> QED
  BY <1>1, <1>2, PTL DEF Spec

LEMMA ImpliesTypeOK ==
  ASSUME IInv
  PROVE  TypeOK
<1>1. ASSUME NEW c \in Cams
      PROVE  /\ net[c] \in 0 .. MaxMoves
             /\ {hashes[c], probed[c], rows[c].addr, rows[c].url}
                  \subseteq {None} \cup 0 .. net[c]
             /\ rows[c].state \in {"none", "discovered", "assigned"}
             /\ (rows[c].state = "none") <=> (rows[c] = NoRow)
  <2>1. net[c] \in 0 .. MaxMoves
    <3>1. /\ net[c] \in Nat /\ net[c] <= count.moves
          /\ count.moves \in Nat /\ count.moves <= MaxMoves /\ MaxMoves \in Nat
      BY DiscoveryConstants DEF IInv, Types
    <3> QED
      BY <3>1
  <2>2. Fits(hashes[c], c) /\ Fits(probed[c], c) /\ RowFits(rows[c], c)
    BY DEF IInv, Types
  <2>3. Fits(rows[c].addr, c) /\ Fits(rows[c].url, c)
    BY <2>2 DEF RowFits
  <2>4. {hashes[c], probed[c], rows[c].addr, rows[c].url} \subseteq {None} \cup 0 .. net[c]
    BY <2>2, <2>3 DEF Fits
  <2>5. rows[c].state \in {"none", "discovered", "assigned"}
    BY <2>2 DEF RowFits, AllRows
  <2> QED
    BY <2>1, <2>2, <2>4, <2>5 DEF RowFits
<1>2. Len(queue) <= MaxUpdates + 3
  BY QueueBound DEF IInv
<1> QED
  BY <1>1, <1>2 DEF TypeOK

\* Addresses, rows and the queue are what they may be, for any number of cameras:
\* beside the updates there are at most a command of the agent and one of the window.
THEOREM TypeCorrect == Spec => []TypeOK
<1>1. IInv => TypeOK
  BY ImpliesTypeOK
<1> QED
  BY <1>1, Invariance, PTL

\* What the agent remembers of a camera is in the table or on its way there, through
\* moves, commands that fail, restarts and whatever the user does meanwhile.
THEOREM KnownStored == Spec => []KnownIsStored
<1>1. IInv => KnownIsStored
  BY DEF IInv
<1> QED
  BY <1>1, Invariance, PTL

\* A camera that the wizard assigned has the url it was streamed from.
THEOREM HasUrl == Spec => []RecordedHasUrl
<1>1. IInv => RecordedHasUrl
  BY DEF IInv, UrlKept, RecordedHasUrl, AssignedHasUrl
<1> QED
  BY <1>1, Invariance, PTL
=============================================================================
