------------------------ MODULE ExportCleanupProofs ------------------------
(* Proofs about an export that ends the edit: one tab at a time is let in,   *)
(* and what a cleanup deletes has been exported, has lost its material, and  *)
(* stays deleted; for any number of tabs, versions, sessions and writes.     *)
EXTENDS ExportCleanupProperties, TLAPS, FiniteSetTheorems

-----------------------------------------------------------------------------
(* The write queue *)

\* No write of the queue is awaited.
Plain(q) == \A i \in DOMAIN q : q[i].what = "snapshot"

\* A write at the end of a queue.
LEMMA AppendFacts ==
    ASSUME NEW q \in Seq(Write), NEW w \in Write
    PROVE  /\ Append(q, w) \in Seq(Write)
           /\ DOMAIN q = 1..Len(q) /\ Len(q) \in Nat
           /\ DOMAIN Append(q, w) = 1..(Len(q) + 1)
           /\ Len(Append(q, w)) = Len(q) + 1
           /\ \A i \in 1..Len(q) : Append(q, w)[i] = q[i]
           /\ Append(q, w)[Len(q) + 1] = w
           /\ Append(q, w) # <<>>
  OBVIOUS

\* A queue without its head.
LEMMA TailFacts ==
    ASSUME NEW q \in Seq(Write), q # <<>>
    PROVE  /\ Head(q) = q[1] /\ 1 \in DOMAIN q /\ Head(q) \in Write
           /\ Tail(q) \in Seq(Write)
           /\ DOMAIN q = 1..Len(q) /\ Len(q) \in Nat /\ Len(q) >= 1
           /\ DOMAIN Tail(q) = 1..(Len(q) - 1) /\ Len(Tail(q)) = Len(q) - 1
           /\ \A i \in DOMAIN Tail(q) : /\ i \in Nat /\ i >= 1
                                        /\ i + 1 \in DOMAIN q /\ Tail(q)[i] = q[i + 1]
  OBVIOUS

\* A function from 1 to n is a queue of n writes.
LEMMA MappedFacts ==
    ASSUME NEW n \in Nat, NEW f \in [1..n -> Write]
    PROVE  f \in Seq(Write) /\ Len(f) = n
  OBVIOUS

\* A queue whose generation has advanced holds the same writes, fewer of them live.
LEMMA AdvancedFacts ==
    ASSUME NEW q \in Seq(Write), NEW running \in BOOLEAN
    PROVE  /\ Advanced(q, running) \in Seq(Write)
           /\ DOMAIN Advanced(q, running) = DOMAIN q
           /\ Len(Advanced(q, running)) = Len(q)
           /\ \A i \in DOMAIN q :
                /\ Advanced(q, running)[i].what = q[i].what
                /\ Advanced(q, running)[i].record = q[i].record
                /\ ~Advanced(q, running)[i].stale
                        => ~q[i].stale /\ Advanced(q, running)[i] = q[i]
  <1> DEFINE a == Advanced(q, running)
  <1>1. DOMAIN q = 1..Len(q) /\ Len(q) \in Nat /\ \A i \in DOMAIN q : q[i] \in Write
    OBVIOUS
  <1>2. DOMAIN a = DOMAIN q /\ \A i \in DOMAIN q :
            a[i] = IF running /\ i = 1 THEN q[i] ELSE [q[i] EXCEPT !.stale = TRUE]
    BY DEF Advanced
  <1>3. \A i \in DOMAIN q : /\ a[i] \in Write
                            /\ a[i].what = q[i].what /\ a[i].record = q[i].record
                            /\ ~a[i].stale => ~q[i].stale /\ a[i] = q[i]
    <2>1. \A w \in Write : /\ [w EXCEPT !.stale = TRUE] \in Write
                            /\ [w EXCEPT !.stale = TRUE].what = w.what
                            /\ [w EXCEPT !.stale = TRUE].record = w.record
                            /\ [w EXCEPT !.stale = TRUE].stale
      BY DEF Write
    <2> HIDE DEF a
    <2> QED BY <1>1, <1>2, <2>1
  <1>4. a \in [1..Len(q) -> Write]
    <2>1. a = [i \in 1..Len(q) |-> a[i]] BY <1>1 DEF Advanced
    <2>2. \A i \in 1..Len(q) : a[i] \in Write BY <1>1, <1>3
    <2> HIDE DEF a
    <2> QED BY <2>1, <2>2
  <1> HIDE DEF a
  <1>5. a \in Seq(Write) /\ Len(a) = Len(q) BY <1>1, <1>4, MappedFacts
  <1> QED BY <1>2, <1>3, <1>5 DEF a

\* What a record is, and what becomes of it when its marker is set or removed.
LEMMA RecordFacts ==
    ASSUME NEW r \in Record
    PROVE  /\ r # None
           /\ r.version \in Versions /\ r.bound \in BOOLEAN /\ r.marker \in Markers
           /\ Clean(r) \in Record /\ Clean(r).marker = "none"
           /\ Clean(r).version = r.version /\ Clean(r).bound = r.bound
           /\ r.marker = "none" => Clean(r) = r
           /\ \A stage \in Markers :
                /\ Marked(r, stage) \in Record /\ Marked(r, stage).marker = stage
                /\ Marked(r, stage).version = r.version /\ Marked(r, stage).bound = r.bound
                /\ Clean(Marked(r, stage)) = Clean(r)
           /\ Detached(r) \in Record /\ Detached(r).marker = r.marker
           /\ Detached(r).version = r.version /\ Detached(r).bound = FALSE
           /\ [r EXCEPT !.bound = TRUE] \in Record
           /\ [r EXCEPT !.bound = TRUE].marker = r.marker
           /\ [r EXCEPT !.bound = TRUE].version = r.version
  BY NoneAssumption DEF Record, Clean, Marked, Detached, Markers

-----------------------------------------------------------------------------
(* What a page may hold and have queued *)

\* The parts of a page.
LEMMA PageFacts ==
    ASSUME NEW p \in Page
    PROVE  /\ p.at \in Places /\ p.queue \in Seq(Write) /\ p.mem \in Record \cup {None}
           /\ p.mem # None => p.mem \in Record
           /\ DOMAIN p.queue = 1..Len(p.queue) /\ Len(p.queue) \in Nat
           /\ \A i \in DOMAIN p.queue : p.queue[i] \in Write
           /\ \A place \in Places : [p EXCEPT !.at = place] \in Page
  BY DEF Page

\* Whatever a place awaits can be enqueued.
LEMMA NewWriteFacts ==
    ASSUME NEW what \in {"snapshot", "step", "draft", "delete"}, NEW r \in Record
    PROVE  LET w == [what |-> what, record |-> r, stale |-> FALSE] IN
           w \in Write /\ w.what = what /\ w.record = r /\ ~w.stale
  BY DEF Write

\* The live writes of a queue that has lost its head.
LEMMA LiveTail ==
    ASSUME NEW p, NEW d, p.queue \in Seq(Write), p.queue # <<>>, d.queue = Tail(p.queue)
    PROVE  Live(d) \subseteq Live(p)
  BY TailFacts DEF Live

\* The live writes of a queue with a write at its end.
LEMMA LiveAppend ==
    ASSUME NEW p, NEW d, p.queue \in Seq(Write), NEW w \in Write, d.queue = Append(p.queue, w)
    PROVE  Live(d) \subseteq Live(p) \cup {w}
  <1>1. /\ DOMAIN d.queue = 1..(Len(p.queue) + 1) /\ d.queue[Len(p.queue) + 1] = w
        /\ DOMAIN p.queue = 1..Len(p.queue) /\ Len(p.queue) \in Nat
        /\ \A i \in 1..Len(p.queue) : d.queue[i] = p.queue[i]
    BY AppendFacts
  <1>2. \A i \in DOMAIN d.queue : d.queue[i] = w \/
            (i \in DOMAIN p.queue /\ d.queue[i] = p.queue[i])
    BY <1>1
  <1> QED BY <1>2 DEF Live

\* The live writes of a queue whose generation has advanced.
LEMMA LiveAdvanced ==
    ASSUME NEW p, NEW d, p.queue \in Seq(Write), NEW running \in BOOLEAN,
           d.queue = Advanced(p.queue, running)
    PROVE  Live(d) \subseteq Live(p)
  BY AdvancedFacts DEF Live

\* Live writes are writes, and the head is one of them until it is stale.
LEMMA LiveFacts ==
    ASSUME NEW p, p.queue \in Seq(Write)
    PROVE  /\ Live(p) \subseteq Write
           /\ p.queue # <<>> /\ ~Head(p.queue).stale => Head(p.queue) \in Live(p)
           /\ p.queue = <<>> => Live(p) = {}
  <1>1. \A i \in DOMAIN p.queue : p.queue[i] \in Write OBVIOUS
  <1>2. p.queue = <<>> => DOMAIN p.queue = {} OBVIOUS
  <1>3. p.queue # <<>> => 1 \in DOMAIN p.queue /\ Head(p.queue) = p.queue[1] BY TailFacts
  <1> QED BY <1>1, <1>2, <1>3 DEF Live

\* Of two consistent queues the rest is consistent as well.
LEMMA TailFits ==
    ASSUME NEW p \in Page, PageIsConsistent(p), p.queue # <<>>,
           NEW d \in Page, d.at = p.at, d.mem = p.mem, d.queue = Tail(p.queue)
    PROVE  PageIsConsistent(d)
  <1>1. /\ DOMAIN d.queue = 1..(Len(p.queue) - 1) /\ Len(d.queue) = Len(p.queue) - 1
        /\ DOMAIN p.queue = 1..Len(p.queue) /\ Len(p.queue) \in Nat
        /\ \A i \in DOMAIN d.queue : /\ i \in Nat /\ i >= 1 /\ i + 1 \in DOMAIN p.queue
                                     /\ d.queue[i] = p.queue[i + 1]
    BY PageFacts, TailFacts
  <1>2. MemoryFits(d)
    <2>1. p.mem # None BY DEF PageIsConsistent, MemoryFits
    <2> QED BY <2>1 DEF PageIsConsistent, MemoryFits
  <1>3. AwaitsOne(d)
    <2>1. \A i, j \in DOMAIN d.queue :
              d.queue[i].what # "snapshot" /\ d.queue[j].what # "snapshot" => i = j
      BY <1>1 DEF PageIsConsistent, AwaitsOne
    <2>2. \A i \in DOMAIN d.queue : d.queue[i].what # "snapshot" =>
            /\ d.at \in Awaiting /\ d.queue[i].what = Awaited(d.at)
            /\ d.at = "delete" => i = Len(d.queue)
      BY <1>1 DEF PageIsConsistent, AwaitsOne
    <2> QED BY <2>1, <2>2 DEF AwaitsOne
  <1>4. Live(d) \subseteq Live(p) BY PageFacts, LiveTail
  <1>5. \A w \in Live(d) : WriteFits(d, w)
    BY <1>4 DEF PageIsConsistent, WriteFits
  <1>6. BarrierHolds(d)
    <2> SUFFICES ASSUME d.at = "barrier", NEW i \in DOMAIN d.queue, NEW j \in DOMAIN d.queue,
                        j <= i, ~d.queue[i].stale, d.queue[j].what # "snapshot"
                 PROVE  Clean(d.queue[i].record) = d.mem
      BY DEF BarrierHolds
    <2>1. j + 1 <= i + 1 BY <1>1
    <2> QED BY <1>1, <2>1 DEF PageIsConsistent, BarrierHolds
  <1>7. d.at = "done" /\ d.mem.marker # "vod-purged" => Live(d) = {}
    BY <1>4 DEF PageIsConsistent
  <1> QED BY <1>2, <1>3, <1>5, <1>6, <1>7 DEF PageIsConsistent

\* Behind an awaited write there are only snapshots, behind a deletion nothing.
LEMMA BehindAwaited ==
    ASSUME NEW p \in Page, PageIsConsistent(p), p.queue # <<>>,
           Head(p.queue).what # "snapshot"
    PROVE  /\ Plain(Tail(p.queue))
           /\ p.at \in Awaiting /\ Head(p.queue).what = Awaited(p.at)
           /\ p.at = "delete" => Tail(p.queue) = <<>>
           /\ p.mem # None
  <1>1. /\ DOMAIN p.queue = 1..Len(p.queue) /\ Len(p.queue) \in Nat
        /\ Head(p.queue) = p.queue[1] /\ 1 \in DOMAIN p.queue
        /\ Len(Tail(p.queue)) = Len(p.queue) - 1 /\ Tail(p.queue) \in Seq(Write)
        /\ \A i \in DOMAIN Tail(p.queue) : /\ i \in Nat /\ i >= 1 /\ i + 1 \in DOMAIN p.queue
                                           /\ Tail(p.queue)[i] = p.queue[i + 1]
    BY PageFacts, TailFacts
  <1>2. Plain(Tail(p.queue))
    <2> SUFFICES ASSUME NEW i \in DOMAIN Tail(p.queue), p.queue[i + 1].what # "snapshot"
                 PROVE  FALSE
      BY <1>1 DEF Plain
    <2>1. i + 1 = 1 BY <1>1 DEF PageIsConsistent, AwaitsOne
    <2> QED BY <1>1, <2>1
  <1>3. /\ p.at \in Awaiting /\ Head(p.queue).what = Awaited(p.at)
        /\ p.at = "delete" => Len(p.queue) = 1
    BY <1>1 DEF PageIsConsistent, AwaitsOne
  <1>4. p.mem # None BY DEF PageIsConsistent, MemoryFits
  <1>5. Len(p.queue) = 1 => Tail(p.queue) = <<>> BY <1>1
  <1> QED BY <1>2, <1>3, <1>4, <1>5

\* A page with nothing but snapshots queued.
LEMMA PlainFits ==
    ASSUME NEW d \in Page, Plain(d.queue), MemoryFits(d),
           \A w \in Live(d) : WriteFits(d, w),
           d.at = "done" /\ d.mem.marker # "vod-purged" => Live(d) = {}
    PROVE  PageIsConsistent(d)
  <1>1. AwaitsOne(d) BY DEF AwaitsOne, Plain
  <1>2. BarrierHolds(d)
    BY DEF BarrierHolds, Plain
  <1> QED BY <1>1, <1>2 DEF PageIsConsistent

\* A page that begins to wait for a write.
LEMMA AwaitFits ==
    ASSUME NEW d \in Page, NEW q \in Seq(Write), NEW w \in Write, Plain(q),
           d.queue = Append(q, w), d.at \in Awaiting, d.at # "done",
           w.what = Awaited(d.at), MemoryFits(d), WriteFits(d, w),
           NEW p, p.queue = q, \A v \in Live(p) : WriteFits(d, v),
           d.at = "barrier" => Clean(w.record) = d.mem
    PROVE  PageIsConsistent(d)
  <1> DEFINE n == Len(q)
  <1>1. /\ DOMAIN q = 1..n /\ n \in Nat /\ DOMAIN d.queue = 1..(n + 1)
        /\ Len(d.queue) = n + 1 /\ d.queue[n + 1] = w
        /\ \A i \in 1..n : d.queue[i] = q[i]
    BY AppendFacts
  <1> HIDE DEF n
  <1>2. \A i \in DOMAIN d.queue : i = n + 1 \/ (i \in DOMAIN q /\ d.queue[i] = q[i])
    BY <1>1
  <1>3. \A i \in DOMAIN d.queue : d.queue[i].what # "snapshot" => i = n + 1 /\ d.queue[i] = w
    BY <1>1, <1>2 DEF Plain
  <1>4. AwaitsOne(d) BY <1>1, <1>3 DEF AwaitsOne
  <1>5. \A v \in Live(d) : WriteFits(d, v)
    <2>1. Live(d) \subseteq Live(p) \cup {w} BY LiveAppend
    <2> QED BY <2>1
  <1>6. BarrierHolds(d)
    <2> SUFFICES ASSUME d.at = "barrier", NEW i \in DOMAIN d.queue, NEW j \in DOMAIN d.queue,
                        j <= i, ~d.queue[i].stale, d.queue[j].what # "snapshot"
                 PROVE  Clean(d.queue[i].record) = d.mem
      BY DEF BarrierHolds
    <2>1. j = n + 1 BY <1>3
    <2>2. i = n + 1 BY <1>1, <2>1
    <2> QED BY <1>1, <2>2
  <1> QED BY <1>4, <1>5, <1>6 DEF PageIsConsistent

\* A page that saves its memory behind what it has queued.
LEMMA SnapshotFits ==
    ASSUME NEW p \in Page, PageIsConsistent(p), NEW r \in Record,
           p.mem # None, p.at \notin {"delete", "done"}, r.marker = p.mem.marker,
           r = p.mem \/ p.at = "open",
           NEW d \in Page, d.at = p.at, d.mem = r,
           d.queue = Append(p.queue, [what |-> "snapshot", record |-> r, stale |-> FALSE])
    PROVE  PageIsConsistent(d)
  <1> DEFINE w == [what |-> "snapshot", record |-> r, stale |-> FALSE]
             n == Len(p.queue)
  <1>1. w \in Write /\ w.what = "snapshot" /\ w.record = r BY NewWriteFacts
  <1>2. d.queue = Append(p.queue, w) OBVIOUS
  <1> HIDE DEF w
  <1>3. /\ DOMAIN p.queue = 1..n /\ n \in Nat /\ DOMAIN d.queue = 1..(n + 1)
        /\ Len(d.queue) = n + 1 /\ d.queue[n + 1] = w
        /\ \A i \in 1..n : d.queue[i] = p.queue[i]
    BY <1>1, <1>2, AppendFacts, PageFacts
  <1> HIDE DEF n
  <1>4. MemoryFits(d)
    <2>1. r # None BY NoneAssumption
    <2> QED BY <2>1 DEF PageIsConsistent, MemoryFits
  <1>5. \A i \in DOMAIN d.queue : d.queue[i].what # "snapshot"
            => i \in DOMAIN p.queue /\ d.queue[i] = p.queue[i]
    BY <1>1, <1>3
  <1>6. AwaitsOne(d) BY <1>5 DEF PageIsConsistent, AwaitsOne
  <1>7. Live(d) \subseteq Live(p) \cup {w} BY <1>1, <1>2, PageFacts, LiveAppend
  <1>8. p.at \in Sealed \cup {"barrier"} => r = p.mem /\ Clean(r) = r
    <2>1. p.at # "open" => p.mem \in Record BY PageFacts
    <2>2. p.at \in Sealed \cup {"barrier"} => r.marker = "none"
      <3>1. r.marker \in Markers BY RecordFacts
      <3> QED BY <3>1 DEF PageIsConsistent, MemoryFits, Sealed, Markers
    <2> QED BY <2>2, RecordFacts DEF Sealed
  <1>9. WriteFits(d, w) BY <1>1, <1>8 DEF WriteFits
  <1>10. \A v \in Live(d) : WriteFits(d, v)
    <2>1. \A v \in Live(p) : WriteFits(p, v) BY DEF PageIsConsistent
    <2> QED BY <1>7, <1>8, <1>9, <2>1 DEF WriteFits
  <1>11. BarrierHolds(d)
    <2> SUFFICES ASSUME d.at = "barrier", NEW i \in DOMAIN d.queue, NEW j \in DOMAIN d.queue,
                        j <= i, ~d.queue[i].stale, d.queue[j].what # "snapshot"
                 PROVE  Clean(d.queue[i].record) = d.mem
      BY DEF BarrierHolds
    <2>1. CASE i = n + 1 BY <1>1, <1>3, <1>8, <2>1
    <2>2. CASE i # n + 1
      <3>1. /\ i \in DOMAIN p.queue /\ d.queue[i] = p.queue[i]
            /\ j \in DOMAIN p.queue /\ d.queue[j] = p.queue[j]
        BY <1>3, <1>5, <2>2
      <3> QED BY <3>1, <1>8 DEF PageIsConsistent, BarrierHolds
    <2> QED BY <2>1, <2>2
  <1> QED BY <1>4, <1>6, <1>10, <1>11 DEF PageIsConsistent

-----------------------------------------------------------------------------
(* One editor, and what a step of that editor leaves as it was *)

\* Two tabs that are past their admission are one.
LEMMA EditorIsOne ==
    ASSUME AdmissionIsExclusive, NEW t \in Tabs, NEW u \in Tabs,
           page[t].at \notin Outside, page[u].at \notin Outside
    PROVE  t = u
  <1>1. CASE webLocks BY <1>1 DEF AdmissionIsExclusive, Outside
  <1>2. CASE ~webLocks BY <1>2 DEF AdmissionIsExclusive, Outside, WillHear
  <1> QED BY <1>1, <1>2

\* The other tabs of an editor have nothing.
LEMMA OthersAreOutside ==
    ASSUME SureInvariant, NEW t \in Tabs, page[t].at \notin Outside,
           NEW u \in Tabs, u # t
    PROVE  /\ page[u].at \in Outside
           /\ page[u].mem = None /\ page[u].queue = <<>>
           /\ page[u].at # "off" => session[u] # 0
  <1>1. page[u].at \in Outside BY EditorIsOne DEF SureInvariant
  <1> QED BY <1>1 DEF SureInvariant, PageIsConsistent, MemoryFits, PageIsCovered, Outside

\* A tab outside is covered by its session alone.
LEMMA OutsideIsCovered ==
    ASSUME NEW u, NEW p, p.at \in Outside, p.mem = None, p.at # "off" => session[u] # 0
    PROVE  PageIsCovered(u, p)
  BY DEF PageIsCovered, Outside, Sealed

\* A page that has nothing is consistent.
LEMMA EmptyIsConsistent ==
    ASSUME NEW p \in Page, p.mem = None, p.queue = <<>>,
           p.at \in Outside \cup {"begin", "load", "failed"}
    PROVE  PageIsConsistent(p)
  <1>1. DOMAIN p.queue = {} OBVIOUS
  <1>2. Live(p) = {} BY <1>1 DEF Live
  <1> QED BY <1>1, <1>2
      DEF PageIsConsistent, MemoryFits, AwaitsOne, BarrierHolds, Outside

\* A step of the page that edits, whatever it does to the storage.
LEMMA EditorStep ==
    ASSUME SureInvariant, NEW t \in Tabs, page[t].at \notin Outside,
           NEW p \in Page, p.at \notin Outside, Becomes(t, p),
           UNCHANGED <<webLocks, lock, sessions>>,
           published \subseteq published', published' \subseteq Tabs,
           {a \in asked : a[1] # t} \subseteq asked', asked' \subseteq Tabs \X Tabs,
           heard' \in [Tabs -> SUBSET Tabs], session' \in [Tabs -> 0..SessionLimit],
           missed' \in BOOLEAN,
           \A u \in Tabs \ {t} : heard'[u] = heard[u] /\ session'[u] = session[u],
           disk' \in Record \cup {None}, checkpoint' \in Row \cup {None},
           material' \in BOOLEAN, late' \in BOOLEAN, again' \in BOOLEAN,
           exported' \in Versions \cup {None},
           (disk # None => MarkIsTrue(disk))', CheckpointIsTrue',
           PageIsConsistent(p), PageIsCovered(t, page[t])'
    PROVE  SureInvariant'
  <1>1. page \in [Tabs -> Page] /\ TypeOK /\ AdmissionIsExclusive
    BY DEF SureInvariant, TypeOK
  <1>2. page'[t] = p /\ \A u \in Tabs \ {t} : page'[u] = page[u]
    BY <1>1 DEF Becomes
  <1>3. TypeOK'
    <2>1. page' \in [Tabs -> Page] BY <1>1 DEF Becomes
    <2> QED BY <1>1, <2>1 DEF TypeOK
  <1>4. AdmissionIsExclusive'
    <2>1. webLocks' => \A u \in Tabs : page'[u].at \notin {"off", "refused"} =>
              lock' = u /\ page'[u].at \notin {"publishing", "counting"}
      BY <1>1, <1>2 DEF AdmissionIsExclusive, Outside
    <2>2. ~webLocks' => \A u \in Tabs : page'[u].at \notin {"off", "refused"} => u \in published'
      BY <1>1, <1>2 DEF AdmissionIsExclusive, Outside
    <2>3. ASSUME NEW u \in Tabs, NEW v \in Tabs, WillHear(u, v)
          PROVE  WillHear(u, v)'
      <3>1. u # t BY <2>3 DEF WillHear, Outside
      <3>2. <<u, v>> \in asked => <<u, v>> \in asked' BY <3>1
      <3> QED BY <2>3, <3>1, <3>2, <1>2 DEF WillHear
    <2>4. ASSUME NEW u \in Tabs, page'[u].at \notin {"off", "refused", "publishing"}
          PROVE  page[u].at \notin {"off", "refused", "publishing"}
      BY <1>2, <2>4 DEF Outside
    <2>5. ~webLocks' => \A u, v \in Tabs :
            /\ u # v
            /\ page'[u].at \notin {"off", "refused", "publishing"}
            /\ page'[v].at \notin {"off", "refused", "publishing"}
            => WillHear(u, v)' \/ WillHear(v, u)'
      BY <1>1, <2>3, <2>4 DEF AdmissionIsExclusive
    <2> QED BY <2>1, <2>2, <2>5 DEF AdmissionIsExclusive
  <1>5. ASSUME NEW u \in Tabs
        PROVE  PageIsConsistent(page'[u]) /\ PageIsCovered(u, page[u])'
    <2>1. CASE u = t BY <1>2, <2>1
    <2>2. CASE u # t
      <3>1. /\ page'[u] = page[u] /\ session'[u] = session[u]
            /\ page[u].at \in Outside /\ page[u].mem = None
            /\ page[u].at # "off" => session[u] # 0
        BY <1>2, <2>2, OthersAreOutside
      <3>2. PageIsCovered(u, page[u])'
        BY <3>1 DEF PageIsCovered, Outside, Sealed
      <3> QED BY <3>1, <3>2 DEF SureInvariant
    <2> QED BY <2>1, <2>2
  <1>6. (\A u \in Tabs : PageIsConsistent(page[u]) /\ PageIsCovered(u, page[u]))'
    BY <1>5 DEF PageIsConsistent, MemoryFits, AwaitsOne, WriteFits, BarrierHolds, Live
  <1> QED BY <1>3, <1>4, <1>6 DEF SureInvariant

\* A step of the page that edits and that changes nothing else.
LEMMA LocalStep ==
    ASSUME SureInvariant, NEW t \in Tabs, page[t].at \notin Outside,
           NEW p \in Page, p.at \notin Outside, Becomes(t, p),
           UNCHANGED <<browser, channel, storage, engine, exported>>,
           PageIsConsistent(p), PageIsCovered(t, p)
    PROVE  SureInvariant'
  <1>1. page'[t] = p BY DEF SureInvariant, TypeOK, Becomes
  <1>2. PageIsCovered(t, page[t])'
    BY <1>1 DEF PageIsCovered, MarkIsTrue, Live, browser, channel, storage, engine
  <1>3. (disk # None => MarkIsTrue(disk))' /\ CheckpointIsTrue'
    BY DEF SureInvariant, CheckpointIsTrue, MarkIsTrue, browser, channel, storage, engine
  <1> QED BY <1>2, <1>3, EditorStep
      DEF SureInvariant, TypeOK, browser, channel, storage, engine

-----------------------------------------------------------------------------
(* Editing and exporting *)

\* A page at another place.
LEMMA PlacedFacts ==
    ASSUME NEW p \in Page, NEW place \in Places, NEW d, d = [p EXCEPT !.at = place]
    PROVE  /\ d \in Page /\ d.at = place /\ d.mem = p.mem /\ d.queue = p.queue
           /\ Live(d) = Live(p)
  BY DEF Page, Live

\* A page that has enqueued a write.
LEMMA EnqueuedFacts ==
    ASSUME NEW p \in Page, NEW r \in Record,
           NEW what \in {"snapshot", "step", "draft", "delete"},
           NEW w, w = [what |-> what, record |-> r, stale |-> FALSE],
           NEW d, d = Enqueued(p, what, r)
    PROVE  /\ d \in Page /\ d.at = p.at /\ d.mem = p.mem
           /\ d.queue = Append(p.queue, w) /\ Live(d) \subseteq Live(p) \cup {w}
           /\ w \in Write /\ w.what = what /\ w.record = r /\ ~w.stale
  <1>1. w \in Write /\ w.what = what /\ w.record = r /\ ~w.stale BY NewWriteFacts
  <1>2. p.queue \in Seq(Write) /\ Append(p.queue, w) \in Seq(Write) BY <1>1, PageFacts
  <1>3. d = [p EXCEPT !.queue = Append(p.queue, w)] BY DEF Enqueued
  <1>4. d \in Page /\ d.at = p.at /\ d.mem = p.mem /\ d.queue = Append(p.queue, w)
    BY <1>2, <1>3 DEF Page
  <1>5. Live(d) \subseteq Live(p) \cup {w} BY <1>1, <1>2, <1>4, LiveAppend
  <1> QED BY <1>1, <1>4, <1>5

\* A page that has gone on to a place where it awaits a write.
LEMMA AwaitsFacts ==
    ASSUME NEW p \in Page, NEW place \in Places, NEW r \in Record,
           NEW what \in {"snapshot", "step", "draft", "delete"},
           NEW w, w = [what |-> what, record |-> r, stale |-> FALSE],
           NEW d, d = Awaits(p, place, what, r)
    PROVE  /\ d \in Page /\ d.at = place /\ d.mem = p.mem
           /\ d.queue = Append(p.queue, w) /\ Live(d) \subseteq Live(p) \cup {w}
           /\ w \in Write /\ w.what = what /\ w.record = r /\ ~w.stale
  <1> DEFINE e == [p EXCEPT !.at = place]
  <1>1. e \in Page /\ e.at = place /\ e.mem = p.mem /\ e.queue = p.queue /\ Live(e) = Live(p)
    BY PlacedFacts
  <1>2. d = Enqueued(e, what, r) BY DEF Awaits
  <1> HIDE DEF e
  <1> QED BY <1>1, <1>2, EnqueuedFacts

\* What is known of the page that edits.
LEMMA EditorFacts ==
    ASSUME SureInvariant, NEW t \in Tabs
    PROVE  /\ page[t] \in Page /\ page \in [Tabs -> Page]
           /\ PageIsConsistent(page[t]) /\ PageIsCovered(t, page[t])
           /\ page[t].at \in Places /\ page[t].queue \in Seq(Write)
           /\ Live(page[t]) \subseteq Write
           /\ page[t].mem # None => page[t].mem \in Record
           /\ page[t].mem # None /\ page[t].at # "done" =>
                /\ disk \in Record /\ checkpoint \in Row /\ session[t] # 0
                /\ page[t].at \notin {"drop", "finish", "failed"} =>
                    page[t].mem.marker = "none" /\ Clean(page[t].mem) = page[t].mem
           /\ page[t].queue # <<>> => page[t].mem # None /\ page[t].at \notin Outside
           /\ page[t].at \notin Outside \cup {"begin", "load", "failed"} => page[t].mem # None
  <1>1. page \in [Tabs -> Page] /\ page[t] \in Page BY DEF SureInvariant, TypeOK
  <1>2. PageIsConsistent(page[t]) /\ PageIsCovered(t, page[t]) BY DEF SureInvariant
  <1>3. /\ page[t].at \in Places /\ page[t].queue \in Seq(Write)
        /\ page[t].mem # None => page[t].mem \in Record
    BY <1>1, PageFacts
  <1>4. Live(page[t]) \subseteq Write BY <1>3, LiveFacts
  <1>5. page[t].mem # None /\ page[t].at # "done" => disk \in Record /\ checkpoint \in Row
    BY <1>2 DEF PageIsCovered, SureInvariant, TypeOK
  <1>6. page[t].mem # None /\ page[t].at # "done" => session[t] # 0
    BY <1>2 DEF PageIsConsistent, MemoryFits, PageIsCovered, Outside
  <1>7. page[t].mem # None /\ page[t].at \notin {"drop", "finish", "failed", "done"}
            => page[t].mem.marker = "none" /\ Clean(page[t].mem) = page[t].mem
    BY <1>2, <1>3, RecordFacts DEF PageIsConsistent, MemoryFits, Markers
  <1>8. page[t].queue # <<>> => page[t].mem # None /\ page[t].at \notin Outside
    BY <1>2 DEF PageIsConsistent, MemoryFits
  <1>9. page[t].at \notin Outside \cup {"begin", "load", "failed"} => page[t].mem # None
    BY <1>2 DEF PageIsConsistent, MemoryFits
  <1> QED BY <1>1, <1>2, <1>3, <1>4, <1>5, <1>6, <1>7, <1>8, <1>9

\* What a page that goes on at another place must fit to stay covered.
LEMMA StaysCovered ==
    ASSUME NEW t, NEW p, NEW d, PageIsCovered(t, p),
           p.mem # None, p.at # "done", p.at # "off",
           d.mem # None, d.at # "done", d.mem.marker = p.mem.marker,
           d.mem = p.mem \/ MarkIsTrue(d.mem),
           d.at \notin Sealed \cup {"barrier", "finish", "flush", "render", "recount"},
           NEW w, MarkIsTrue(w.record), Live(d) \subseteq Live(p) \cup {w}
    PROVE  PageIsCovered(t, d)
  BY DEF PageIsCovered, Sealed

\* An edit keeps the invariant.
LEMMA EditStep ==
    ASSUME SureInvariant, NEW t \in Tabs, Edit(t)
    PROVE  SureInvariant'
  <1> DEFINE r == [page[t].mem EXCEPT !.version = @ + 1]
             w == [what |-> "snapshot", record |-> r, stale |-> FALSE]
             e == [page[t] EXCEPT !.mem = r]
             p == Enqueued(e, "snapshot", r)
  <1>1. page[t].at = "open" /\ page[t].mem.version < VersionLimit /\ Becomes(t, p)
        /\ UNCHANGED <<browser, channel, storage, engine, exported>>
    BY DEF Edit, Editable
  <1>2. page[t].at \notin Outside /\ page[t].mem \in Record /\ page[t].mem.marker = "none"
    BY <1>1, EditorFacts DEF Outside
  <1>3. r \in Record /\ r # None /\ r.marker = "none"
    BY <1>1, <1>2, LimitAssumption, NoneAssumption DEF Record, Versions
  <1> HIDE DEF r
  <1>4. /\ e \in Page /\ e.at = "open" /\ e.mem = r /\ e.queue = page[t].queue
        /\ Live(e) = Live(page[t])
    <2>1. e \in Page /\ e.at = "open" /\ e.mem = r /\ e.queue = page[t].queue
      BY <1>1, <1>3, EditorFacts DEF Page
    <2> QED BY <2>1 DEF Live
  <1>5. /\ p \in Page /\ p.at = "open" /\ p.mem = r /\ p.queue = Append(page[t].queue, w)
        /\ Live(p) \subseteq Live(page[t]) \cup {w} /\ w.record = r
    <2> HIDE DEF e
    <2>1. /\ p \in Page /\ p.at = e.at /\ p.mem = e.mem /\ p.queue = Append(e.queue, w)
          /\ Live(p) \subseteq Live(e) \cup {w} /\ w.record = r
      BY <1>3, <1>4, EnqueuedFacts
    <2> QED BY <1>4, <2>1
  <1> HIDE DEF p
  <1>6. PageIsConsistent(p)
    BY <1>1, <1>2, <1>3, <1>5, EditorFacts, SnapshotFits
  <1>7. MarkIsTrue(r) BY <1>3 DEF MarkIsTrue
  <1>8. PageIsCovered(t, p)
    <2> HIDE DEF w
    <2> QED BY <1>1, <1>2, <1>3, <1>5, <1>7, EditorFacts, NoneAssumption, StaysCovered
      DEF Sealed
  <1> QED BY <1>1, <1>2, <1>5, <1>6, <1>8, LocalStep DEF Outside

\* The save of a page that is hidden keeps the invariant.
LEMMA FlushStep ==
    ASSUME SureInvariant, NEW t \in Tabs, Flush(t)
    PROVE  SureInvariant'
  <1> DEFINE m == page[t].mem
             w == [what |-> "snapshot", record |-> m, stale |-> FALSE]
             p == Enqueued(page[t], "snapshot", m)
  <1>1. m # None /\ page[t].at \notin {"delete", "done"} /\ Becomes(t, p)
        /\ UNCHANGED <<browser, channel, storage, engine, exported>>
    BY DEF Flush
  <1>2. m \in Record /\ page[t].at \notin Outside
    BY <1>1, EditorFacts DEF PageIsConsistent, MemoryFits
  <1>3. /\ p \in Page /\ p.at = page[t].at /\ p.mem = m /\ p.queue = Append(page[t].queue, w)
        /\ Live(p) \subseteq Live(page[t]) \cup {w} /\ w.record = m
    <2>1. page[t] \in Page BY EditorFacts
    <2> QED BY <1>2, <2>1, EnqueuedFacts
  <1> HIDE DEF p, w
  <1>4. PageIsConsistent(p)
    BY <1>1, <1>2, <1>3, EditorFacts, SnapshotFits DEF w
  <1>5. MarkIsTrue(m) BY <1>1, EditorFacts DEF PageIsCovered
  <1>6. PageIsCovered(t, p)
    BY <1>1, <1>3, <1>5, EditorFacts DEF PageIsCovered
  <1> QED BY <1>1, <1>2, <1>3, <1>4, <1>6, LocalStep

\* Where nothing is awaited only snapshots are queued.
LEMMA NothingAwaited ==
    ASSUME NEW p, PageIsConsistent(p), p.at \notin Awaiting
    PROVE  Plain(p.queue)
  BY DEF PageIsConsistent, AwaitsOne, Plain

\* While the memory is not marked, no snapshot is.
LEMMA LiveIsUnmarked ==
    ASSUME NEW p, PageIsConsistent(p), p.mem.marker = "none",
           p.at # "mark" \/ Plain(p.queue)
    PROVE  \A w \in Live(p) : w.record.marker # "vod-purged"
  <1>1. \A w \in Live(p) : WriteFits(p, w) BY DEF PageIsConsistent
  <1>2. Plain(p.queue) => \A w \in Live(p) : w.what = "snapshot" BY DEF Plain, Live
  <1> QED BY <1>1, <1>2 DEF WriteFits

\* A page with an unmarked memory goes on to a place where it awaits a write.
LEMMA UnmarkedAwaits ==
    ASSUME NEW p \in Page, p.mem \in Record, p.mem.marker = "none", Plain(p.queue),
           NEW w \in Write, NEW d \in Page,
           d.at \in Awaiting, d.at # "finish", d.mem = p.mem, d.queue = Append(p.queue, w),
           w.what = Awaited(d.at),
           \A v \in Live(p) : /\ v.record.marker # "vod-purged"
                              /\ d.at \in Sealed => Clean(v.record) = p.mem,
           w.record.marker = "vod-purged" => d.at = "mark",
           d.at \in Sealed \cup {"barrier"} => Clean(w.record) = p.mem
    PROVE  PageIsConsistent(d)
  <1>1. w.what # "snapshot" BY DEF Awaited
  <1>2. MemoryFits(d)
    <2>1. p.mem # None BY NoneAssumption
    <2> QED BY <2>1 DEF MemoryFits, Awaiting, Outside
  <1>3. WriteFits(d, w) BY <1>1 DEF WriteFits, Sealed
  <1>4. \A v \in Live(p) : WriteFits(d, v) BY DEF WriteFits
  <1>5. p.queue \in Seq(Write) BY PageFacts
  <1>6. d.at # "done" BY DEF Awaiting
  <1> QED BY <1>2, <1>3, <1>4, <1>5, <1>6, AwaitFits

\* A page with an unmarked memory goes on to a place where it awaits nothing.
LEMMA UnmarkedMoves ==
    ASSUME NEW p \in Page, p.mem \in Record, p.mem.marker = "none", Plain(p.queue),
           NEW place \in {"open", "preparing", "render", "recount", "purge", "failed"},
           \A v \in Live(p) : /\ v.record.marker # "vod-purged"
                              /\ place \in Sealed => Clean(v.record) = p.mem,
           NEW d, d = [p EXCEPT !.at = place]
    PROVE  /\ d \in Page /\ PageIsConsistent(d) /\ d.at = place /\ d.mem = p.mem
           /\ d.queue = p.queue /\ Live(d) = Live(p)
  <1>1. place \in Places BY DEF Places, Cleaning
  <1>2. d \in Page /\ d.at = place /\ d.mem = p.mem /\ d.queue = p.queue
    BY <1>1 DEF Page
  <1>3. Live(d) = Live(p) BY <1>2 DEF Live
  <1>4. MemoryFits(d)
    <2>1. p.mem # None BY NoneAssumption
    <2> QED BY <1>2, <2>1 DEF MemoryFits, Outside
  <1>5. \A v \in Live(d) : WriteFits(d, v) BY <1>2, <1>3 DEF WriteFits
  <1>6. d.at # "done" /\ Plain(d.queue) BY <1>2
  <1>7. PageIsConsistent(d) BY <1>2, <1>4, <1>5, <1>6, PlainFits
  <1> QED BY <1>2, <1>3, <1>7

\* The save of the binding keeps the invariant.
LEMMA BindMaterialStep ==
    ASSUME SureInvariant, NEW t \in Tabs, BindMaterial(t)
    PROVE  SureInvariant'
  <1> DEFINE r == [page[t].mem EXCEPT !.bound = TRUE]
             w == [what |-> "step", record |-> r, stale |-> FALSE]
             p == Awaits(page[t], "binding", "step", r)
  <1>1. page[t].at = "preparing" /\ Becomes(t, p)
        /\ UNCHANGED <<browser, channel, storage, engine, exported>>
    BY DEF BindMaterial
  <1>2. /\ page[t] \in Page /\ page[t].at \notin Outside /\ page[t].mem \in Record
        /\ page[t].mem # None /\ page[t].mem.marker = "none" /\ PageIsConsistent(page[t])
    BY <1>1, EditorFacts DEF Outside
  <1>3. r \in Record /\ r.marker = "none" BY <1>2, RecordFacts
  <1>4. Plain(page[t].queue) BY <1>1, <1>2, NothingAwaited DEF Awaiting
  <1>5. \A v \in Live(page[t]) : v.record.marker # "vod-purged" BY <1>2, <1>4, LiveIsUnmarked
  <1> HIDE DEF r
  <1>6. /\ p \in Page /\ PageIsConsistent(p) /\ p.at = "binding" /\ p.mem = page[t].mem
        /\ Live(p) \subseteq Live(page[t]) \cup {w} /\ w.record = r
    <2>1. /\ p \in Page /\ p.at = "binding" /\ p.mem = page[t].mem
          /\ p.queue = Append(page[t].queue, w) /\ Live(p) \subseteq Live(page[t]) \cup {w}
          /\ w \in Write /\ w.what = "step" /\ w.record = r
      <3>1. "binding" \in Places BY DEF Places, Cleaning
      <3> QED BY <1>2, <1>3, <3>1, AwaitsFacts
    <2> HIDE DEF p, w
    <2>2. PageIsConsistent(p)
      BY <1>2, <1>3, <1>4, <1>5, <2>1, UnmarkedAwaits DEF Awaiting, Awaited, Sealed
    <2> QED BY <2>1, <2>2
  <1> HIDE DEF p, w
  <1>7. MarkIsTrue(w.record) BY <1>3, <1>6 DEF MarkIsTrue
  <1>8. PageIsCovered(t, p)
    BY <1>1, <1>2, <1>6, <1>7, EditorFacts, StaysCovered DEF Sealed
  <1> QED BY <1>1, <1>2, <1>6, <1>8, LocalStep DEF Outside

\* The save of a project that a file is attached to keeps the invariant.
LEMMA AttachFileStep ==
    ASSUME SureInvariant, NEW t \in Tabs, AttachFile(t)
    PROVE  SureInvariant'
  <1> DEFINE r == Detached(page[t].mem)
             w == [what |-> "step", record |-> r, stale |-> FALSE]
             p == Awaits(page[t], "unbinding", "step", r)
  <1>1. page[t].at = "open" /\ Becomes(t, p)
        /\ UNCHANGED <<browser, channel, storage, engine, exported>>
    BY DEF AttachFile
  <1>2. /\ page[t] \in Page /\ page[t].at \notin Outside /\ page[t].mem \in Record
        /\ page[t].mem # None /\ page[t].mem.marker = "none" /\ PageIsConsistent(page[t])
    BY <1>1, EditorFacts DEF Outside
  <1>3. r \in Record /\ r.marker = "none" BY <1>2, RecordFacts
  <1>4. Plain(page[t].queue) BY <1>1, <1>2, NothingAwaited DEF Awaiting
  <1>5. \A v \in Live(page[t]) : v.record.marker # "vod-purged" BY <1>2, <1>4, LiveIsUnmarked
  <1> HIDE DEF r
  <1>6. /\ p \in Page /\ PageIsConsistent(p) /\ p.at = "unbinding" /\ p.mem = page[t].mem
        /\ Live(p) \subseteq Live(page[t]) \cup {w} /\ w.record = r
    <2>1. /\ p \in Page /\ p.at = "unbinding" /\ p.mem = page[t].mem
          /\ p.queue = Append(page[t].queue, w) /\ Live(p) \subseteq Live(page[t]) \cup {w}
          /\ w \in Write /\ w.what = "step" /\ w.record = r
      <3>1. "unbinding" \in Places BY DEF Places, Cleaning
      <3> QED BY <1>2, <1>3, <3>1, AwaitsFacts
    <2> HIDE DEF p, w
    <2>2. PageIsConsistent(p)
      BY <1>2, <1>3, <1>4, <1>5, <2>1, UnmarkedAwaits DEF Awaiting, Awaited, Sealed
    <2> QED BY <2>1, <2>2
  <1> HIDE DEF p, w
  <1>7. MarkIsTrue(w.record) BY <1>3, <1>6 DEF MarkIsTrue
  <1>8. PageIsCovered(t, p)
    BY <1>1, <1>2, <1>6, <1>7, EditorFacts, StaysCovered DEF Sealed
  <1> QED BY <1>1, <1>2, <1>6, <1>8, LocalStep DEF Outside

\* The start of an export keeps the invariant.
LEMMA ExportStep ==
    ASSUME SureInvariant, NEW t \in Tabs, Export(t)
    PROVE  SureInvariant'
  <1> DEFINE r == page[t].mem
             w == [what |-> "draft", record |-> r, stale |-> FALSE]
             p == Awaits(page[t], "draft", "draft", r)
  <1>1. page[t].at = "open" /\ Becomes(t, p)
        /\ UNCHANGED <<browser, channel, storage, engine, exported>>
    BY DEF Export
  <1>2. /\ page[t] \in Page /\ page[t].at \notin Outside /\ page[t].mem \in Record
        /\ page[t].mem # None /\ page[t].mem.marker = "none" /\ PageIsConsistent(page[t])
    BY <1>1, EditorFacts DEF Outside
  <1>3. Plain(page[t].queue) BY <1>1, <1>2, NothingAwaited DEF Awaiting
  <1>4. \A v \in Live(page[t]) : v.record.marker # "vod-purged" BY <1>2, <1>3, LiveIsUnmarked
  <1>5. /\ p \in Page /\ PageIsConsistent(p) /\ p.at = "draft" /\ p.mem = page[t].mem
        /\ Live(p) \subseteq Live(page[t]) \cup {w} /\ w.record = r
    <2>1. /\ p \in Page /\ p.at = "draft" /\ p.mem = page[t].mem
          /\ p.queue = Append(page[t].queue, w) /\ Live(p) \subseteq Live(page[t]) \cup {w}
          /\ w \in Write /\ w.what = "draft" /\ w.record = r
      <3>1. "draft" \in Places BY DEF Places, Cleaning
      <3> QED BY <1>2, <3>1, AwaitsFacts
    <2> HIDE DEF p, w
    <2>2. PageIsConsistent(p)
      BY <1>2, <1>3, <1>4, <2>1, UnmarkedAwaits DEF Awaiting, Awaited, Sealed
    <2> QED BY <2>1, <2>2
  <1> HIDE DEF p, w
  <1>6. MarkIsTrue(w.record) BY <1>2, <1>5 DEF MarkIsTrue
  <1>7. PageIsCovered(t, p)
    BY <1>1, <1>2, <1>5, <1>6, EditorFacts, StaysCovered DEF Sealed
  <1> QED BY <1>1, <1>2, <1>5, <1>7, LocalStep DEF Outside

\* Going back to the open editor keeps the invariant.
LEMMA BackToOpen ==
    ASSUME SureInvariant, NEW t \in Tabs, page[t].at \in {"preparing", "render", "recount"},
           Goto(t, "open"), CountEnds(t) \/ UNCHANGED asked,
           UNCHANGED <<browser, published, heard, missed, storage, engine, exported>>
    PROVE  SureInvariant'
  <1> DEFINE p == [page[t] EXCEPT !.at = "open"]
  <1>1. Becomes(t, p) BY DEF Goto
  <1>2. /\ page[t] \in Page /\ page[t].at \notin Outside /\ page[t].mem \in Record
        /\ page[t].mem # None /\ page[t].mem.marker = "none" /\ PageIsConsistent(page[t])
        /\ PageIsCovered(t, page[t])
    BY EditorFacts DEF Outside
  <1>3. Plain(page[t].queue) BY <1>2, NothingAwaited DEF Awaiting
  <1>4. \A v \in Live(page[t]) : v.record.marker # "vod-purged" BY <1>2, <1>3, LiveIsUnmarked
  <1>5. /\ p \in Page /\ PageIsConsistent(p) /\ p.at = "open" /\ p.mem = page[t].mem
        /\ Live(p) = Live(page[t])
    BY <1>2, <1>3, <1>4, UnmarkedMoves DEF Sealed
  <1> HIDE DEF p
  <1>6. PageIsCovered(t, p) BY <1>2, <1>5 DEF PageIsCovered, Sealed
  <1>7. page'[t] = p BY <1>1 DEF SureInvariant, TypeOK, Becomes
  <1>8. PageIsCovered(t, page[t])'
    BY <1>6, <1>7 DEF PageIsCovered, MarkIsTrue, Live, browser, storage, engine
  <1>9. (disk # None => MarkIsTrue(disk))' /\ CheckpointIsTrue'
    BY DEF SureInvariant, CheckpointIsTrue, MarkIsTrue, storage, engine
  <1>10. {a \in asked : a[1] # t} \subseteq asked' /\ asked' \subseteq Tabs \X Tabs
    BY DEF SureInvariant, TypeOK, CountEnds
  <1>11. p.at \notin Outside BY <1>5 DEF Outside
  <1> QED BY <1>1, <1>2, <1>5, <1>8, <1>9, <1>10, <1>11, EditorStep
      DEF SureInvariant, TypeOK, browser, storage, engine

\* The question before the cleanup keeps the invariant.
LEMMA AskCleanupStep ==
    ASSUME SureInvariant, NEW t \in Tabs, AskCleanup(t)
    PROVE  SureInvariant'
  <1> DEFINE p == [page[t] EXCEPT !.at = "recount"]
  <1>1. /\ page[t].at = "render" /\ Becomes(t, p)
        /\ asked' = asked \cup {<<t, u>> : u \in {v \in Tabs \ {t} : page[v].at # "off"}}
        /\ heard' = [heard EXCEPT ![t] = {}]
        /\ UNCHANGED <<browser, published, missed, storage, engine, exported>>
    BY DEF AskCleanup, Ping, Goto
  <1>2. /\ page[t] \in Page /\ page[t].at \notin Outside /\ page[t].mem \in Record
        /\ page[t].mem # None /\ page[t].mem.marker = "none" /\ PageIsConsistent(page[t])
        /\ PageIsCovered(t, page[t]) /\ page \in [Tabs -> Page]
    BY <1>1, EditorFacts DEF Outside
  <1>3. Plain(page[t].queue) BY <1>1, <1>2, NothingAwaited DEF Awaiting
  <1>4. \A v \in Live(page[t]) : v.record.marker # "vod-purged" BY <1>2, <1>3, LiveIsUnmarked
  <1>5. /\ p \in Page /\ PageIsConsistent(p) /\ p.at = "recount" /\ p.mem = page[t].mem
        /\ Live(p) = Live(page[t])
    BY <1>2, <1>3, <1>4, UnmarkedMoves DEF Sealed
  <1> HIDE DEF p
  <1>6. PageIsCovered(t, p) BY <1>1, <1>2, <1>5 DEF PageIsCovered, Sealed
  <1>7. page'[t] = p BY <1>1, <1>2 DEF Becomes
  <1>8. PageIsCovered(t, page[t])'
    BY <1>1, <1>6, <1>7 DEF PageIsCovered, MarkIsTrue, Live, browser, storage, engine
  <1>9. (disk # None => MarkIsTrue(disk))' /\ CheckpointIsTrue'
    BY <1>1 DEF SureInvariant, CheckpointIsTrue, MarkIsTrue, storage, engine
  <1>10. /\ asked' \subseteq Tabs \X Tabs /\ asked \subseteq asked'
         /\ heard' \in [Tabs -> SUBSET Tabs] /\ \A u \in Tabs \ {t} : heard'[u] = heard[u]
    BY <1>1 DEF SureInvariant, TypeOK
  <1>11. p.at \notin Outside BY <1>5 DEF Outside
  <1> QED BY <1>1, <1>2, <1>5, <1>8, <1>9, <1>10, <1>11, EditorStep
      DEF SureInvariant, TypeOK, browser, storage, engine

\* The material that is made, again perhaps, keeps the invariant.
LEMMA PrepareStep ==
    ASSUME SureInvariant, NEW t \in Tabs, Prepare(t)
    PROVE  SureInvariant'
  <1> DEFINE p == [page[t] EXCEPT !.at = "preparing"]
  <1>1. /\ page[t].at = "open" /\ Becomes(t, p) /\ material' = TRUE
        /\ again' = (again \/ (disk # None /\ disk.marker = "vod-purged"))
        /\ UNCHANGED <<browser, channel, storage, late, exported>>
    BY DEF Prepare, Goto
  <1>2. /\ page[t] \in Page /\ page[t].at \notin Outside /\ page[t].mem \in Record
        /\ page[t].mem # None /\ page[t].mem.marker = "none" /\ PageIsConsistent(page[t])
        /\ PageIsCovered(t, page[t]) /\ page \in [Tabs -> Page]
    BY <1>1, EditorFacts DEF Outside
  <1>3. Plain(page[t].queue) BY <1>1, <1>2, NothingAwaited DEF Awaiting
  <1>4. \A v \in Live(page[t]) : v.record.marker # "vod-purged" BY <1>2, <1>3, LiveIsUnmarked
  <1>5. /\ p \in Page /\ PageIsConsistent(p) /\ p.at = "preparing" /\ p.mem = page[t].mem
        /\ Live(p) = Live(page[t])
    BY <1>2, <1>3, <1>4, UnmarkedMoves DEF Sealed
  <1> HIDE DEF p
  <1>6. page'[t] = p BY <1>1, <1>2 DEF Becomes
  <1>7. PageIsCovered(t, page[t])'
    <2>1. MarkIsTrue(page[t].mem)' /\ \A v \in Live(p) : MarkIsTrue(v.record)'
      BY <1>2, <1>4, <1>5, <1>6 DEF MarkIsTrue
    <2> QED BY <1>1, <1>2, <1>5, <1>6, <2>1 DEF PageIsCovered, Live, Sealed, browser, storage
  <1>8. again' \in BOOLEAN /\ (disk # None /\ disk.marker = "vod-purged" => again')
    BY <1>1 DEF SureInvariant, TypeOK
  <1>9. (disk # None => MarkIsTrue(disk))'
    BY <1>1, <1>8 DEF SureInvariant, MarkIsTrue, storage
  <1>10. CheckpointIsTrue'
    BY <1>1, <1>8 DEF SureInvariant, CheckpointIsTrue, MarkIsTrue, storage
  <1>11. p.at \notin Outside BY <1>5 DEF Outside
  <1> QED BY <1>1, <1>2, <1>5, <1>7, <1>8, <1>9, <1>10, <1>11, EditorStep
      DEF SureInvariant, TypeOK, browser, channel, storage

\* The start of the cleanup, or its refusal, keeps the invariant.
LEMMA StartCleanupStep ==
    ASSUME SureInvariant, NEW t \in Tabs, StartCleanup(t)
    PROVE  SureInvariant'
  <1> DEFINE r == page[t].mem
             w == [what |-> "step", record |-> r, stale |-> FALSE]
             p == Awaits(page[t], "barrier", "step", r)
  <1>1. /\ page[t].at = "recount"
        /\ \/ Becomes(t, p) /\ exported' = r.version
           \/ Goto(t, "open") /\ UNCHANGED exported
        /\ CountEnds(t)
        /\ UNCHANGED <<browser, published, heard, missed, storage, engine>>
    BY DEF StartCleanup
  <1>2. /\ page[t] \in Page /\ page[t].at \notin Outside /\ r \in Record
        /\ r # None /\ r.marker = "none" /\ PageIsConsistent(page[t])
        /\ PageIsCovered(t, page[t]) /\ page \in [Tabs -> Page] /\ Clean(r) = r
    BY <1>1, EditorFacts DEF Outside
  <1>3. Plain(page[t].queue) BY <1>1, <1>2, NothingAwaited DEF Awaiting
  <1>4. \A v \in Live(page[t]) : v.record.marker # "vod-purged" BY <1>2, <1>3, LiveIsUnmarked
  <1>5. CASE Goto(t, "open") /\ UNCHANGED exported BY <1>1, <1>5, BackToOpen
  <1>6. CASE Becomes(t, p) /\ exported' = r.version
    <2>1. /\ p \in Page /\ p.at = "barrier" /\ p.mem = r
          /\ p.queue = Append(page[t].queue, w) /\ Live(p) \subseteq Live(page[t]) \cup {w}
          /\ w \in Write /\ w.what = "step" /\ w.record = r
      <3>1. "barrier" \in Places BY DEF Places, Cleaning
      <3> QED BY <1>2, <3>1, AwaitsFacts
    <2>2. Becomes(t, p) BY <1>6
    <2> HIDE DEF p, w
    <2>3. PageIsConsistent(p)
      BY <1>2, <1>3, <1>4, <2>1, UnmarkedAwaits DEF Awaiting, Awaited, Sealed
    <2>4. page'[t] = p BY <1>2, <2>2 DEF Becomes
    <2>5. disk.marker # "vod-purged" /\ disk # None /\ checkpoint # None
      BY <1>1, <1>2 DEF PageIsCovered
    <2>6. checkpoint.project.marker # "vod-purged"
      BY <2>5 DEF SureInvariant, CheckpointIsTrue
    <2>7. (disk # None => MarkIsTrue(disk))' /\ CheckpointIsTrue'
      BY <1>1, <2>5, <2>6 DEF SureInvariant, CheckpointIsTrue, MarkIsTrue, storage
    <2>8. PageIsCovered(t, page[t])'
      <3>1. MarkIsTrue(page[t].mem)' /\ \A v \in Live(p) : MarkIsTrue(v.record)'
        BY <1>2, <1>4, <2>1, <2>4 DEF MarkIsTrue
      <3> QED BY <1>1, <1>2, <1>6, <2>1, <2>4, <3>1
          DEF PageIsCovered, Live, Sealed, browser, storage, engine
    <2>9. p.at \notin Outside /\ r.version \in Versions
      BY <1>2, <2>1, RecordFacts DEF Outside
    <2>10. {a \in asked : a[1] # t} \subseteq asked' /\ asked' \subseteq Tabs \X Tabs
      BY <1>1 DEF SureInvariant, TypeOK, CountEnds
    <2> QED BY <1>1, <1>2, <1>6, <2>1, <2>2, <2>3, <2>7, <2>8, <2>9, <2>10, EditorStep
        DEF SureInvariant, TypeOK, browser, storage, engine
  <1> QED BY <1>1, <1>5, <1>6

\* What is known of a page while the engine purges.
LEMMA PurgingFacts ==
    ASSUME SureInvariant, NEW t \in Tabs, page[t].at = "purge"
    PROVE  /\ page[t] \in Page /\ page[t].at \notin Outside /\ page[t].mem \in Record
           /\ page[t].mem # None /\ page[t].mem.marker = "none"
           /\ PageIsConsistent(page[t]) /\ PageIsCovered(t, page[t])
           /\ page \in [Tabs -> Page] /\ Clean(page[t].mem) = page[t].mem
           /\ page[t].mem.version = exported
           /\ Plain(page[t].queue)
           /\ \A v \in Live(page[t]) : v.record.marker # "vod-purged"
                                       /\ Clean(v.record) = page[t].mem
  <1>1. /\ page[t] \in Page /\ page[t].at \notin Outside /\ page[t].mem \in Record
        /\ page[t].mem # None /\ page[t].mem.marker = "none"
        /\ PageIsConsistent(page[t]) /\ PageIsCovered(t, page[t])
        /\ page \in [Tabs -> Page] /\ Clean(page[t].mem) = page[t].mem
    BY EditorFacts DEF Outside
  <1>2. page[t].mem.version = exported BY <1>1 DEF PageIsCovered, Sealed
  <1>3. Plain(page[t].queue) BY <1>1, NothingAwaited DEF Awaiting
  <1>4. \A v \in Live(page[t]) : v.record.marker # "vod-purged"
    BY <1>1, <1>3, LiveIsUnmarked
  <1>5. \A v \in Live(page[t]) : Clean(v.record) = page[t].mem
    BY <1>1 DEF PageIsConsistent, WriteFits, Sealed
  <1> QED BY <1>1, <1>2, <1>3, <1>4, <1>5

\* A purge that has succeeded keeps the invariant.
LEMMA PurgedStep ==
    ASSUME SureInvariant, NEW t \in Tabs, Purged(t)
    PROVE  SureInvariant'
  <1> DEFINE m == page[t].mem
             r == Marked(m, "vod-purged")
             w == [what |-> "step", record |-> r, stale |-> FALSE]
             p == Awaits(page[t], "mark", "step", r)
  <1>1. /\ page[t].at = "purge" /\ material' = FALSE /\ Becomes(t, p)
        /\ UNCHANGED <<browser, channel, storage, late, again, exported>>
    BY DEF Purged
  <1>2. /\ page[t] \in Page /\ page[t].at \notin Outside /\ m \in Record
        /\ m # None /\ m.marker = "none"
        /\ PageIsConsistent(page[t]) /\ PageIsCovered(t, page[t])
        /\ page \in [Tabs -> Page] /\ Clean(m) = m /\ m.version = exported
        /\ Plain(page[t].queue)
        /\ \A v \in Live(page[t]) : v.record.marker # "vod-purged" /\ Clean(v.record) = m
    BY <1>1, PurgingFacts
  <1>3. r \in Record /\ r.version = m.version /\ Clean(r) = m
    BY <1>2, RecordFacts DEF Markers
  <1> HIDE DEF r
  <1>4. /\ p \in Page /\ p.at = "mark" /\ p.mem = m
        /\ p.queue = Append(page[t].queue, w) /\ Live(p) \subseteq Live(page[t]) \cup {w}
        /\ w \in Write /\ w.what = "step" /\ w.record = r
    <2>1. "mark" \in Places BY DEF Places, Cleaning
    <2> QED BY <1>2, <1>3, <2>1, AwaitsFacts
  <1> HIDE DEF p, w
  <1>5. PageIsConsistent(p)
    BY <1>2, <1>3, <1>4, UnmarkedAwaits DEF Awaiting, Awaited, Sealed
  <1>6. page'[t] = p BY <1>1, <1>2 DEF Becomes
  <1>7. PageIsCovered(t, page[t])'
    <2>1. MarkIsTrue(page[t].mem)' BY <1>2, <1>4, <1>6 DEF MarkIsTrue
    <2>2. \A v \in Live(p) : MarkIsTrue(v.record)'
      BY <1>1, <1>2, <1>3, <1>4 DEF MarkIsTrue
    <2> QED BY <1>1, <1>2, <1>4, <1>6, <2>1, <2>2
        DEF PageIsCovered, Live, Sealed, browser, storage
  <1>8. (disk # None => MarkIsTrue(disk))'
    BY <1>1 DEF SureInvariant, MarkIsTrue, storage
  <1>9. CheckpointIsTrue'
    BY <1>1 DEF SureInvariant, CheckpointIsTrue, MarkIsTrue, storage
  <1>10. p.at \notin Outside BY <1>4 DEF Outside
  <1> QED BY <1>1, <1>2, <1>4, <1>5, <1>7, <1>8, <1>9, <1>10, EditorStep
      DEF SureInvariant, TypeOK, browser, channel, storage

\* A purge that has failed keeps the invariant.
LEMMA PurgeFailsStep ==
    ASSUME SureInvariant, NEW t \in Tabs, PurgeFails(t)
    PROVE  SureInvariant'
  <1> DEFINE m == page[t].mem
             w == [what |-> "step", record |-> m, stale |-> FALSE]
             p == Awaits(page[t], "unmark", "step", m)
  <1>1. /\ page[t].at = "purge" /\ late' \in {late, TRUE} /\ Becomes(t, p)
        /\ UNCHANGED <<browser, channel, storage, material, again, exported>>
    BY DEF PurgeFails
  <1>2. /\ page[t] \in Page /\ page[t].at \notin Outside /\ m \in Record
        /\ m # None /\ m.marker = "none"
        /\ PageIsConsistent(page[t]) /\ PageIsCovered(t, page[t])
        /\ page \in [Tabs -> Page] /\ Clean(m) = m /\ m.version = exported
        /\ Plain(page[t].queue)
        /\ \A v \in Live(page[t]) : v.record.marker # "vod-purged" /\ Clean(v.record) = m
    BY <1>1, PurgingFacts
  <1>3. /\ p \in Page /\ p.at = "unmark" /\ p.mem = m
        /\ p.queue = Append(page[t].queue, w) /\ Live(p) \subseteq Live(page[t]) \cup {w}
        /\ w \in Write /\ w.what = "step" /\ w.record = m
    <2>1. "unmark" \in Places BY DEF Places, Cleaning
    <2> QED BY <1>2, <2>1, AwaitsFacts
  <1> HIDE DEF p, w
  <1>4. PageIsConsistent(p)
    BY <1>2, <1>3, UnmarkedAwaits DEF Awaiting, Awaited, Sealed
  <1>5. page'[t] = p BY <1>1, <1>2 DEF Becomes
  <1>6. PageIsCovered(t, page[t])'
    <2>1. MarkIsTrue(page[t].mem)' BY <1>2, <1>3, <1>5 DEF MarkIsTrue
    <2>2. \A v \in Live(p) : MarkIsTrue(v.record)' BY <1>2, <1>3 DEF MarkIsTrue
    <2> QED BY <1>1, <1>2, <1>3, <1>5, <2>1, <2>2
        DEF PageIsCovered, Live, Sealed, browser, storage
  <1>7. (disk # None => MarkIsTrue(disk))' /\ CheckpointIsTrue'
    BY <1>1 DEF SureInvariant, CheckpointIsTrue, MarkIsTrue, storage
  <1>8. p.at \notin Outside BY <1>3 DEF Outside
  <1> QED BY <1>1, <1>2, <1>3, <1>4, <1>6, <1>7, <1>8, EditorStep
      DEF SureInvariant, TypeOK, browser, channel, storage

-----------------------------------------------------------------------------
(* The startup *)

\* The checkpoint of a session keeps the invariant.
LEMMA BeginStep ==
    ASSUME SureInvariant, NEW t \in Tabs, Begin(t)
    PROVE  SureInvariant'
  <1>1. /\ page[t] \in Page /\ page[t].at = "begin" /\ page[t].at \notin Outside
        /\ page[t].mem = None /\ page[t].queue = <<>> /\ page \in [Tabs -> Page]
        /\ session[t] # 0 /\ session[t] \in 0..SessionLimit
        /\ UNCHANGED <<browser, channel, disk, engine, exported>>
    BY EditorFacts DEF Begin, Outside, PageIsConsistent, MemoryFits, PageIsCovered,
        SureInvariant, TypeOK
  <1>2. PICK place \in {"load", "failed"} :
            /\ Goto(t, place)
            /\ \/ /\ checkpoint = None
                  /\ checkpoint' = [owner |-> session[t], project |-> disk]
               \/ /\ checkpoint # None /\ UNCHANGED checkpoint
                  /\ place = "load" => checkpoint.owner = session[t]
    BY DEF Begin
  <1> DEFINE p == [page[t] EXCEPT !.at = place]
  <1>3. place \in Places BY DEF Places, Starting
  <1>4. p \in Page /\ p.at = place /\ p.mem = None /\ p.queue = <<>> BY <1>1, <1>3 DEF Page
  <1>5. Becomes(t, p) BY <1>2 DEF Goto
  <1> HIDE DEF p
  <1>6. page'[t] = p BY <1>1, <1>5 DEF Becomes
  <1>7. PageIsConsistent(p) BY <1>4, EmptyIsConsistent
  <1>8. /\ checkpoint' \in Row \cup {None} /\ disk \in Record \cup {None}
        /\ place = "load" => checkpoint' # None /\ checkpoint'.owner = session[t]
    <2>1. disk \in Record \cup {None} /\ checkpoint \in Row \cup {None}
      BY DEF SureInvariant, TypeOK
    <2>2. session[t] \in 1..SessionLimit BY <1>1, LimitAssumption
    <2>3. [owner |-> session[t], project |-> disk] \in Row BY <2>1, <2>2 DEF Row
    <2> QED BY <1>2, <2>1, <2>3, NoneAssumption
  <1>9. PageIsCovered(t, page[t])'
    BY <1>1, <1>4, <1>6, <1>8 DEF PageIsCovered, Sealed, browser
  <1>10. (disk # None => MarkIsTrue(disk))' /\ CheckpointIsTrue'
    BY <1>1, <1>2, <1>8 DEF SureInvariant, CheckpointIsTrue, MarkIsTrue, engine
  <1>11. p.at \notin Outside BY <1>4 DEF Outside
  <1> QED BY <1>1, <1>4, <1>5, <1>7, <1>8, <1>9, <1>10, <1>11, EditorStep
      DEF SureInvariant, TypeOK, browser, channel, engine

\* The load and the first step of the recovery keep the invariant.
LEMMA LoadStep ==
    ASSUME SureInvariant, NEW t \in Tabs, Load(t)
    PROVE  SureInvariant'
  <1>1. /\ page[t] \in Page /\ page[t].at = "load" /\ page[t].at \notin Outside
        /\ page[t].mem = None /\ page[t].queue = <<>> /\ page \in [Tabs -> Page]
        /\ session[t] # 0 /\ checkpoint # None /\ checkpoint.owner = session[t]
        /\ UNCHANGED <<browser, asked, heard, missed, storage, engine, exported>>
    BY EditorFacts DEF Load, Outside, PageIsConsistent, MemoryFits, PageIsCovered
  <1>2. (disk # None => MarkIsTrue(disk))' /\ CheckpointIsTrue'
    BY <1>1 DEF SureInvariant, CheckpointIsTrue, MarkIsTrue, engine, storage
  <1>3. CASE disk = None
    <2> DEFINE p == [page[t] EXCEPT !.at = "failed"]
    <2>1. Becomes(t, p) /\ UNCHANGED published BY <1>3 DEF Load, Goto
    <2>2. p \in Page /\ p.at = "failed" /\ p.mem = None /\ p.queue = <<>>
      <3>1. "failed" \in Places BY DEF Places
      <3> QED BY <1>1, <3>1 DEF Page
    <2> HIDE DEF p
    <2>3. page'[t] = p BY <1>1, <2>1 DEF Becomes
    <2>4. PageIsConsistent(p) BY <2>2, EmptyIsConsistent
    <2>5. PageIsCovered(t, page[t])'
      BY <1>1, <2>2, <2>3 DEF PageIsCovered, Sealed, browser
    <2>6. p.at \notin Outside BY <2>2 DEF Outside
    <2> QED BY <1>1, <1>2, <2>1, <2>2, <2>4, <2>5, <2>6, EditorStep
        DEF SureInvariant, TypeOK, browser, storage, engine
  <1>4. CASE disk # None
    <2> DEFINE e == [page[t] EXCEPT !.mem = disk]
               what == IF Recovery(disk) = "finish" THEN "delete" ELSE "step"
               r == Clean(disk)
               w == [what |-> what, record |-> r, stale |-> FALSE]
               p == Awaits(e, Recovery(disk), what, r)
    <2>1. Becomes(t, p) /\ published' = published \cup {t} BY <1>4 DEF Load
    <2>2. disk \in Record BY <1>4 DEF SureInvariant, TypeOK
    <2>3. r \in Record /\ r.marker = "none" /\ disk.marker \in Markers BY <2>2, RecordFacts
    <2>4. e \in Page /\ e.mem = disk /\ e.queue = <<>> BY <1>1, <2>2 DEF Page
    <2>5. /\ Recovery(disk) \in {"entry", "drop", "finish"}
          /\ Recovery(disk) \in Places /\ Recovery(disk) \in Awaiting
          /\ Recovery(disk) = "finish" <=> disk.marker = "vod-purged"
          /\ Recovery(disk) = "drop" <=> disk.marker = "purge-intent"
      BY <2>3 DEF Recovery, Markers, Places, Starting, Awaiting
    <2>6. what \in {"snapshot", "step", "draft", "delete"} /\ what # "snapshot"
          /\ what = Awaited(Recovery(disk))
      BY <2>5 DEF Awaited
    <2> HIDE DEF e, what, r
    <2>7. /\ p \in Page /\ p.at = Recovery(disk) /\ p.mem = disk
          /\ p.queue = Append(e.queue, w) /\ Live(p) \subseteq Live(e) \cup {w}
          /\ w \in Write /\ w.what = what /\ w.record = r
      BY <2>3, <2>4, <2>5, <2>6, AwaitsFacts
    <2> HIDE DEF p, w
    <2>8. Live(e) = {} /\ Plain(e.queue) BY <2>4 DEF Live, Plain
    <2>9. PageIsConsistent(p)
      <3>1. MemoryFits(p) BY <1>4, <2>5, <2>7 DEF MemoryFits, Outside
      <3>2. WriteFits(p, w) BY <2>3, <2>5, <2>6, <2>7 DEF WriteFits, Sealed
      <3>3. p.at # "done" /\ p.at # "barrier" BY <2>5, <2>7
      <3>4. e.queue \in Seq(Write) BY <2>4
      <3> QED BY <2>5, <2>6, <2>7, <2>8, <3>1, <3>2, <3>3, <3>4, AwaitFits
    <2>10. page'[t] = p BY <1>1, <2>1 DEF Becomes
    <2>11. PageIsCovered(t, page[t])'
      <3>1. \A v \in Live(p) : MarkIsTrue(v.record)' BY <2>3, <2>7, <2>8 DEF MarkIsTrue
      <3>2. MarkIsTrue(page[t].mem)' BY <1>1, <1>2, <1>4, <2>7, <2>10 DEF MarkIsTrue, storage
      <3>3. /\ checkpoint'.project.marker = "vod-purged" => disk'.marker = "vod-purged"
            /\ disk' = disk /\ checkpoint' = checkpoint /\ session' = session
        BY <1>1, <1>2, <1>4 DEF CheckpointIsTrue, storage, browser
      <3> QED BY <1>1, <1>4, <2>5, <2>7, <2>10, <3>1, <3>2, <3>3
          DEF PageIsCovered, Live, Sealed
    <2>12. p.at \notin Outside BY <2>5, <2>7 DEF Outside
    <2>13. published' \subseteq Tabs BY <2>1 DEF SureInvariant, TypeOK
    <2> QED BY <1>1, <1>2, <2>1, <2>7, <2>9, <2>11, <2>12, <2>13, EditorStep
        DEF SureInvariant, TypeOK, browser, storage, engine
  <1> QED BY <1>3, <1>4

-----------------------------------------------------------------------------
(* The write queue *)

\* What becomes of a page whose awaited write is over; the flow seals nothing
\* but the state it has exported, and no mark appears.
Outcome(p, d) ==
    /\ d \in Page /\ PageIsConsistent(d) /\ d.at \notin Outside
    /\ d.mem \in Record /\ d.mem.version = p.mem.version
    /\ d.mem.marker = "none" \/ (d.mem = p.mem /\ d.at \in {"done", "failed"})
    /\ \A v \in Live(d) : v \in Live(p) \/ v.record.marker # "vod-purged"
    /\ d.at \in Sealed => d.mem = p.mem /\ p.at \in Sealed \cup {"barrier"}
    /\ d.at \notin {"load", "finish", "mark", "barrier"}
    /\ d.at = "delete" /\ d.mem.bound => p.at = "mark"
    /\ d.at = "done" => p.at \in {"finish", "delete"}

\* What is left of a page whose awaited write has been taken off its queue.
LEMMA TakenFacts ==
    ASSUME NEW p \in Page, PageIsConsistent(p), p.queue # <<>>,
           Head(p.queue).what # "snapshot", NEW q, q = [p EXCEPT !.queue = Tail(@)]
    PROVE  /\ q \in Page /\ q.at = p.at /\ q.mem = p.mem /\ q.queue = Tail(p.queue)
           /\ Plain(q.queue) /\ Live(q) \subseteq Live(p) /\ p.mem \in Record
           /\ p.at \in Awaiting /\ Head(p.queue).what = Awaited(p.at)
           /\ p.at = "delete" => Live(q) = {}
           /\ p.at \notin {"drop", "finish"} => p.mem.marker = "none" /\ Clean(p.mem) = p.mem
           /\ p.at = "drop" => p.mem.marker # "vod-purged"
           /\ p.mem.marker # "vod-purged" => \A v \in Live(q) : v.record.marker # "vod-purged"
           /\ p.at \in Sealed \cup {"barrier"} => \A v \in Live(q) : Clean(v.record) = p.mem
  <1>1. p.queue \in Seq(Write) /\ Tail(p.queue) \in Seq(Write) BY PageFacts, TailFacts
  <1>2. q \in Page /\ q.at = p.at /\ q.mem = p.mem /\ q.queue = Tail(p.queue)
    BY <1>1 DEF Page
  <1>3. /\ Plain(q.queue) /\ p.at \in Awaiting /\ Head(p.queue).what = Awaited(p.at)
        /\ p.at = "delete" => q.queue = <<>>
        /\ p.mem # None
    BY <1>2, BehindAwaited
  <1>4. p.mem \in Record BY <1>3, PageFacts
  <1>5. Live(q) \subseteq Live(p) BY <1>1, <1>2, LiveTail
  <1>6. q.queue = <<>> => Live(q) = {}
    <2>1. q.queue = <<>> => DOMAIN q.queue = {} OBVIOUS
    <2> QED BY <2>1 DEF Live
  <1>7. p.mem.marker \in Markers /\ (p.mem.marker = "none" => Clean(p.mem) = p.mem)
    BY <1>4, RecordFacts
  <1>8. /\ p.at \notin {"drop", "finish"} => p.mem.marker = "none"
        /\ p.at = "drop" => p.mem.marker # "vod-purged"
    BY <1>3, <1>7 DEF PageIsConsistent, MemoryFits, Markers, Awaiting
  <1>9. \A v \in Live(q) : v.what = "snapshot" BY <1>3 DEF Plain, Live
  <1>10. p.mem.marker # "vod-purged" => \A v \in Live(q) : v.record.marker # "vod-purged"
    BY <1>5, <1>9 DEF PageIsConsistent, WriteFits
  <1>11. p.at \in Sealed => \A v \in Live(q) : Clean(v.record) = p.mem
    BY <1>5 DEF PageIsConsistent, WriteFits
  <1>12. ASSUME p.at = "barrier", NEW v \in Live(q) PROVE Clean(v.record) = p.mem
    <2>1. PICK i \in DOMAIN q.queue : v = q.queue[i] /\ ~q.queue[i].stale BY DEF Live
    <2>2. i \in DOMAIN Tail(p.queue) BY <1>2, <2>1
    <2>3. /\ i \in Nat /\ i >= 1 /\ i + 1 \in DOMAIN p.queue /\ 1 \in DOMAIN p.queue
          /\ Tail(p.queue)[i] = p.queue[i + 1] /\ Head(p.queue) = p.queue[1]
      BY <1>1, <2>2, TailFacts
    <2>4. 1 <= i + 1 /\ v = p.queue[i + 1] BY <1>2, <2>1, <2>3
    <2> QED BY <1>12, <2>1, <2>3, <2>4 DEF PageIsConsistent, BarrierHolds
  <1> QED BY <1>2, <1>3, <1>4, <1>5, <1>6, <1>7, <1>8, <1>10, <1>11, <1>12

\* The same page when the generation of its queue has advanced.
LEMMA AdvancedPage ==
    ASSUME NEW q \in Page, NEW running \in BOOLEAN,
           NEW d \in Page, d.at = q.at, d.mem = q.mem, d.queue = Advanced(q.queue, running)
    PROVE  Live(d) \subseteq Live(q) /\ (Plain(q.queue) => Plain(d.queue))
  <1>1. q.queue \in Seq(Write) BY PageFacts
  <1>2. Live(d) \subseteq Live(q) BY <1>1, LiveAdvanced
  <1>3. Plain(q.queue) => Plain(d.queue) BY <1>1, AdvancedFacts DEF Plain
  <1> QED BY <1>2, <1>3

\* The flow goes on to the next write of it.
LEMMA GoesOnWaiting ==
    ASSUME NEW p \in Page, p.mem \in Record,
           NEW q \in Page, q.mem \in Record, q.mem.marker = "none", Plain(q.queue),
           q.mem.version = p.mem.version,
           Live(q) \subseteq Live(p), \A v \in Live(q) : v.record.marker # "vod-purged",
           NEW place \in {"entry", "flush", "intent", "delete"},
           place \in Sealed => /\ \A v \in Live(q) : Clean(v.record) = q.mem
                               /\ q.mem = p.mem /\ p.at \in Sealed \cup {"barrier"},
           place = "delete" /\ q.mem.bound => p.at = "mark",
           NEW r \in Record, r.marker # "vod-purged", place \in Sealed => Clean(r) = q.mem,
           NEW what \in {"step", "delete"}, what = Awaited(place)
    PROVE  Outcome(p, Awaits(q, place, what, r))
  <1> DEFINE w == [what |-> what, record |-> r, stale |-> FALSE]
             d == Awaits(q, place, what, r)
  <1>1. place \in Places /\ place \in Awaiting /\ place # "finish"
    BY DEF Places, Starting, Cleaning, Awaiting
  <1>2. /\ d \in Page /\ d.at = place /\ d.mem = q.mem
        /\ d.queue = Append(q.queue, w) /\ Live(d) \subseteq Live(q) \cup {w}
        /\ w \in Write /\ w.what = what /\ w.record = r
    BY <1>1, AwaitsFacts
  <1> HIDE DEF w, d
  <1>3. PageIsConsistent(d) BY <1>1, <1>2, UnmarkedAwaits
  <1> QED BY <1>1, <1>2, <1>3 DEF Outcome, Outside, Sealed, d

\* The flow goes on, or ends, and awaits nothing.
LEMMA GoesOnIdle ==
    ASSUME NEW p \in Page, p.mem \in Record,
           NEW q \in Page, q.mem \in Record, q.mem.marker = "none", Plain(q.queue),
           q.mem.version = p.mem.version,
           Live(q) \subseteq Live(p), \A v \in Live(q) : v.record.marker # "vod-purged",
           NEW place \in {"open", "render", "purge", "failed"},
           place \in Sealed => /\ \A v \in Live(q) : Clean(v.record) = q.mem
                               /\ q.mem = p.mem /\ p.at \in Sealed \cup {"barrier"}
    PROVE  Outcome(p, [q EXCEPT !.at = place])
  <1> DEFINE d == [q EXCEPT !.at = place]
  <1>1. /\ d \in Page /\ PageIsConsistent(d) /\ d.at = place /\ d.mem = q.mem
        /\ d.queue = q.queue /\ Live(d) = Live(q)
    BY UnmarkedMoves
  <1> HIDE DEF d
  <1> QED BY <1>1 DEF Outcome, Outside, Sealed, d

\* The flow ends with its session deleted.
LEMMA GoesOnDone ==
    ASSUME NEW p \in Page, PageIsConsistent(p), p.mem \in Record, p.at \in {"finish", "delete"},
           NEW q \in Page, q.mem = p.mem, Plain(q.queue),
           Live(q) \subseteq Live(p), p.at = "delete" => Live(q) = {}
    PROVE  Outcome(p, [q EXCEPT !.at = "done"])
  <1> DEFINE d == [q EXCEPT !.at = "done"]
  <1>1. "done" \in Places BY DEF Places
  <1>2. d \in Page /\ d.at = "done" /\ d.mem = q.mem /\ d.queue = q.queue BY <1>1 DEF Page
  <1>3. Live(d) = Live(q) BY <1>2 DEF Live
  <1> HIDE DEF d
  <1>4. p.mem # None /\ p.mem.marker \in Markers BY NoneAssumption, RecordFacts
  <1>5. p.at = "delete" => p.mem.marker = "none"
    BY <1>4 DEF PageIsConsistent, MemoryFits, Markers
  <1>6. p.at = "finish" => p.mem.marker = "vod-purged"
    BY DEF PageIsConsistent, MemoryFits
  <1>7. MemoryFits(d) BY <1>2, <1>4, <1>5, <1>6 DEF MemoryFits, Outside
  <1>8. \A v \in Live(d) : WriteFits(d, v)
    BY <1>2, <1>3, <1>6 DEF PageIsConsistent, WriteFits, Sealed
  <1>9. d.mem.marker # "vod-purged" => Live(d) = {} BY <1>2, <1>3, <1>6
  <1>10. Plain(d.queue) BY <1>2
  <1>11. PageIsConsistent(d) BY <1>2, <1>7, <1>8, <1>9, <1>10, PlainFits
  <1> QED BY <1>2, <1>3, <1>11 DEF Outcome, Outside, Sealed, d

\* A startup that has failed.
LEMMA GoesOnFailed ==
    ASSUME NEW p \in Page, PageIsConsistent(p), p.mem \in Record,
           NEW q \in Page, q.mem = p.mem, Plain(q.queue), Live(q) \subseteq Live(p),
           p.mem.marker # "vod-purged" => \A v \in Live(q) : v.record.marker # "vod-purged"
    PROVE  Outcome(p, [q EXCEPT !.at = "failed"])
  <1> DEFINE d == [q EXCEPT !.at = "failed"]
  <1>1. "failed" \in Places BY DEF Places
  <1>2. d \in Page /\ d.at = "failed" /\ d.mem = q.mem /\ d.queue = q.queue BY <1>1 DEF Page
  <1>3. Live(d) = Live(q) BY <1>2 DEF Live
  <1> HIDE DEF d
  <1>4. p.mem # None BY NoneAssumption
  <1>5. MemoryFits(d) BY <1>2, <1>4 DEF MemoryFits, Outside
  <1>6. \A v \in Live(d) : WriteFits(d, v)
    BY <1>2, <1>3 DEF PageIsConsistent, WriteFits, Sealed
  <1>7. Plain(d.queue) /\ d.at # "done" BY <1>2
  <1>8. PageIsConsistent(d) BY <1>2, <1>5, <1>6, <1>7, PlainFits
  <1> QED BY <1>2, <1>3, <1>8 DEF Outcome, Outside, Sealed, d

\* Whatever place awaited a write, the page is consistent when it is committed.
LEMMA AfterWriteOutcome ==
    ASSUME NEW p \in Page, PageIsConsistent(p), p.queue # <<>>,
           Head(p.queue).what # "snapshot", NEW running \in BOOLEAN
    PROVE  Outcome(p, AfterWrite([p EXCEPT !.queue = Tail(@)], running))
  <1> DEFINE q == [p EXCEPT !.queue = Tail(@)]
             n == [q EXCEPT !.queue = Advanced(@, running)]
             d == AfterWrite(q, running)
             m == p.mem
  <1>1. /\ q \in Page /\ q.at = p.at /\ q.mem = m /\ m \in Record
        /\ Plain(q.queue) /\ Live(q) \subseteq Live(p) /\ p.at \in Awaiting
        /\ p.at = "delete" => Live(q) = {}
        /\ p.at \notin {"drop", "finish"} => m.marker = "none" /\ Clean(m) = m
        /\ p.at = "drop" => m.marker # "vod-purged"
        /\ m.marker # "vod-purged" => \A v \in Live(q) : v.record.marker # "vod-purged"
        /\ p.at \in Sealed \cup {"barrier"} => \A v \in Live(q) : Clean(v.record) = m
    BY TakenFacts
  <1> HIDE DEF q
  <1>2. /\ n \in Page /\ n.at = p.at /\ n.mem = m /\ Plain(n.queue)
        /\ Live(n) \subseteq Live(q) /\ Live(n) \subseteq Live(p)
    <2>1. q.queue \in Seq(Write) BY <1>1, PageFacts
    <2>2. Advanced(q.queue, running) \in Seq(Write) BY <2>1, AdvancedFacts
    <2>3. n \in Page /\ n.at = p.at /\ n.mem = m /\ n.queue = Advanced(q.queue, running)
      BY <1>1, <2>2 DEF Page
    <2> HIDE DEF n
    <2>4. Plain(n.queue) /\ Live(n) \subseteq Live(q) BY <1>1, <2>3, AdvancedPage
    <2> QED BY <1>1, <2>3, <2>4
  <1> HIDE DEF n, d
  <1>3. /\ Clean(m) \in Record /\ Clean(m).marker = "none" /\ Clean(m).version = m.version
        /\ Marked(m, "purge-intent") \in Record
        /\ Marked(m, "purge-intent").marker = "purge-intent"
        /\ Clean(Marked(m, "purge-intent")) = Clean(m)
        /\ [m EXCEPT !.bound = TRUE] \in Record
        /\ [m EXCEPT !.bound = TRUE].marker = m.marker
        /\ [m EXCEPT !.bound = TRUE].version = m.version
        /\ Detached(m) \in Record /\ Detached(m).marker = m.marker
        /\ Detached(m).version = m.version
    BY <1>1, RecordFacts DEF Markers
  <1>4. CASE p.at = "drop"
    <2> DEFINE e == [q EXCEPT !.mem = Clean(@)]
    <2>1. d = Awaits(e, "entry", "step", Clean(m))
      BY <1>1, <1>4 DEF AfterWrite, d
    <2>2. e \in Page /\ e.mem = Clean(m) /\ e.queue = q.queue BY <1>1, <1>3 DEF Page
    <2>3. Live(e) = Live(q) BY <2>2 DEF Live
    <2> HIDE DEF e
    <2>4. "step" = Awaited("entry") /\ "entry" \notin Sealed BY DEF Awaited, Sealed
    <2>5. Outcome(p, Awaits(e, "entry", "step", Clean(m)))
      BY <1>1, <1>3, <1>4, <2>2, <2>3, <2>4, GoesOnWaiting
    <2> QED BY <2>1, <2>5 DEF d, q
  <1>5. CASE p.at \in {"entry", "flush", "intent", "unmark"}
    <2>1. d = [q EXCEPT !.at = After(p.at)] BY <1>1, <1>5 DEF AfterWrite, d
    <2>2. /\ After(p.at) \in {"open", "render", "purge", "failed"}
          /\ After(p.at) \in Sealed => p.at \in Sealed
          /\ p.at \notin {"drop", "finish"}
      BY <1>5 DEF After, Sealed
    <2>3. Outcome(p, [q EXCEPT !.at = After(p.at)])
      BY <1>1, <2>2, GoesOnIdle
    <2> QED BY <2>1, <2>3 DEF d, q
  <1>6. CASE p.at \in {"finish", "delete"}
    <2>1. d = [n EXCEPT !.at = "done"] BY <1>1, <1>6 DEF AfterWrite, d, n
    <2>2. p.at = "delete" => Live(n) = {} BY <1>1, <1>2
    <2>3. Outcome(p, [n EXCEPT !.at = "done"]) BY <1>1, <1>2, <1>6, <2>2, GoesOnDone
    <2> QED BY <2>1, <2>3 DEF d, q
  <1>7. CASE p.at = "binding"
    <2> DEFINE e == [q EXCEPT !.mem = [m EXCEPT !.bound = TRUE]]
    <2>1. d = [e EXCEPT !.at = "open"]
      BY <1>1, <1>7 DEF AfterWrite, d, Page
    <2>2. e \in Page /\ e.mem = [m EXCEPT !.bound = TRUE] /\ e.queue = q.queue
      BY <1>1, <1>3 DEF Page
    <2>3. Live(e) = Live(q) BY <2>2 DEF Live
    <2> HIDE DEF e
    <2>4. e.mem \in Record /\ e.mem.marker = "none" /\ e.mem.version = m.version
      BY <1>1, <1>3, <1>7, <2>2
    <2>5. Plain(e.queue) /\ Live(e) \subseteq Live(p)
          /\ \A v \in Live(e) : v.record.marker # "vod-purged"
      BY <1>1, <1>7, <2>2, <2>3
    <2>6. Outcome(p, [e EXCEPT !.at = "open"])
      BY <1>1, <2>2, <2>4, <2>5, GoesOnIdle DEF Sealed
    <2> QED BY <2>1, <2>6 DEF d, q
  <1>8. CASE p.at = "draft"
    <2>1. d = Awaits(q, "flush", "step", m) BY <1>1, <1>8 DEF AfterWrite, d
    <2>2. "step" = Awaited("flush") /\ "flush" \notin Sealed BY DEF Awaited, Sealed
    <2>3. Outcome(p, Awaits(q, "flush", "step", m)) BY <1>1, <1>8, <2>2, GoesOnWaiting
    <2> QED BY <2>1, <2>3 DEF d, q
  <1>9. CASE p.at = "barrier" /\ m.bound
    <2>1. d = Awaits(n, "intent", "step", Marked(m, "purge-intent"))
      BY <1>1, <1>9 DEF AfterWrite, d, n
    <2>2. "step" = Awaited("intent") BY DEF Awaited
    <2>3. Outcome(p, Awaits(n, "intent", "step", Marked(m, "purge-intent")))
      BY <1>1, <1>2, <1>3, <1>9, <2>2, GoesOnWaiting
    <2> QED BY <2>1, <2>3 DEF d, q
  <1>10. CASE (p.at = "barrier" /\ ~m.bound) \/ p.at = "mark"
    <2>1. d = Awaits(n, "delete", "delete", m) BY <1>1, <1>10 DEF AfterWrite, d, n
    <2>2. "delete" = Awaited("delete") /\ "mark" \in Sealed BY DEF Awaited, Sealed
    <2>3. Outcome(p, Awaits(n, "delete", "delete", m))
      BY <1>1, <1>2, <1>10, <2>2, GoesOnWaiting
    <2> QED BY <2>1, <2>3 DEF d, q
  <1>11. CASE p.at = "unbinding"
    <2> DEFINE e == [q EXCEPT !.mem = Detached(m)]
    <2>1. d = [e EXCEPT !.at = "open"]
      BY <1>1, <1>11 DEF AfterWrite, d, Page
    <2>2. e \in Page /\ e.mem = Detached(m) /\ e.queue = q.queue BY <1>1, <1>3 DEF Page
    <2>3. Live(e) = Live(q) BY <2>2 DEF Live
    <2> HIDE DEF e
    <2>4. e.mem \in Record /\ e.mem.marker = "none" /\ e.mem.version = m.version
      BY <1>1, <1>3, <1>11, <2>2
    <2>5. Plain(e.queue) /\ Live(e) \subseteq Live(p)
          /\ \A v \in Live(e) : v.record.marker # "vod-purged"
      BY <1>1, <1>11, <2>2, <2>3
    <2>6. Outcome(p, [e EXCEPT !.at = "open"])
      BY <1>1, <2>2, <2>4, <2>5, GoesOnIdle DEF Sealed
    <2> QED BY <2>1, <2>6 DEF d, q
  <1> QED BY <1>1, <1>4, <1>5, <1>6, <1>7, <1>8, <1>9, <1>10, <1>11 DEF Awaiting, q

\* Whatever place awaited a write, the page is consistent when it has failed.
LEMMA AfterFailureOutcome ==
    ASSUME NEW p \in Page, PageIsConsistent(p), p.queue # <<>>,
           Head(p.queue).what # "snapshot", NEW running \in BOOLEAN
    PROVE  Outcome(p, AfterFailure([p EXCEPT !.queue = Tail(@)], running))
  <1> DEFINE q == [p EXCEPT !.queue = Tail(@)]
             d == AfterFailure(q, running)
             m == p.mem
  <1>1. /\ q \in Page /\ q.at = p.at /\ q.mem = m /\ m \in Record
        /\ Plain(q.queue) /\ Live(q) \subseteq Live(p) /\ p.at \in Awaiting
        /\ p.at \notin {"drop", "finish"} => m.marker = "none"
        /\ m.marker # "vod-purged" => \A v \in Live(q) : v.record.marker # "vod-purged"
    BY TakenFacts
  <1>2. CASE p.at \in {"drop", "entry", "finish"}
    <2> HIDE DEF q
    <2>1. d = [q EXCEPT !.at = "failed"] BY <1>1, <1>2 DEF AfterFailure
    <2>2. Outcome(p, [q EXCEPT !.at = "failed"]) BY <1>1, GoesOnFailed
    <2> QED BY <2>1, <2>2 DEF q
  <1>3. CASE p.at = "mark"
    <2>1. d = AfterWrite(q, running)
      <3> HIDE DEF q
      <3> QED BY <1>1, <1>3 DEF AfterFailure
    <2> QED BY <2>1, AfterWriteOutcome
  <1>4. CASE p.at = "delete"
    <2> HIDE DEF q
    <2> DEFINE e == [q EXCEPT !.mem = Detached(m)]
    <2>1. d = [e EXCEPT !.at = "open"] BY <1>1, <1>4 DEF AfterFailure, Page
    <2>2. Detached(m) \in Record /\ Detached(m).marker = "none" /\ Detached(m).version = m.version
      BY <1>1, <1>4, RecordFacts
    <2>3. e \in Page /\ e.mem = Detached(m) /\ e.queue = q.queue BY <1>1, <2>2 DEF Page
    <2>4. Live(e) = Live(q) BY <2>3 DEF Live
    <2> HIDE DEF e, d
    <2>5. Plain(e.queue) /\ Live(e) \subseteq Live(p)
          /\ \A v \in Live(e) : v.record.marker # "vod-purged"
      BY <1>1, <1>4, <2>3, <2>4
    <2>6. Outcome(p, [e EXCEPT !.at = "open"])
      BY <1>1, <2>2, <2>3, <2>5, GoesOnIdle DEF Sealed
    <2> QED BY <2>1, <2>6 DEF d, q
  <1>5. CASE p.at \notin {"drop", "entry", "finish", "mark", "delete"}
    <2> HIDE DEF q
    <2>1. d = [q EXCEPT !.at = "open"] BY <1>1, <1>5 DEF AfterFailure
    <2>2. Outcome(p, [q EXCEPT !.at = "open"]) BY <1>1, <1>5, GoesOnIdle DEF Sealed
    <2> QED BY <2>1, <2>2 DEF q
  <1> QED BY <1>2, <1>3, <1>4, <1>5

\* Where the flow goes when its write has been committed.
LEMMA AfterWritePlace ==
    ASSUME NEW p \in Page, p.queue # <<>>, NEW running \in BOOLEAN, p.at \in Awaiting
    PROVE  LET d == AfterWrite([p EXCEPT !.queue = Tail(@)], running) IN
           /\ d.at = "done" <=> p.at \in {"finish", "delete"}
           /\ p.at = "mark" => d.at = "delete"
  <1> DEFINE q == [p EXCEPT !.queue = Tail(@)]
             n == [q EXCEPT !.queue = Advanced(@, running)]
             d == AfterWrite(q, running)
  <1>1. p.queue \in Seq(Write) /\ Tail(p.queue) \in Seq(Write) BY PageFacts, TailFacts
  <1>2. q \in Page /\ q.at = p.at /\ q.mem = p.mem BY <1>1 DEF Page
  <1> HIDE DEF q
  <1>3. n \in Page /\ n.at = p.at /\ n.mem = p.mem
    <2>1. Advanced(q.queue, running) \in Seq(Write) BY <1>2, PageFacts, AdvancedFacts
    <2> QED BY <1>2, <2>1 DEF Page
  <1> HIDE DEF n
  <1>4. CASE p.at \in {"finish", "delete"}
    <2>1. d = [n EXCEPT !.at = "done"] BY <1>2, <1>4 DEF AfterWrite, n
    <2> QED BY <1>3, <1>4, <2>1 DEF Page, q
  <1>5. CASE p.at = "mark"
    <2>1. d = Awaits(n, "delete", "delete", p.mem) BY <1>2, <1>5 DEF AfterWrite, n
    <2> QED BY <1>3, <1>5, <2>1 DEF Page, Awaits, Enqueued, q
  <1>6. CASE p.at \in {"entry", "flush", "intent", "unmark"}
    <2>1. d = [q EXCEPT !.at = After(p.at)] BY <1>2, <1>6 DEF AfterWrite
    <2>2. After(p.at) \in {"open", "render", "purge"} BY <1>6 DEF After
    <2> QED BY <1>2, <1>6, <2>1, <2>2 DEF Page, q
  <1>7. CASE p.at \in {"drop", "binding", "unbinding", "draft", "barrier"}
    <2>1. \/ d = Awaits([q EXCEPT !.mem = Clean(@)], "entry", "step", Clean(q.mem))
          \/ d = [q EXCEPT !.at = "open", !.mem.bound = TRUE]
          \/ d = [q EXCEPT !.at = "open", !.mem = Detached(@)]
          \/ d = Awaits(q, "flush", "step", q.mem)
          \/ d = Awaits(n, "intent", "step", Marked(q.mem, "purge-intent"))
          \/ d = Awaits(n, "delete", "delete", q.mem)
      BY <1>2, <1>3, <1>7 DEF AfterWrite, n
    <2>2. d.at \in {"entry", "open", "flush", "intent", "delete"}
      BY <1>2, <1>3, <2>1 DEF Page, Awaits, Enqueued
    <2> QED BY <1>7, <2>2 DEF q
  <1> QED BY <1>4, <1>5, <1>6, <1>7 DEF Awaiting

\* Where the flow goes when its write has failed.
LEMMA AfterFailurePlace ==
    ASSUME NEW p \in Page, p.queue # <<>>, NEW running \in BOOLEAN, p.at \in Awaiting
    PROVE  LET d == AfterFailure([p EXCEPT !.queue = Tail(@)], running) IN
           /\ d.at \in {"failed", "open", "delete"}
           /\ d.at = "delete" => p.at = "mark"
           /\ p.at \in {"drop", "entry", "finish"} => d.mem = p.mem
  <1> DEFINE q == [p EXCEPT !.queue = Tail(@)]
             d == AfterFailure(q, running)
  <1>1. p.queue \in Seq(Write) /\ Tail(p.queue) \in Seq(Write) BY PageFacts, TailFacts
  <1>2. q \in Page /\ q.at = p.at /\ q.mem = p.mem BY <1>1 DEF Page
  <1>3. CASE p.at = "mark"
    <2>1. d = AfterWrite(q, running)
      <3> HIDE DEF q
      <3> QED BY <1>2, <1>3 DEF AfterFailure
    <2>2. d.at = "delete" BY <1>3, <2>1, AfterWritePlace
    <2> QED BY <1>3, <2>2
  <1>4. CASE p.at # "mark"
    <2> HIDE DEF q
    <2>1. \/ p.at \in {"drop", "entry", "finish"} /\ d = [q EXCEPT !.at = "failed"]
          \/ p.at = "delete" /\ d = [q EXCEPT !.at = "open", !.mem = Detached(@)]
          \/ p.at \notin {"drop", "entry", "finish"} /\ d = [q EXCEPT !.at = "open"]
      BY <1>2, <1>4 DEF AfterFailure
    <2>2. /\ d.at \in {"failed", "open"}
          /\ p.at \in {"drop", "entry", "finish"} => d.mem = p.mem
      BY <1>2, <2>1 DEF Page
    <2> QED BY <2>2 DEF q
  <1> QED BY <1>3, <1>4

\* A rejected write keeps the invariant.
LEMMA RejectHeadStep ==
    ASSUME SureInvariant, NEW t \in Tabs, RejectHead(t)
    PROVE  SureInvariant'
  <1> DEFINE p == [page[t] EXCEPT !.queue = Tail(@)]
  <1>1. /\ page[t].queue # <<>> /\ Becomes(t, p)
        /\ UNCHANGED <<browser, channel, storage, engine, exported>>
    BY DEF RejectHead
  <1>2. /\ page[t] \in Page /\ page[t].at \notin Outside /\ page[t].queue \in Seq(Write)
        /\ PageIsConsistent(page[t]) /\ PageIsCovered(t, page[t])
    BY <1>1, EditorFacts
  <1>3. Tail(page[t].queue) \in Seq(Write) BY <1>1, <1>2, TailFacts
  <1>4. p \in Page /\ p.at = page[t].at /\ p.mem = page[t].mem /\ p.queue = Tail(page[t].queue)
    BY <1>2, <1>3 DEF Page
  <1> HIDE DEF p
  <1>5. PageIsConsistent(p) BY <1>1, <1>2, <1>4, TailFits
  <1>6. Live(p) \subseteq Live(page[t]) BY <1>1, <1>2, <1>4, LiveTail
  <1>7. PageIsCovered(t, p) BY <1>2, <1>4, <1>6 DEF PageIsCovered
  <1> QED BY <1>1, <1>2, <1>4, <1>5, <1>7, LocalStep

\* A write that is tried again behind the others keeps the page consistent.
LEMMA RetryFits ==
    ASSUME NEW p \in Page, PageIsConsistent(p), p.queue # <<>>, ~Head(p.queue).stale,
           Head(p.queue).what # "snapshot", p.at \in Retried,
           NEW d, d = [[p EXCEPT !.queue = Tail(@)] EXCEPT !.queue = Append(@, Head(p.queue))]
    PROVE  /\ d \in Page /\ PageIsConsistent(d) /\ d.at = p.at /\ d.mem = p.mem
           /\ Live(d) \subseteq Live(p)
  <1> DEFINE h == Head(p.queue)
             q == [p EXCEPT !.queue = Tail(@)]
  <1>1. p.queue \in Seq(Write) /\ h \in Write /\ Tail(p.queue) \in Seq(Write)
    BY PageFacts, TailFacts
  <1>2. /\ q \in Page /\ q.at = p.at /\ q.mem = p.mem /\ q.queue = Tail(p.queue)
        /\ Plain(q.queue) /\ Live(q) \subseteq Live(p)
        /\ p.at \in Awaiting /\ h.what = Awaited(p.at)
    BY TakenFacts
  <1> HIDE DEF q
  <1>3. h \in Live(p) BY <1>1, LiveFacts
  <1>4. d = [q EXCEPT !.queue = Append(@, h)] BY DEF q
  <1> HIDE DEF h
  <1>5. d \in Page /\ d.at = p.at /\ d.mem = p.mem /\ d.queue = Append(q.queue, h)
    <2>1. Append(q.queue, h) \in Seq(Write) BY <1>1, <1>2
    <2> QED BY <1>2, <1>4, <2>1 DEF Page
  <1>6. Live(d) \subseteq Live(q) \cup {h}
    <2>1. q.queue \in Seq(Write) /\ h \in Write BY <1>1, <1>2
    <2>2. d.queue = Append(q.queue, h) BY <1>5
    <2> QED BY ONLY <2>1, <2>2, LiveAppend
  <1>7. MemoryFits(d)
    <2>1. p.mem # None BY DEF PageIsConsistent, MemoryFits
    <2> QED BY <1>5, <2>1 DEF PageIsConsistent, MemoryFits
  <1>8. WriteFits(d, h) /\ \A v \in Live(q) : WriteFits(d, v)
    BY <1>2, <1>3, <1>5 DEF PageIsConsistent, WriteFits
  <1>9. d.at # "done" /\ d.at # "barrier" BY <1>5 DEF Retried
  <1>10. q.queue \in Seq(Write) BY <1>1, <1>2
  <1>11. PageIsConsistent(d)
    BY <1>1, <1>2, <1>5, <1>7, <1>8, <1>9, <1>10, AwaitFits
  <1> QED BY <1>2, <1>3, <1>5, <1>6, <1>11

\* A write that has failed keeps the invariant.
LEMMA HeadFailsStep ==
    ASSUME SureInvariant, NEW t \in Tabs, HeadFails(t)
    PROVE  SureInvariant'
  <1> DEFINE h == Head(page[t].queue)
             p == [page[t] EXCEPT !.queue = Tail(@)]
  <1>1. /\ page[t].queue # <<>> /\ ~h.stale
        /\ \/ h.what = "snapshot" /\ Becomes(t, p)
           \/ h.what # "snapshot" /\ \E running \in BOOLEAN : Becomes(t, AfterFailure(p, running))
           \/ /\ h.what # "snapshot" /\ page[t].at \in Retried
              /\ Becomes(t, [p EXCEPT !.queue = Append(@, h)])
        /\ UNCHANGED <<browser, channel, storage, engine, exported>>
    BY DEF HeadFails
  <1>2. /\ page[t] \in Page /\ page[t].at \notin Outside /\ page[t].queue \in Seq(Write)
        /\ PageIsConsistent(page[t]) /\ PageIsCovered(t, page[t]) /\ page[t].mem # None
    BY <1>1, EditorFacts
  <1>3. CASE h.what = "snapshot" /\ Becomes(t, p)
    <2>1. Tail(page[t].queue) \in Seq(Write) BY <1>1, <1>2, TailFacts
    <2>2. p \in Page /\ p.at = page[t].at /\ p.mem = page[t].mem /\ p.queue = Tail(page[t].queue)
      BY <1>2, <2>1 DEF Page
    <2>3. Becomes(t, p) BY <1>3
    <2> HIDE DEF p
    <2>4. PageIsConsistent(p) BY <1>1, <1>2, <2>2, TailFits
    <2>5. Live(p) \subseteq Live(page[t]) BY <1>1, <1>2, <2>2, LiveTail
    <2>6. PageIsCovered(t, p) BY <1>2, <2>2, <2>5 DEF PageIsCovered
    <2> QED BY <1>1, <1>2, <2>2, <2>3, <2>4, <2>6, LocalStep
  <1>4. ASSUME h.what # "snapshot", NEW running \in BOOLEAN, Becomes(t, AfterFailure(p, running))
        PROVE  SureInvariant'
    <2> DEFINE d == AfterFailure(p, running)
    <2>1. Outcome(page[t], d) BY <1>1, <1>2, <1>4, AfterFailureOutcome
    <2>2. page[t].at \in Awaiting BY <1>1, <1>2, <1>4, BehindAwaited
    <2>3. /\ d.at \in {"failed", "open", "delete"}
          /\ d.at = "delete" => page[t].at = "mark"
          /\ page[t].at \in {"drop", "entry", "finish"} => d.mem = page[t].mem
      BY <1>1, <1>2, <2>2, AfterFailurePlace
    <2>4. Becomes(t, d) BY <1>4
    <2> HIDE DEF d
    <2>5. PageIsCovered(t, d)
      <3>1. d.mem # None BY <2>1, NoneAssumption DEF Outcome
      <3>2. page[t].at # "done" /\ page[t].at # "off" BY <2>2 DEF Awaiting
      <3>3. session[t] # 0 /\ checkpoint # None /\ checkpoint.owner = session[t] /\ disk # None
        BY <1>2, <3>2 DEF PageIsCovered
      <3>4. checkpoint.project.marker = "vod-purged" => d.mem.marker = "vod-purged"
        <4>1. checkpoint.project.marker = "vod-purged" => page[t].mem.marker = "vod-purged"
          BY <1>2, <3>2 DEF PageIsCovered
        <4>2. page[t].mem.marker = "vod-purged" => page[t].at = "finish"
          BY <1>2, <2>2 DEF PageIsConsistent, MemoryFits, Awaiting
        <4> QED BY <2>3, <4>1, <4>2
      <3>5. d.at = "delete" => Clean(disk) = d.mem /\ d.mem.version = exported /\ ~material
        <4>1. page[t].at = "mark" => /\ Clean(disk) = page[t].mem /\ ~material
                                     /\ page[t].mem.version = exported
          BY <1>2 DEF PageIsCovered, Sealed
        <4>2. d.at = "delete" => d.mem = page[t].mem BY <2>1 DEF Outcome, Sealed
        <4> QED BY <2>3, <4>1, <4>2
      <3>6. MarkIsTrue(d.mem)
        BY <1>2, <2>1 DEF Outcome, PageIsCovered, MarkIsTrue
      <3>7. \A v \in Live(d) : MarkIsTrue(v.record)
        BY <1>2, <2>1 DEF Outcome, PageIsCovered, MarkIsTrue
      <3> QED BY <2>3, <3>1, <3>3, <3>4, <3>5, <3>6, <3>7 DEF PageIsCovered, Sealed
    <2> QED BY <1>1, <1>2, <2>1, <2>4, <2>5, LocalStep DEF Outcome
  <1>5. CASE /\ h.what # "snapshot" /\ page[t].at \in Retried
             /\ Becomes(t, [p EXCEPT !.queue = Append(@, h)])
    <2> DEFINE d == [p EXCEPT !.queue = Append(@, h)]
    <2>1. /\ d \in Page /\ PageIsConsistent(d) /\ d.at = page[t].at /\ d.mem = page[t].mem
          /\ Live(d) \subseteq Live(page[t])
      BY <1>1, <1>2, <1>5, RetryFits
    <2>2. Becomes(t, d) BY <1>5
    <2> HIDE DEF d
    <2>3. PageIsCovered(t, d) BY <1>2, <2>1 DEF PageIsCovered
    <2> QED BY <1>1, <1>2, <2>1, <2>2, <2>3, LocalStep
  <1> QED BY <1>1, <1>3, <1>4, <1>5

\* What is known of a live write that is the head of a queue.
LEMMA HeadFacts ==
    ASSUME SureInvariant, NEW t \in Tabs, page[t].queue # <<>>, ~Head(page[t].queue).stale
    PROVE  LET h == Head(page[t].queue) IN
           /\ h \in Live(page[t]) /\ h.record \in Record /\ h.record # None
           /\ h.what \in {"snapshot", "step", "draft", "delete"}
           /\ MarkIsTrue(h.record) /\ WriteFits(page[t], h)
           /\ h.what # "snapshot" => page[t].at \in Awaiting /\ h.what = Awaited(page[t].at)
           /\ page[t].at = "barrier" /\ h.what # "snapshot" => Clean(h.record) = page[t].mem
  <1> DEFINE h == Head(page[t].queue)
  <1>1. /\ page[t] \in Page /\ page[t].queue \in Seq(Write) /\ page[t].mem # None
        /\ PageIsConsistent(page[t]) /\ PageIsCovered(t, page[t])
    BY EditorFacts
  <1>2. h \in Write /\ h = page[t].queue[1] /\ 1 \in DOMAIN page[t].queue BY <1>1, TailFacts
  <1>3. h \in Live(page[t]) BY <1>1, LiveFacts
  <1>4. h.record \in Record /\ h.what \in {"snapshot", "step", "draft", "delete"}
    BY <1>2 DEF Write
  <1>5. MarkIsTrue(h.record) BY <1>1, <1>3 DEF PageIsCovered
  <1>6. WriteFits(page[t], h) BY <1>1, <1>3 DEF PageIsConsistent
  <1>7. h.what # "snapshot" => page[t].at \in Awaiting /\ h.what = Awaited(page[t].at)
    BY <1>1, BehindAwaited
  <1>8. page[t].at = "barrier" /\ h.what # "snapshot" => Clean(h.record) = page[t].mem
    BY <1>1, <1>2 DEF PageIsConsistent, BarrierHolds
  <1> QED BY <1>3, <1>4, <1>5, <1>6, <1>7, <1>8, NoneAssumption

\* What a committed write leaves in the storage.
LEMMA CommitFacts ==
    ASSUME SureInvariant, NEW t \in Tabs, page[t].queue # <<>>, ~Head(page[t].queue).stale,
           Commits(Head(page[t].queue)), MarkerStays, UNCHANGED <<material, exported>>
    PROVE  LET h == Head(page[t].queue) IN
           /\ h.what = "delete" \/ h.record.marker = "vod-purged" => again' = again
           /\ disk' \in Record \cup {None} /\ checkpoint' \in Row \cup {None}
           /\ (disk # None => MarkIsTrue(disk))' /\ CheckpointIsTrue'
           /\ h.what = "delete" => /\ page[t].at \in {"finish", "delete"}
                                   /\ disk' = None /\ checkpoint' = None
           /\ h.what = "snapshot" => checkpoint' = checkpoint
           /\ h.what # "delete" => disk' = h.record /\ disk' # None
           /\ h.what # "delete" /\ page[t].at # "done" =>
                /\ checkpoint' # None /\ checkpoint'.owner = checkpoint.owner
                /\ checkpoint'.project.marker = "vod-purged" => page[t].mem.marker = "vod-purged"
  <1> DEFINE h == Head(page[t].queue)
             at == page[t].at
  <1>1. /\ h.record \in Record /\ h.record # None
        /\ h.what \in {"snapshot", "step", "draft", "delete"}
        /\ MarkIsTrue(h.record) /\ WriteFits(page[t], h)
        /\ h.what # "snapshot" => at \in Awaiting /\ h.what = Awaited(at)
    BY HeadFacts
  <1>2. /\ PageIsConsistent(page[t]) /\ PageIsCovered(t, page[t]) /\ page[t].mem # None
        /\ at # "done" => disk \in Record /\ disk # None /\ checkpoint \in Row /\ checkpoint # None
        /\ at = "done" => checkpoint = None
        /\ disk \in Record \cup {None} /\ checkpoint \in Row \cup {None}
    BY EditorFacts, NoneAssumption DEF PageIsCovered, SureInvariant, TypeOK
  <1>3. at # "done" => (checkpoint.project.marker = "vod-purged" => page[t].mem.marker = "vod-purged")
    BY <1>2 DEF PageIsCovered
  <1>4. \A v : MarkIsTrue(v) /\ again' = again => (v.marker = "vod-purged" =>
                v.version = exported' /\ (v.bound => ~material' \/ again'))
    BY DEF MarkIsTrue
  <1>5. Commits(h) BY DEF h
  <1>9. again' = (again /\ (disk' # None => disk'.marker = "vod-purged")) /\ again \in BOOLEAN
    BY DEF MarkerStays, SureInvariant, TypeOK
  <1>6. CASE h.what = "delete"
    <2>1. disk' = None /\ checkpoint' = None BY <1>5, <1>6 DEF Commits, DeletesSession
    <2>2. at \in {"finish", "delete"} BY <1>1, <1>6 DEF Awaited, Awaiting
    <2>3. again' = again BY <1>9, <2>1
    <2> QED BY <1>6, <2>1, <2>2, <2>3 DEF CheckpointIsTrue
  <1>7. CASE h.what \in {"snapshot", "step"}
    <2> HIDE DEF h
    <2>1. disk' = h.record /\ checkpoint' = checkpoint BY <1>5, <1>7 DEF Commits
    <2>4. h.record.marker = "vod-purged" => again' = again BY <1>9, <2>1
    <2>2. (disk # None => MarkIsTrue(disk))' BY <1>1, <1>4, <2>1, <2>4 DEF MarkIsTrue
    <2>3. CheckpointIsTrue'
      <3>1. CASE at = "done" BY <1>2, <2>1, <3>1 DEF CheckpointIsTrue
      <3>2. CASE at # "done"
        <4>1. checkpoint.project # None /\ MarkIsTrue(checkpoint.project)
          BY <1>2, <3>2 DEF SureInvariant, CheckpointIsTrue
        <4>2. checkpoint.project.marker = "vod-purged" => h.record.marker = "vod-purged"
          <5>1. page[t].mem.marker = "vod-purged" => at \in {"finish", "failed"}
            BY <1>2, <3>2 DEF PageIsConsistent, MemoryFits
          <5>2. at \in {"finish", "failed"} => h.what = "snapshot"
            BY <1>1, <1>7 DEF Awaited, Awaiting
          <5> QED BY <1>1, <1>3, <3>2, <5>1, <5>2 DEF WriteFits
        <4> QED BY <1>1, <1>4, <2>1, <2>4, <4>1, <4>2 DEF CheckpointIsTrue, MarkIsTrue
      <3> QED BY <3>1, <3>2
    <2> QED BY <1>1, <1>2, <1>3, <1>7, <2>1, <2>2, <2>3, <2>4 DEF h
  <1>8. CASE h.what = "draft"
    <2> HIDE DEF h
    <2>2. at = "draft" BY <1>1, <1>8 DEF Awaited, Awaiting
    <2>1. disk' = h.record /\ checkpoint' = [checkpoint EXCEPT !.project = h.record]
      BY <1>2, <1>5, <1>8, <2>2 DEF Commits
    <2>3. /\ checkpoint' \in Row /\ checkpoint' # None /\ checkpoint'.project = h.record
          /\ checkpoint'.owner = checkpoint.owner
      BY <1>1, <1>2, <2>1, <2>2, NoneAssumption DEF Row
    <2>7. h.record.marker = "vod-purged" => again' = again BY <1>9, <2>1
    <2>4. (disk # None => MarkIsTrue(disk))' BY <1>1, <1>4, <2>1, <2>7 DEF MarkIsTrue
    <2>5. CheckpointIsTrue'
      BY <1>1, <1>4, <2>1, <2>3, <2>7 DEF CheckpointIsTrue, MarkIsTrue
    <2>6. h.record.marker = "vod-purged" => page[t].mem.marker = "vod-purged"
      BY <1>1, <2>2 DEF WriteFits
    <2> QED BY <1>1, <1>8, <2>1, <2>2, <2>3, <2>4, <2>5, <2>6, <2>7 DEF h
  <1> QED BY <1>1, <1>6, <1>7, <1>8

\* A committed write keeps the invariant.
LEMMA CommitHeadStep ==
    ASSUME SureInvariant, NEW t \in Tabs, CommitHead(t)
    PROVE  SureInvariant'
  <1> DEFINE h == Head(page[t].queue)
             p == [page[t] EXCEPT !.queue = Tail(@)]
             at == page[t].at
  <1>1. /\ page[t].queue # <<>> /\ ~h.stale /\ Commits(h) /\ MarkerStays
        /\ IF h.what = "snapshot" THEN Becomes(t, p)
           ELSE \E running \in BOOLEAN : Becomes(t, AfterWrite(p, running))
        /\ UNCHANGED <<webLocks, lock, sessions, channel, material, late, exported>>
    BY DEF CommitHead
  <1>2. /\ page[t] \in Page /\ at \notin Outside /\ page[t].queue \in Seq(Write)
        /\ PageIsConsistent(page[t]) /\ PageIsCovered(t, page[t]) /\ page[t].mem # None
        /\ page \in [Tabs -> Page]
    BY <1>1, EditorFacts
  <1>3. /\ h.record \in Record /\ h.what \in {"snapshot", "step", "draft", "delete"}
        /\ WriteFits(page[t], h)
        /\ h.what # "snapshot" => at \in Awaiting /\ h.what = Awaited(at)
        /\ at = "barrier" /\ h.what # "snapshot" => Clean(h.record) = page[t].mem
    BY <1>1, HeadFacts
  <1>4. /\ disk' \in Record \cup {None} /\ checkpoint' \in Row \cup {None}
        /\ (disk # None => MarkIsTrue(disk))' /\ CheckpointIsTrue'
        /\ h.what = "delete" \/ h.record.marker = "vod-purged" => again' = again
        /\ h.what = "delete" => /\ at \in {"finish", "delete"}
                                /\ disk' = None /\ checkpoint' = None
        /\ h.what = "snapshot" => checkpoint' = checkpoint
        /\ h.what # "delete" => disk' = h.record /\ disk' # None
        /\ h.what # "delete" /\ at # "done" =>
             /\ checkpoint' # None /\ checkpoint'.owner = checkpoint.owner
             /\ checkpoint'.project.marker = "vod-purged" => page[t].mem.marker = "vod-purged"
    BY <1>1, CommitFacts
  <1>5. /\ session' \in [Tabs -> 0..SessionLimit]
        /\ \A u \in Tabs \ {t} : session'[u] = session[u]
        /\ page'[t].at # "done" => session' = session
    <2>1. session \in [Tabs -> 0..SessionLimit] BY DEF SureInvariant, TypeOK
    <2>2. session' = session \/ (page'[t].at = "done" /\ session' = [session EXCEPT ![t] = 0])
      BY DEF CommitHead
    <2> QED BY <2>1, <2>2, LimitAssumption
  <1>6. again' \in BOOLEAN /\ exported' = exported /\ material' = material
    BY <1>1 DEF MarkerStays, SureInvariant, TypeOK
  <1>9. page[t].mem.marker = "vod-purged" => again' = again
    <2>1. h.what = "snapshot" => (page[t].mem.marker = "vod-purged" => h.record.marker = "vod-purged")
      BY <1>3 DEF WriteFits
    <2>2. h.what \notin {"snapshot", "delete"} => page[t].mem.marker # "vod-purged"
      BY <1>2, <1>3 DEF PageIsConsistent, MemoryFits, Awaiting, Awaited
    <2> QED BY <1>4, <2>1, <2>2
  <1>10. \A v \in Live(page[t]) :
            v.record.marker = "vod-purged" => again' = again \/ ~material'
    BY <1>2, <1>6, <1>9 DEF PageIsConsistent, WriteFits, PageIsCovered
  <1>11. /\ MarkIsTrue(page[t].mem)
         /\ \A v \in Live(page[t]) : MarkIsTrue(v.record)
    BY <1>2 DEF PageIsCovered
  <1>12. /\ page[t].mem.marker = "vod-purged" => page[t].mem.version = exported'
                /\ (page[t].mem.bound => ~material' \/ again')
         /\ \A v \in Live(page[t]) : v.record.marker = "vod-purged" =>
                v.record.version = exported' /\ (v.record.bound => ~material' \/ again')
    BY <1>6, <1>9, <1>10, <1>11 DEF MarkIsTrue
  <1>7. CASE h.what = "snapshot"
    <2>1. Tail(page[t].queue) \in Seq(Write) BY <1>1, <1>2, TailFacts
    <2>2. p \in Page /\ p.at = at /\ p.mem = page[t].mem /\ p.queue = Tail(page[t].queue)
      BY <1>2, <2>1 DEF Page
    <2>3. Becomes(t, p) BY <1>1, <1>7
    <2> HIDE DEF p
    <2>4. PageIsConsistent(p) BY <1>1, <1>2, <2>2, TailFits
    <2>5. Live(p) \subseteq Live(page[t]) BY <1>1, <1>2, <2>2, LiveTail
    <2>6. page'[t] = p BY <1>2, <2>3 DEF Becomes
    <2>7. PageIsCovered(t, page[t])'
      <3>1. MarkIsTrue(page[t].mem)' /\ \A v \in Live(p) : MarkIsTrue(v.record)'
        BY <1>12, <2>2, <2>5, <2>6 DEF MarkIsTrue
      <3>2. at = "finish" => disk'.marker = "vod-purged"
        BY <1>2, <1>3, <1>4, <1>7 DEF PageIsConsistent, MemoryFits, WriteFits
      <3>3. at \in {"flush", "render", "recount"} => disk'.marker # "vod-purged"
        BY <1>2, <1>3, <1>4, <1>7 DEF PageIsConsistent, MemoryFits, WriteFits
      <3>4. at \in Sealed => Clean(disk)' = page[t].mem
        BY <1>3, <1>4, <1>7 DEF WriteFits, Clean
      <3>5. at # "done" => session'[t] = session[t] BY <1>5, <2>2, <2>6
      <3> QED BY <1>2, <1>4, <1>6, <1>7, <2>2, <2>6, <3>1, <3>2, <3>3, <3>4, <3>5
          DEF PageIsCovered, Live, Clean, Outside
    <2> QED BY <1>1, <1>2, <1>4, <1>5, <1>6, <2>2, <2>3, <2>4, <2>7, EditorStep
        DEF SureInvariant, TypeOK, channel
  <1>8. ASSUME h.what # "snapshot", NEW running \in BOOLEAN, Becomes(t, AfterWrite(p, running))
        PROVE  SureInvariant'
    <2> DEFINE d == AfterWrite(p, running)
    <2>1. Outcome(page[t], d) BY <1>1, <1>2, <1>8, AfterWriteOutcome
    <2>2. at \in Awaiting BY <1>3, <1>8
    <2>3. d.at = "done" <=> at \in {"finish", "delete"} BY <1>1, <1>2, <2>2, AfterWritePlace
    <2>4. at = "mark" => d.at = "delete" BY <1>1, <1>2, <2>2, AfterWritePlace
    <2>5. Becomes(t, d) BY <1>8
    <2> HIDE DEF d
    <2>6. page'[t] = d BY <1>2, <2>5 DEF Becomes
    <2>7. d.mem # None BY <2>1, NoneAssumption DEF Outcome
    <2>8. PageIsCovered(t, page[t])'
      <3>1. MarkIsTrue(page[t].mem)' /\ \A v \in Live(d) : MarkIsTrue(v.record)'
        BY <1>12, <2>1, <2>6 DEF Outcome, MarkIsTrue
      <3>2. h.what = "delete" <=> at \in {"finish", "delete"}
        BY <1>3, <1>4, <1>8 DEF Awaited
      <3>3. CASE h.what = "delete"
        BY <1>4, <2>3, <2>6, <3>1, <3>2, <3>3 DEF PageIsCovered, Live, Sealed
      <3>4. CASE h.what # "delete"
        <4>1. d.at # "done" /\ at # "done" /\ at # "off" BY <2>2, <2>3, <3>2, <3>4 DEF Awaiting
        <4>2. session' = session /\ session[t] # 0 /\ checkpoint.owner = session[t]
          BY <1>2, <1>5, <2>6, <4>1 DEF PageIsCovered
        <4>3. page[t].mem.marker # "vod-purged"
          BY <1>2, <2>2, <3>2, <3>4 DEF PageIsConsistent, MemoryFits, Awaiting
        <4>4. d.at \in {"flush", "render", "recount"} => disk'.marker # "vod-purged"
          BY <1>3, <1>4, <2>4, <3>4, <4>3 DEF WriteFits
        <4>5. d.at \in Sealed => Clean(disk)' = d.mem /\ d.mem.version = exported
          <5>1. ASSUME d.at \in Sealed PROVE Clean(h.record) = d.mem /\ d.mem.version = exported
            <6>1. d.mem = page[t].mem /\ at \in Sealed \cup {"barrier"}
              BY <2>1, <5>1 DEF Outcome
            <6>2. page[t].mem.version = exported BY <1>2, <6>1 DEF PageIsCovered
            <6>3. Clean(h.record) = page[t].mem BY <1>3, <1>8, <6>1 DEF WriteFits
            <6> QED BY <6>1, <6>2, <6>3
          <5> QED BY <1>4, <3>4, <5>1 DEF Clean
        <4>6. d.at = "delete" /\ d.mem.bound => ~material'
          BY <1>2, <1>6, <2>1 DEF Outcome, PageIsCovered
        <4>7. d.at \notin {"load", "finish", "mark", "barrier", "off"}
          BY <2>1 DEF Outcome, Outside
        <4> QED BY <1>4, <1>6, <2>6, <2>7, <3>1, <3>4, <4>1, <4>2, <4>3, <4>4, <4>5, <4>6, <4>7
            DEF PageIsCovered, Live, Clean
      <3> QED BY <3>3, <3>4
    <2>9. d \in Page /\ PageIsConsistent(d) /\ d.at \notin Outside BY <2>1 DEF Outcome
    <2> QED BY <1>1, <1>2, <1>4, <1>5, <1>6, <2>5, <2>8, <2>9, EditorStep
        DEF SureInvariant, TypeOK, channel
  <1> QED BY <1>1, <1>7, <1>8

-----------------------------------------------------------------------------
(* The rest of the browser *)

\* The steps of the tabs outside: the storage, the engine and the editor stay.
LEMMA OutsideStep ==
    ASSUME SureInvariant, NEW t \in Tabs, page[t].mem = None, page[t].queue = <<>>,
           NEW p \in Page, p.mem = None, p.queue = <<>>, Becomes(t, p),
           p.at \in Outside \cup {"begin"},
           UNCHANGED <<storage, material, again, exported>>, late' \in BOOLEAN,
           webLocks' = webLocks, lock' \in Tabs \cup {None},
           published' \subseteq Tabs, asked' \subseteq Tabs \X Tabs,
           heard' \in [Tabs -> SUBSET Tabs], session' \in [Tabs -> 0..SessionLimit],
           sessions' \in 0..SessionLimit, missed' \in BOOLEAN,
           \A u \in Tabs \ {t} : session'[u] = session[u],
           p.at # "off" => session'[t] # 0,
           AdmissionIsExclusive'
    PROVE  SureInvariant'
  <1>1. page \in [Tabs -> Page] /\ TypeOK BY DEF SureInvariant, TypeOK
  <1>2. page'[t] = p /\ \A u \in Tabs \ {t} : page'[u] = page[u] BY <1>1 DEF Becomes
  <1>3. TypeOK'
    <2>1. page' \in [Tabs -> Page] BY <1>1 DEF Becomes
    <2> QED BY <1>1, <2>1 DEF TypeOK, storage
  <1>4. (disk # None => MarkIsTrue(disk))' /\ CheckpointIsTrue'
    BY DEF SureInvariant, CheckpointIsTrue, MarkIsTrue, storage
  <1>5. ASSUME NEW u \in Tabs PROVE PageIsConsistent(page'[u]) /\ PageIsCovered(u, page[u])'
    <2>1. CASE u = t
      <3>1. PageIsConsistent(p) BY EmptyIsConsistent
      <3>2. PageIsCovered(t, page[t])' BY <1>2 DEF PageIsCovered, Outside, Sealed
      <3> QED BY <1>2, <2>1, <3>1, <3>2
    <2>2. CASE u # t
      <3>1. /\ page'[u] = page[u] /\ session'[u] = session[u]
            /\ PageIsConsistent(page[u]) /\ PageIsCovered(u, page[u])
        BY <1>2, <2>2 DEF SureInvariant
      <3>2. PageIsCovered(u, page[u])'
        BY <3>1 DEF PageIsCovered, MarkIsTrue, Live, storage
      <3> QED BY <3>1, <3>2
    <2> QED BY <2>1, <2>2
  <1>6. (\A u \in Tabs : PageIsConsistent(page[u]) /\ PageIsCovered(u, page[u]))'
    BY <1>5 DEF PageIsConsistent, MemoryFits, AwaitsOne, WriteFits, BarrierHolds, Live
  <1> QED BY <1>3, <1>4, <1>6 DEF SureInvariant

\* A tab outside has nothing.
LEMMA OutsideFacts ==
    ASSUME SureInvariant, NEW t \in Tabs, page[t].at \in Outside
    PROVE  /\ page[t] \in Page /\ page \in [Tabs -> Page]
           /\ page[t].mem = None /\ page[t].queue = <<>>
           /\ page[t].at # "off" => session[t] # 0
  <1>1. page \in [Tabs -> Page] /\ page[t] \in Page BY DEF SureInvariant, TypeOK
  <1>2. page[t].mem = None /\ page[t].queue = <<>>
    BY DEF SureInvariant, PageIsConsistent, MemoryFits
  <1>3. page[t].at # "off" => session[t] # 0
    BY DEF SureInvariant, PageIsCovered, Outside
  <1> QED BY <1>1, <1>2, <1>3

\* A navigation keeps the invariant.
LEMMA NavigateStep ==
    ASSUME SureInvariant, NEW t \in Tabs, Navigate(t)
    PROVE  SureInvariant'
  <1>1. /\ page[t].at = "off" /\ page[t] \in Page /\ page \in [Tabs -> Page]
        /\ page[t].mem = None /\ page[t].queue = <<>>
        /\ UNCHANGED <<webLocks, asked, heard, missed, storage, engine, exported>>
    BY OutsideFacts DEF Navigate, Outside
  <1>2. /\ session' \in [Tabs -> 0..SessionLimit] /\ sessions' \in 0..SessionLimit
        /\ \A u \in Tabs \ {t} : session'[u] = session[u]
        /\ session'[t] # 0
    <2>1. session \in [Tabs -> 0..SessionLimit] /\ sessions \in 0..SessionLimit
      BY DEF SureInvariant, TypeOK
    <2>2. CASE sessions < SessionLimit /\ sessions' = sessions + 1
               /\ session' = [session EXCEPT ![t] = sessions + 1]
      BY <2>1, <2>2, LimitAssumption
    <2>3. CASE HasSession(t) /\ UNCHANGED <<session, sessions>>
      BY <2>1, <2>3 DEF HasSession
    <2>4. ASSUME NEW u \in Tabs \ {t}, HasSession(u),
                 session' = [session EXCEPT ![t] = session[u]], UNCHANGED sessions
          PROVE  <1>2
      BY <2>1, <2>4 DEF HasSession
    <2> QED BY <2>2, <2>3, <2>4 DEF Navigate
  <1>3. PICK place \in {"begin", "refused", "publishing"} :
            /\ Goto(t, place)
            /\ webLocks => /\ place = IF lock = None THEN "begin" ELSE "refused"
                           /\ lock' = IF lock = None THEN t ELSE lock
                           /\ published' = published
            /\ ~webLocks => /\ place = "publishing" /\ lock' = lock
                            /\ published' = published \cup {t}
    BY DEF Navigate
  <1> DEFINE p == [page[t] EXCEPT !.at = place]
  <1>4. p \in Page /\ p.at = place /\ p.mem = None /\ p.queue = <<>>
    <2>1. place \in Places BY DEF Places, Starting
    <2> QED BY <1>1, <2>1 DEF Page
  <1>5. Becomes(t, p) BY <1>3 DEF Goto
  <1> HIDE DEF p
  <1>6. page'[t] = p /\ \A u \in Tabs \ {t} : page'[u] = page[u]
    BY <1>1, <1>5 DEF Becomes
  <1>7. AdmissionIsExclusive'
    <2>1. AdmissionIsExclusive BY DEF SureInvariant
    <2>2. CASE webLocks
      BY <1>1, <1>3, <1>4, <1>6, <2>1, <2>2, NoneAssumption DEF AdmissionIsExclusive
    <2>3. CASE ~webLocks
      <3>1. ASSUME NEW u \in Tabs, NEW v \in Tabs, WillHear(u, v) PROVE WillHear(u, v)'
        <4>1. u # t BY <1>1, <3>1 DEF WillHear
        <4> QED BY <1>1, <1>6, <3>1, <4>1 DEF WillHear
      <3> QED BY <1>1, <1>3, <1>4, <1>6, <2>1, <2>3, <3>1 DEF AdmissionIsExclusive
    <2> QED BY <2>2, <2>3
  <1>8. lock' \in Tabs \cup {None} /\ published' \subseteq Tabs
    BY <1>3 DEF SureInvariant, TypeOK
  <1>9. p.at \in Outside \cup {"begin"} BY <1>4 DEF Outside
  <1> QED BY <1>1, <1>2, <1>4, <1>5, <1>7, <1>8, <1>9, OutsideStep
      DEF SureInvariant, TypeOK, engine

\* The ping of an admission keeps the invariant.
LEMMA CountStep ==
    ASSUME SureInvariant, NEW t \in Tabs, CountAfterDelay(t)
    PROVE  SureInvariant'
  <1> DEFINE p == [page[t] EXCEPT !.at = "counting"]
  <1>1. /\ page[t].at = "publishing" /\ Becomes(t, p)
        /\ asked' = asked \cup {<<t, u>> : u \in {v \in Tabs \ {t} : page[v].at # "off"}}
        /\ heard' = [heard EXCEPT ![t] = {}]
        /\ UNCHANGED <<browser, published, missed, storage, engine, exported>>
    BY DEF CountAfterDelay, Ping, Goto
  <1>2. /\ page[t] \in Page /\ page \in [Tabs -> Page]
        /\ page[t].mem = None /\ page[t].queue = <<>> /\ session[t] # 0
    BY <1>1, OutsideFacts DEF Outside
  <1>3. p \in Page /\ p.at = "counting" /\ p.mem = None /\ p.queue = <<>>
    <2>1. "counting" \in Places BY DEF Places, Starting
    <2> QED BY <1>2, <2>1 DEF Page
  <1> HIDE DEF p
  <1>4. page'[t] = p /\ \A u \in Tabs \ {t} : page'[u] = page[u]
    BY <1>1, <1>2 DEF Becomes
  <1>5. AdmissionIsExclusive /\ ~webLocks
    BY <1>1 DEF SureInvariant, AdmissionIsExclusive
  <1>6. heard \in [Tabs -> SUBSET Tabs] /\ asked \subseteq Tabs \X Tabs
    BY DEF SureInvariant, TypeOK
  <1>7. AdmissionIsExclusive'
    <2>1. webLocks' = webLocks BY <1>1 DEF browser
    <2>2. \A u \in Tabs : page'[u].at \notin {"off", "refused"} => u \in published'
      BY <1>1, <1>3, <1>4, <1>5 DEF AdmissionIsExclusive
    <2>3. ASSUME NEW u \in Tabs, NEW v \in Tabs, WillHear(u, v) PROVE WillHear(u, v)'
      <3>1. u # t BY <1>1, <2>3 DEF WillHear
      <3> QED BY <1>1, <1>4, <1>6, <2>3, <3>1 DEF WillHear
    <2>4. ASSUME NEW v \in Tabs \ {t}, page[v].at # "off" PROVE WillHear(t, v)'
      BY <1>1, <1>3, <1>4, <2>4 DEF WillHear
    <2>5. ASSUME NEW u \in Tabs, NEW v \in Tabs, u # v,
                 page'[u].at \notin {"off", "refused", "publishing"},
                 page'[v].at \notin {"off", "refused", "publishing"}
          PROVE  WillHear(u, v)' \/ WillHear(v, u)'
      <3>1. CASE u = t BY <1>4, <2>4, <2>5, <3>1
      <3>2. CASE v = t BY <1>4, <2>4, <2>5, <3>2
      <3>3. CASE u # t /\ v # t
        BY <1>4, <1>5, <2>3, <2>5, <3>3 DEF AdmissionIsExclusive
      <3> QED BY <3>1, <3>2, <3>3
    <2> QED BY <1>5, <2>1, <2>2, <2>5 DEF AdmissionIsExclusive
  <1>8. /\ asked' \subseteq Tabs \X Tabs /\ heard' \in [Tabs -> SUBSET Tabs]
        /\ p.at \in Outside \cup {"begin"}
    BY <1>1, <1>3, <1>6 DEF Outside
  <1> QED BY <1>1, <1>2, <1>3, <1>7, <1>8, OutsideStep
      DEF SureInvariant, TypeOK, browser, engine

\* An answer keeps the invariant.
LEMMA AnswerStep ==
    ASSUME SureInvariant, NEW t \in Tabs, NEW u \in Tabs, Answer(t, u)
    PROVE  SureInvariant'
  <1>1. /\ asked' = asked \ {<<t, u>>}
        /\ heard' = [heard EXCEPT ![t] = IF u \in published THEN @ \cup {u} ELSE @]
        /\ UNCHANGED <<browser, published, missed, storage, engine, page, exported>>
    BY DEF Answer
  <1>2. TypeOK /\ AdmissionIsExclusive /\ heard \in [Tabs -> SUBSET Tabs]
    BY DEF SureInvariant, TypeOK
  <1>3. TypeOK' BY <1>1, <1>2 DEF TypeOK, browser, storage, engine
  <1>4. AdmissionIsExclusive'
    <2>1. ASSUME NEW v \in Tabs, NEW x \in Tabs, WillHear(v, x), x \in published
          PROVE  WillHear(v, x)'
      <3>1. x \in heard[v] => x \in heard'[v] BY <1>1, <1>2
      <3>2. CASE <<v, x>> = <<t, u>> BY <1>1, <1>2, <2>1, <3>2 DEF WillHear
      <3>3. CASE <<v, x>> # <<t, u>> BY <1>1, <2>1, <3>1, <3>3 DEF WillHear
      <3> QED BY <3>2, <3>3
    <2>2. page' = page /\ published' = published /\ webLocks' = webLocks /\ lock' = lock
      BY <1>1 DEF browser
    <2> QED BY <1>2, <2>1, <2>2 DEF AdmissionIsExclusive
  <1>5. (disk # None => MarkIsTrue(disk))' /\ CheckpointIsTrue'
    BY <1>1 DEF SureInvariant, CheckpointIsTrue, MarkIsTrue, storage, engine
  <1>6. ASSUME NEW v \in Tabs PROVE (PageIsConsistent(page[v]) /\ PageIsCovered(v, page[v]))'
    <2>1. PageIsConsistent(page[v]) /\ PageIsCovered(v, page[v]) BY DEF SureInvariant
    <2>2. PageIsCovered(v, page[v])'
      BY <1>1, <2>1 DEF PageIsCovered, MarkIsTrue, Live, browser, storage, engine
    <2> QED BY <1>1, <2>1, <2>2
        DEF PageIsConsistent, MemoryFits, AwaitsOne, WriteFits, BarrierHolds, Live
  <1> QED BY <1>3, <1>4, <1>5, <1>6 DEF SureInvariant

\* The end of an admission keeps the invariant.
LEMMA AdmitStep ==
    ASSUME SureInvariant, NEW t \in Tabs, Admit(t), ~missed'
    PROVE  SureInvariant'
  <1>1. /\ page[t].at = "counting" /\ CountEnds(t)
        /\ UNCHANGED <<browser, heard, storage, engine, exported>>
    BY DEF Admit
  <1>2. /\ page[t] \in Page /\ page \in [Tabs -> Page]
        /\ page[t].mem = None /\ page[t].queue = <<>> /\ session[t] # 0
    BY <1>1, OutsideFacts DEF Outside
  <1>3. PICK place \in {"begin", "refused"} :
            /\ Goto(t, place)
            /\ place = "begin" => heard[t] = {} /\ published' = published /\ ~Unheard(t)
            /\ place = "refused" => published' = published \ {t}
    BY DEF Admit
  <1> DEFINE p == [page[t] EXCEPT !.at = place]
  <1>4. p \in Page /\ p.at = place /\ p.mem = None /\ p.queue = <<>>
    <2>1. place \in Places BY DEF Places, Starting
    <2> QED BY <1>2, <2>1 DEF Page
  <1>5. Becomes(t, p) BY <1>3 DEF Goto
  <1> HIDE DEF p
  <1>6. page'[t] = p /\ \A u \in Tabs \ {t} : page'[u] = page[u]
    BY <1>2, <1>5 DEF Becomes
  <1>7. AdmissionIsExclusive /\ ~webLocks
    BY <1>1 DEF SureInvariant, AdmissionIsExclusive
  <1>8. AdmissionIsExclusive'
    <2>1. webLocks' = webLocks BY <1>1 DEF browser
    <2>2. \A u \in Tabs : page'[u].at \notin {"off", "refused"} => u \in published'
      BY <1>1, <1>3, <1>4, <1>6, <1>7 DEF AdmissionIsExclusive
    <2>3. ASSUME NEW u \in Tabs \ {t}, NEW v \in Tabs, WillHear(u, v) PROVE WillHear(u, v)'
      <3>1. <<u, v>> \in asked => <<u, v>> \in asked' BY <1>1 DEF CountEnds
      <3> QED BY <1>1, <1>6, <2>3, <3>1 DEF WillHear
    <2>4. ASSUME NEW v \in Tabs, WillHear(t, v), v \in published PROVE place # "begin"
      BY <1>3, <2>4 DEF WillHear, Unheard
    <2>5. ASSUME NEW u \in Tabs, NEW v \in Tabs, u # v,
                 page'[u].at \notin {"off", "refused", "publishing"},
                 page'[v].at \notin {"off", "refused", "publishing"}
          PROVE  WillHear(u, v)' \/ WillHear(v, u)'
      <3>1. page[u].at \notin {"off", "refused", "publishing"}
            /\ page[v].at \notin {"off", "refused", "publishing"}
        BY <1>1, <1>6, <2>5
      <3>2. WillHear(u, v) \/ WillHear(v, u) BY <1>7, <2>5, <3>1 DEF AdmissionIsExclusive
      <3>3. u = t \/ v = t => place = "begin" BY <1>3, <1>4, <1>6, <2>5
      <3>4. u \in published /\ v \in published BY <1>7, <3>1 DEF AdmissionIsExclusive
      <3> QED BY <2>3, <2>4, <3>2, <3>3, <3>4
    <2> QED BY <1>7, <2>1, <2>2, <2>5 DEF AdmissionIsExclusive
  <1>9. p.at \in Outside \cup {"begin"} BY <1>4 DEF Outside
  <1>10. published' \subseteq Tabs /\ asked' \subseteq Tabs \X Tabs /\ missed' \in BOOLEAN
    BY <1>1, <1>3 DEF Admit, CountEnds, SureInvariant, TypeOK
  <1> QED BY <1>1, <1>2, <1>4, <1>5, <1>8, <1>9, <1>10, OutsideStep
      DEF SureInvariant, TypeOK, browser, engine

\* A tab that is gone keeps the invariant, whatever it was doing.
LEMMA VanishStep ==
    ASSUME SureInvariant, NEW t \in Tabs, Vanish(t)
    PROVE  SureInvariant'
  <1>1. /\ Becomes(t, Off)
        /\ lock' = IF lock = t THEN None ELSE lock
        /\ published' = published \ {t}
        /\ asked' = {a \in asked : t \notin {a[1], a[2]}}
        /\ heard' = [heard EXCEPT ![t] = {}]
        /\ late' = (late \/ page[t].at = "purge")
        /\ UNCHANGED <<webLocks, missed, session, sessions, storage, material, again, exported>>
    BY DEF Vanish
  <1>2. page \in [Tabs -> Page] /\ TypeOK /\ AdmissionIsExclusive /\ heard \in [Tabs -> SUBSET Tabs]
    BY DEF SureInvariant, TypeOK
  <1>3. Off \in Page /\ Off.at = "off" /\ Off.mem = None /\ Off.queue = <<>>
    BY DEF Off, Page, Places
  <1>4. page'[t] = Off /\ \A u \in Tabs \ {t} : page'[u] = page[u]
    BY <1>1, <1>2 DEF Becomes
  <1>5. TypeOK'
    <2>1. page' \in [Tabs -> Page] BY <1>1, <1>2, <1>3 DEF Becomes
    <2>2. late' \in BOOLEAN /\ heard' \in [Tabs -> SUBSET Tabs] BY <1>1, <1>2 DEF TypeOK
    <2> QED BY <1>1, <1>2, <2>1, <2>2 DEF TypeOK, storage
  <1>6. AdmissionIsExclusive'
    <2>1. webLocks' => \A u \in Tabs : page'[u].at \notin {"off", "refused"} =>
              lock' = u /\ page'[u].at \notin {"publishing", "counting"}
      BY <1>1, <1>2, <1>3, <1>4 DEF AdmissionIsExclusive
    <2>2. ~webLocks' => \A u \in Tabs : page'[u].at \notin {"off", "refused"} => u \in published'
      BY <1>1, <1>2, <1>3, <1>4 DEF AdmissionIsExclusive
    <2>3. ASSUME NEW u \in Tabs \ {t}, NEW v \in Tabs \ {t}, WillHear(u, v) PROVE WillHear(u, v)'
      <3>1. <<u, v>> \in asked => <<u, v>> \in asked' BY <1>1
      <3>2. heard'[u] = heard[u] BY <1>1, <1>2
      <3> QED BY <1>4, <2>3, <3>1, <3>2 DEF WillHear
    <2>4. ~webLocks' => \A u, v \in Tabs :
            /\ u # v
            /\ page'[u].at \notin {"off", "refused", "publishing"}
            /\ page'[v].at \notin {"off", "refused", "publishing"}
            => WillHear(u, v)' \/ WillHear(v, u)'
      BY <1>1, <1>2, <1>3, <1>4, <2>3 DEF AdmissionIsExclusive
    <2> QED BY <2>1, <2>2, <2>4 DEF AdmissionIsExclusive
  <1>7. (disk # None => MarkIsTrue(disk))' /\ CheckpointIsTrue'
    BY <1>1 DEF SureInvariant, CheckpointIsTrue, MarkIsTrue, storage
  <1>8. ASSUME NEW u \in Tabs PROVE PageIsConsistent(page'[u]) /\ PageIsCovered(u, page[u])'
    <2>1. CASE u = t
      <3>1. PageIsConsistent(Off) BY <1>3, EmptyIsConsistent DEF Outside
      <3>2. PageIsCovered(t, page[t])' BY <1>3, <1>4 DEF PageIsCovered, Sealed
      <3> QED BY <1>4, <2>1, <3>1, <3>2
    <2>2. CASE u # t
      <3>1. page'[u] = page[u] /\ PageIsConsistent(page[u]) /\ PageIsCovered(u, page[u])
        BY <1>4, <2>2 DEF SureInvariant
      <3>2. PageIsCovered(u, page[u])'
        BY <1>1, <3>1 DEF PageIsCovered, MarkIsTrue, Live, storage
      <3> QED BY <3>1, <3>2
    <2> QED BY <2>1, <2>2
  <1>9. (\A u \in Tabs : PageIsConsistent(page[u]) /\ PageIsCovered(u, page[u]))'
    BY <1>8 DEF PageIsConsistent, MemoryFits, AwaitsOne, WriteFits, BarrierHolds, Live
  <1> QED BY <1>5, <1>6, <1>7, <1>9 DEF SureInvariant

\* A purge that the engine runs late keeps the invariant.
LEMMA LatePurgeStep ==
    ASSUME SureInvariant, LatePurge
    PROVE  SureInvariant'
  <1>1. late' = FALSE /\ material' \in {material, FALSE}
        /\ UNCHANGED <<browser, channel, storage, again, page, exported>>
    BY DEF LatePurge
  <1>2. TypeOK' BY <1>1 DEF SureInvariant, TypeOK, browser, channel, storage
  <1>3. AdmissionIsExclusive'
    BY <1>1 DEF SureInvariant, AdmissionIsExclusive, WillHear, browser, channel
  <1>4. ~material => ~material' BY <1>1 DEF SureInvariant, TypeOK
  <1>5. (disk # None => MarkIsTrue(disk))' /\ CheckpointIsTrue'
    BY <1>1, <1>4 DEF SureInvariant, CheckpointIsTrue, MarkIsTrue, storage
  <1>6. ASSUME NEW v \in Tabs PROVE (PageIsConsistent(page[v]) /\ PageIsCovered(v, page[v]))'
    <2>1. PageIsConsistent(page[v]) /\ PageIsCovered(v, page[v]) BY DEF SureInvariant
    <2>2. PageIsCovered(v, page[v])'
      BY <1>1, <1>4, <2>1 DEF PageIsCovered, MarkIsTrue, Live, browser, storage
    <2> QED BY <1>1, <2>1, <2>2
        DEF PageIsConsistent, MemoryFits, AwaitsOne, WriteFits, BarrierHolds, Live
  <1> QED BY <1>2, <1>3, <1>5, <1>6 DEF SureInvariant

\* A rollback keeps the invariant: no tab edits while nobody holds the lock.
LEMMA RollBackStep ==
    ASSUME SureInvariant, RollBack
    PROVE  SureInvariant'
  <1>1. /\ webLocks /\ lock = None /\ checkpoint # None
        /\ disk' = checkpoint.project /\ checkpoint' = None /\ MarkerStays
        /\ UNCHANGED <<browser, channel, material, late, page, exported>>
    BY DEF RollBack
  <1>2. checkpoint.project \in Record \cup {None}
    BY <1>1 DEF SureInvariant, TypeOK, Row
  <1>3. TypeOK' BY <1>1, <1>2 DEF SureInvariant, TypeOK, MarkerStays, browser, channel
  <1>4. AdmissionIsExclusive'
    BY <1>1 DEF SureInvariant, AdmissionIsExclusive, WillHear, browser, channel
  <1>5. (disk # None => MarkIsTrue(disk))' /\ CheckpointIsTrue'
    BY <1>1 DEF SureInvariant, CheckpointIsTrue, MarkIsTrue, MarkerStays
  <1>6. ASSUME NEW v \in Tabs PROVE (PageIsConsistent(page[v]) /\ PageIsCovered(v, page[v]))'
    <2>1. PageIsConsistent(page[v]) BY DEF SureInvariant
    <2>2. page[v].at \in Outside
      BY <1>1, NoneAssumption DEF SureInvariant, AdmissionIsExclusive, Outside
    <2>3. page[v].mem = None /\ (page[v].at # "off" => session[v] # 0)
      BY <2>2, OutsideFacts
    <2>4. PageIsCovered(v, page[v])'
      BY <1>1, <2>2, <2>3 DEF PageIsCovered, Outside, Sealed, browser
    <2> QED BY <1>1, <2>1, <2>4
        DEF PageIsConsistent, MemoryFits, AwaitsOne, WriteFits, BarrierHolds, Live
  <1> QED BY <1>3, <1>4, <1>5, <1>6 DEF SureInvariant

-----------------------------------------------------------------------------
(* Theorems *)

\* Before anything has happened nobody edits and nothing is marked.
LEMMA InitIsInvariant ==
    ASSUME Init
    PROVE  SureInvariant
  <1>1. Off \in Page /\ Off.at = "off" /\ Off.mem = None /\ Off.queue = <<>>
    BY DEF Off, Page, Places
  <1>2. disk \in Record /\ disk.marker = "none" /\ checkpoint = None /\ again \in BOOLEAN
    <2>1. disk = [version |-> 0, bound |-> material, marker |-> "none"] /\ material \in BOOLEAN
      BY DEF Init
    <2>2. 0 \in Versions BY LimitAssumption DEF Versions
    <2>3. disk \in Record /\ disk.marker = "none" BY <2>1, <2>2 DEF Record, Markers
    <2> QED BY <2>3 DEF Init
  <1>3. page = [t \in Tabs |-> Off] BY DEF Init
  <1>4. TypeOK
    <2>1. page \in [Tabs -> Page] BY <1>1, <1>3
    <2>2. heard \in [Tabs -> SUBSET Tabs] /\ session \in [Tabs -> 0..SessionLimit]
          /\ sessions \in 0..SessionLimit
      BY LimitAssumption DEF Init
    <2> QED BY <1>2, <2>1, <2>2 DEF Init, TypeOK
  <1>5. AdmissionIsExclusive BY <1>1, <1>3 DEF AdmissionIsExclusive
  <1>6. (disk # None => MarkIsTrue(disk)) /\ CheckpointIsTrue
    BY <1>2 DEF MarkIsTrue, CheckpointIsTrue
  <1>7. ASSUME NEW t \in Tabs PROVE PageIsConsistent(page[t]) /\ PageIsCovered(t, page[t])
    <2>1. page[t] = Off BY <1>3
    <2>2. PageIsConsistent(Off) BY <1>1, EmptyIsConsistent DEF Outside
    <2>3. PageIsCovered(t, Off) BY <1>1, OutsideIsCovered DEF Outside
    <2> QED BY <2>1, <2>2, <2>3
  <1> QED BY <1>4, <1>5, <1>6, <1>7 DEF SureInvariant

\* Every step keeps the invariant.
LEMMA NextKeepsInvariant ==
    ASSUME SureInvariant, [Next]_vars, ~missed'
    PROVE  SureInvariant'
  <1>1. ASSUME NEW t \in Tabs, Navigate(t) PROVE SureInvariant' BY <1>1, NavigateStep
  <1>2. ASSUME NEW t \in Tabs, CountAfterDelay(t) PROVE SureInvariant' BY <1>2, CountStep
  <1>3. ASSUME NEW t \in Tabs, Admit(t) PROVE SureInvariant' BY <1>3, AdmitStep
  <1>4. ASSUME NEW t \in Tabs, Begin(t) PROVE SureInvariant' BY <1>4, BeginStep
  <1>5. ASSUME NEW t \in Tabs, Load(t) PROVE SureInvariant' BY <1>5, LoadStep
  <1>6. ASSUME NEW t \in Tabs, Edit(t) PROVE SureInvariant' BY <1>6, EditStep
  <1>7. ASSUME NEW t \in Tabs, Flush(t) PROVE SureInvariant' BY <1>7, FlushStep
  <1>8. ASSUME NEW t \in Tabs, Prepare(t) PROVE SureInvariant' BY <1>8, PrepareStep
  <1>9. ASSUME NEW t \in Tabs, BindMaterial(t) PROVE SureInvariant'
    BY <1>9, BindMaterialStep
  <1>10. ASSUME NEW t \in Tabs, AttachFails(t) PROVE SureInvariant'
    BY <1>10, BackToOpen DEF AttachFails, channel
  <1>11. ASSUME NEW t \in Tabs, Export(t) PROVE SureInvariant' BY <1>11, ExportStep
  <1>12. ASSUME NEW t \in Tabs, KeepSession(t) PROVE SureInvariant'
    BY <1>12, BackToOpen DEF KeepSession, channel
  <1>13. ASSUME NEW t \in Tabs, AskCleanup(t) PROVE SureInvariant' BY <1>13, AskCleanupStep
  <1>14. ASSUME NEW t \in Tabs, StartCleanup(t) PROVE SureInvariant'
    BY <1>14, StartCleanupStep
  <1>15. ASSUME NEW t \in Tabs, Purged(t) PROVE SureInvariant' BY <1>15, PurgedStep
  <1>16. ASSUME NEW t \in Tabs, PurgeFails(t) PROVE SureInvariant' BY <1>16, PurgeFailsStep
  <1>17. ASSUME NEW t \in Tabs, CommitHead(t) PROVE SureInvariant' BY <1>17, CommitHeadStep
  <1>18. ASSUME NEW t \in Tabs, HeadFails(t) PROVE SureInvariant' BY <1>18, HeadFailsStep
  <1>19. ASSUME NEW t \in Tabs, RejectHead(t) PROVE SureInvariant' BY <1>19, RejectHeadStep
  <1>20. ASSUME NEW t \in Tabs, Vanish(t) PROVE SureInvariant' BY <1>20, VanishStep
  <1>21. ASSUME NEW t \in Tabs, NEW u \in Tabs, Answer(t, u) PROVE SureInvariant'
    BY <1>21, AnswerStep
  <1>22. CASE LatePurge BY <1>22, LatePurgeStep
  <1>23. CASE RollBack BY <1>23, RollBackStep
  <1>24. CASE UNCHANGED vars
    <2>1. UNCHANGED <<browser, channel, storage, engine, page, exported>> BY <1>24 DEF vars
    <2>2. TypeOK' BY <2>1 DEF SureInvariant, TypeOK, browser, channel, storage, engine
    <2>3. AdmissionIsExclusive'
      BY <2>1 DEF SureInvariant, AdmissionIsExclusive, WillHear, browser, channel
    <2>4. (disk # None => MarkIsTrue(disk))' /\ CheckpointIsTrue'
      BY <2>1 DEF SureInvariant, CheckpointIsTrue, MarkIsTrue, storage, engine
    <2>5. ASSUME NEW v \in Tabs PROVE (PageIsConsistent(page[v]) /\ PageIsCovered(v, page[v]))'
      <3>1. PageIsConsistent(page[v]) /\ PageIsCovered(v, page[v]) BY DEF SureInvariant
      <3>2. PageIsCovered(v, page[v])'
        BY <2>1, <3>1 DEF PageIsCovered, MarkIsTrue, Live, browser, storage, engine
      <3> QED BY <2>1, <3>1, <3>2
          DEF PageIsConsistent, MemoryFits, AwaitsOne, WriteFits, BarrierHolds, Live
    <2> QED BY <2>2, <2>3, <2>4, <2>5 DEF SureInvariant
  <1>25. ASSUME NEW t \in Tabs, AttachFile(t) PROVE SureInvariant' BY <1>25, AttachFileStep
  <1> QED BY <1>1, <1>2, <1>3, <1>4, <1>5, <1>6, <1>7, <1>8, <1>9, <1>10, <1>11, <1>12,
             <1>13, <1>14, <1>15, <1>16, <1>17, <1>18, <1>19, <1>20, <1>21, <1>22, <1>23,
             <1>24, <1>25 DEF Next

\* Only an admission by a count can miss a tab, and nothing makes good for it.
LEMMA WhoMisses ==
    ASSUME [Next]_vars
    PROVE  webLocks' = webLocks /\ (missed' = missed \/ \E t \in Tabs : Admit(t))
  BY DEF Next, vars, browser, channel, Navigate, Ping, CountAfterDelay, Answer, Admit, Begin,
         Load, Edit, Flush, Prepare, BindMaterial, AttachFails, AttachFile, Export,
         KeepSession, AskCleanup, StartCleanup, Purged, PurgeFails, CommitHead, HeadFails,
         RejectHead, Vanish, LatePurge, RollBack

\* A miss is never forgotten, and with Web Locks there is none.
LEMMA NextKeepsCleanupInvariant ==
    ASSUME CleanupInvariant, [Next]_vars
    PROVE  CleanupInvariant'
  <1>1. CASE missed /\ ~webLocks
    <2>1. ASSUME NEW t \in Tabs, Admit(t) PROVE missed'
      <3>1. missed' = (missed \/ Unheard(t)) \/ missed' = missed BY <2>1, Zenon DEF Admit
      <3> QED BY <1>1, <3>1, Zenon
    <2>2. webLocks' = webLocks /\ (missed' = missed \/ \E t \in Tabs : Admit(t))
      BY WhoMisses
    <2>3. missed' BY <1>1, <2>1, <2>2, Zenon
    <2>4. ~webLocks' BY <1>1, <2>2, Zenon
    <2> QED BY <2>3, <2>4, Zenon DEF CleanupInvariant
  <1>2. CASE ~missed
    <2>1. SureInvariant BY <1>2 DEF CleanupInvariant
    <2>2. ~missed' => SureInvariant' BY <2>1, NextKeepsInvariant
    <2>3. webLocks' => ~missed'
      <3>1. \A t \in Tabs : Admit(t) => ~webLocks
        BY <2>1 DEF Admit, SureInvariant, AdmissionIsExclusive
      <3> QED BY <1>2, <3>1, WhoMisses
    <2> QED BY <2>2, <2>3 DEF CleanupInvariant
  <1> QED BY <1>1, <1>2 DEF CleanupInvariant

\* What the cleanup rests on holds while admission is sure: it is exclusive, a
\* marker on disk, in memory or in a live write is true, and a page past the
\* barrier has the exported state and nothing else.
THEOREM CleanupInvariantHolds == Spec => []CleanupInvariant
  <1>1. Init => CleanupInvariant BY InitIsInvariant DEF CleanupInvariant, Init
  <1>2. CleanupInvariant /\ [Next]_vars => CleanupInvariant' BY NextKeepsCleanupInvariant
  <1> QED BY <1>1, <1>2, PTL DEF Spec

\* While admission is sure, two tabs never edit the project at once, with Web
\* Locks or by counting, even if one is the duplicate of the other.
THEOREM OneEditorAtATime == Spec => []OneEditor
  <1>1. ASSUME CleanupInvariant PROVE OneEditor
    <2> SUFFICES ASSUME AdmissionIsSure PROVE Cardinality(Admitted) <= 1 BY DEF OneEditor
    <2>5. SureInvariant BY <1>1 DEF CleanupInvariant, AdmissionIsSure
    <2>1. \A t, u \in Admitted : t = u
      BY <2>5, EditorIsOne DEF SureInvariant, Admitted, Outside
    <2>2. Admitted = {} \/ \E t : Admitted = {t} BY <2>1
    <2>3. Admitted = {} => Cardinality(Admitted) = 0 BY FS_EmptySet
    <2>4. \A t : Cardinality({t}) = 1 BY FS_Singleton
    <2> QED BY <2>2, <2>3, <2>4
  <1> QED BY <1>1, CleanupInvariantHolds, PTL

\* Only a write and a rollback touch the record.
LEMMA WhoWrites ==
    ASSUME [Next]_vars, disk' # disk
    PROVE  RollBack \/ \E t \in Tabs : CommitHead(t)
  BY DEF Next, vars, storage, Navigate, Ping, CountAfterDelay, Answer, Admit, Begin, Load,
         Edit, Flush, Prepare, BindMaterial, AttachFails, AttachFile, Export,
         KeepSession, AskCleanup, StartCleanup, Purged, PurgeFails, HeadFails, RejectHead,
         Vanish, LatePurge

\* What a deletion finds: the exported version on disk and in the page that
\* deletes, and no material.
LEMMA DeletionFacts ==
    ASSUME SureInvariant, [Next]_vars, disk # None, disk' = None
    PROVE  /\ disk.version = exported /\ (disk.bound => ~material \/ again)
           /\ \A t \in Admitted : page[t].mem # None => page[t].mem.version = exported
  <1>1. ~RollBack BY DEF RollBack, SureInvariant, CheckpointIsTrue
  <1>2. PICK t \in Tabs : CommitHead(t) BY <1>1, WhoWrites
  <1> DEFINE at == page[t].at
  <1>3. /\ page[t].queue # <<>> /\ ~Head(page[t].queue).stale
        /\ Commits(Head(page[t].queue)) /\ MarkerStays /\ UNCHANGED <<material, exported>>
    BY <1>2 DEF CommitHead
  <1>4. at \in {"finish", "delete"} BY <1>3, CommitFacts
  <1>5. /\ page[t] \in Page /\ at \notin Outside /\ page[t].mem \in Record
        /\ page[t].mem # None /\ PageIsConsistent(page[t]) /\ PageIsCovered(t, page[t])
        /\ disk \in Record
    BY <1>3, <1>4, EditorFacts
  <1>6. page[t].mem.version = exported
    BY <1>4, <1>5 DEF PageIsConsistent, MemoryFits, PageIsCovered, MarkIsTrue, Sealed
  <1>7. disk.version = exported /\ (disk.bound => ~material \/ again)
    <2>1. CASE at = "finish"
      BY <1>5, <2>1 DEF PageIsCovered, SureInvariant, MarkIsTrue
    <2>2. CASE at = "delete"
      <3>1. Clean(disk) = page[t].mem /\ (page[t].mem.bound => ~material)
        BY <1>5, <2>2 DEF PageIsCovered, Sealed
      <3>2. Clean(disk).version = disk.version /\ Clean(disk).bound = disk.bound
        BY <1>5, RecordFacts
      <3> QED BY <1>6, <3>1, <3>2
    <2> QED BY <1>4, <2>1, <2>2
  <1>8. \A u \in Admitted : u = t
    BY <1>5, EditorIsOne DEF SureInvariant, Admitted, Outside
  <1> QED BY <1>6, <1>7, <1>8

\* While admission is sure, whenever a session is deleted, by an export or by a
\* startup after a crash, the verified export holds the last version, on disk
\* and on every screen.
THEOREM DeletedWorkIsExported == Spec => OnlyExportedWorkIsDeleted
  <1>1. ASSUME CleanupInvariant, [Next]_vars
        PROVE  [disk # None /\ disk' = None /\ AdmissionIsSure =>
                  /\ disk.version = exported
                  /\ \A t \in Admitted : page[t].mem # None => page[t].mem.version = exported]_vars
    BY <1>1, DeletionFacts DEF CleanupInvariant, AdmissionIsSure
  <1> QED BY <1>1, CleanupInvariantHolds, PTL DEF Spec, OnlyExportedWorkIsDeleted

\* While admission is sure, the records of a session that names its material are
\* deleted only when the engine has dropped it, or has made it again over the
\* marker on disk.
THEOREM BoundMaterialGoesFirst == Spec => BoundMaterialIsPurged
  <1>1. ASSUME CleanupInvariant, [Next]_vars
        PROVE  [disk # None /\ disk' = None /\ disk.bound /\ AdmissionIsSure
                  => ~material \/ again]_vars
    BY <1>1, DeletionFacts DEF CleanupInvariant, AdmissionIsSure
  <1> QED BY <1>1, CleanupInvariantHolds, PTL DEF Spec, BoundMaterialIsPurged

\* While admission is sure, a deleted session does not come back, except under
\* a mark that the next startup deletes it for.
THEOREM DeletionIsForGood == Spec => DeletedForGood
  <1>1. ASSUME SureInvariant, [Next]_vars, disk = None, disk' # None
        PROVE  disk'.marker = "vod-purged"
    <2>1. ~RollBack BY <1>1 DEF RollBack, SureInvariant, CheckpointIsTrue
    <2>2. PICK t \in Tabs : CommitHead(t) BY <1>1, <2>1, WhoWrites
    <2> DEFINE h == Head(page[t].queue)
    <2>3. /\ page[t].queue # <<>> /\ ~h.stale /\ Commits(h) /\ MarkerStays
          /\ UNCHANGED <<material, exported>>
      BY <2>2 DEF CommitHead
    <2>4. h \in Live(page[t]) /\ WriteFits(page[t], h)
          /\ (h.what # "snapshot" => page[t].at \in Awaiting)
      BY <1>1, <2>3, HeadFacts
    <2>5. page[t].mem # None /\ PageIsConsistent(page[t]) /\ PageIsCovered(t, page[t])
      BY <1>1, <2>3, EditorFacts
    <2>6. page[t].at = "done" BY <1>1, <2>5 DEF PageIsCovered
    <2>7. page[t].mem.marker = "vod-purged" BY <2>4, <2>5, <2>6 DEF PageIsConsistent
    <2>8. h.what = "snapshot" BY <2>4, <2>6 DEF Awaiting
    <2>9. h.record.marker = "vod-purged" BY <2>4, <2>7, <2>8 DEF WriteFits
    <2>10. disk' = h.record
      <3>1. h.what # "delete" BY <2>8
      <3> QED BY <1>1, <2>3, <3>1, CommitFacts
    <2> QED BY <2>9, <2>10
  <1>2. ASSUME CleanupInvariant, [Next]_vars
        PROVE  [disk = None /\ disk' # None /\ AdmissionIsSure => disk'.marker = "vod-purged"]_vars
    BY <1>1, <1>2 DEF CleanupInvariant, AdmissionIsSure
  <1> QED BY <1>2, CleanupInvariantHolds, PTL DEF Spec, DeletedForGood
=============================================================================
