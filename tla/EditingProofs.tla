---------------------------- MODULE EditingProofs ----------------------------
(* Proofs about editing sessions: what the user last saved survives whatever *)
(* tabs, start pages, writes, exits and crashes do, for any number of tabs,  *)
(* projects, drafts and queued writes; restores can be undone; and where     *)
(* nothing is restored, the disk only advances and the status is true.       *)
EXTENDS EditingProperties, FiniteSetTheorems, TLAPS

-----------------------------------------------------------------------------
(* The write queue *)

LEMMA AppendFacts ==
    ASSUME NEW q \in Seq(Write), NEW w \in Write
    PROVE  /\ Append(q, w) \in Seq(Write)
           /\ DOMAIN Append(q, w) = 1..(Len(q) + 1)
           /\ \A i \in 1..Len(q) : Append(q, w)[i] = q[i]
           /\ Append(q, w)[Len(q) + 1] = w
           /\ Append(q, w) # <<>>
           /\ DOMAIN q = 1..Len(q) /\ Len(q) \in Nat
  OBVIOUS

LEMMA TailFacts ==
    ASSUME NEW q \in Seq(Write), q # <<>>
    PROVE  /\ Head(q) = q[1] /\ 1 \in DOMAIN q /\ Head(q) \in Write
           /\ Tail(q) \in Seq(Write)
           /\ \A i \in DOMAIN Tail(q) : /\ i \in Nat /\ i >= 1
                                        /\ i + 1 \in DOMAIN q /\ Tail(q)[i] = q[i + 1]
           /\ DOMAIN Tail(q) \subseteq Nat /\ DOMAIN q \subseteq Nat
  OBVIOUS

LEMMA MappedFacts ==
    ASSUME NEW q \in Seq(Write), NEW f \in [DOMAIN q -> Write]
    PROVE  f \in Seq(Write) /\ (q = <<>> => f = <<>>)
  OBVIOUS

\* Only plain snapshots are queued.
Plain(d) == \A i \in DOMAIN d.queue : d.queue[i].tag = "snapshot"

\* A kind of write belongs where a document is.
Belongs(tag, d) ==
    /\ tag = "entry" => d.at = "entering"
    /\ tag = "final" => d.exit = "flush"
    /\ tag = "seal" => d.exit = "seal"
    /\ tag \in {"manual", "auto", "barrier", "restore"}
         => d.at = "open" /\ d.exit = "no" /\ d.drafting

LEMMA NewWriteType ==
    ASSUME NEW tag \in Tags, NEW v \in Versions
    PROVE  /\ NewWrite(tag, v) \in Write
           /\ NewWrite(tag, v).tag = tag /\ NewWrite(tag, v).version = v
  BY DEF NewWrite, Write

LEMMA EnqueuedIsConsistent ==
    ASSUME NEW d \in Document, DocumentIsConsistent(d),
           NEW tag \in Tags, d.mem # None, d.exit # "discard",
           tag # "snapshot" => Plain(d) /\ Belongs(tag, d)
    PROVE  LET e == Enqueued(d, NewWrite(tag, d.mem)) IN
           /\ e \in Document /\ DocumentIsConsistent(e)
           /\ e.queue # <<>>
           /\ \A i \in DOMAIN e.queue :
                \/ e.queue[i].version = d.mem
                \/ i \in DOMAIN d.queue /\ e.queue[i] = d.queue[i]
<1> DEFINE w == NewWrite(tag, d.mem)
           e == Enqueued(d, w)
           n == Len(d.queue)
<1>1. d.queue \in Seq(Write) /\ d.mem \in Versions BY DEF Document
<1>2. w \in Write /\ w.tag = tag /\ w.version = d.mem BY <1>1, NewWriteType
<1> HIDE DEF w
<1>3. /\ e.queue = Append(d.queue, w) /\ e.at = d.at /\ e.mem = d.mem
      /\ e.exit = d.exit /\ e.final = d.final /\ e.completed = d.completed
      /\ e.drafting = d.drafting
  BY DEF Enqueued, Document
<1>4. /\ e.queue \in Seq(Write) /\ DOMAIN e.queue = 1..(n + 1)
      /\ \A i \in 1..n : e.queue[i] = d.queue[i]
      /\ e.queue[n + 1] = w /\ e.queue # <<>>
      /\ DOMAIN d.queue = 1..n /\ n \in Nat
  BY <1>1, <1>2, <1>3, AppendFacts
<1>5. e \in Document BY <1>3, <1>4 DEF Enqueued, Document
<1>6. \A i \in DOMAIN e.queue :
        \/ e.queue[i].version = d.mem
        \/ i \in DOMAIN d.queue /\ e.queue[i] = d.queue[i]
  BY <1>2, <1>4
<1> HIDE DEF e, n
<1>7. \A i \in DOMAIN e.queue :
        /\ Belongs(e.queue[i].tag, e)
        /\ e.exit \in {"idle", "seal", "close", "commit"} => e.queue[i].version = e.mem
  <2> SUFFICES ASSUME NEW i \in 1..(n + 1)
               PROVE  /\ Belongs(e.queue[i].tag, e)
                      /\ e.exit \in {"idle", "seal", "close", "commit"}
                            => e.queue[i].version = e.mem
    BY <1>4
  <2>1. CASE i = n + 1 BY <2>1, <1>2, <1>3, <1>4 DEF Belongs
  <2>2. CASE i \in 1..n
    BY <2>2, <1>3, <1>4 DEF Belongs, DocumentIsConsistent
  <2> QED BY <2>1, <2>2, <1>4
<1>8. \A i, j \in DOMAIN e.queue :
        /\ e.queue[i].tag # "snapshot" /\ e.queue[j].tag # "snapshot" => i = j
        /\ e.queue[i].tag = "final" /\ i <= j => e.queue[j].version = e.mem
  <2> SUFFICES ASSUME NEW i \in 1..(n + 1), NEW j \in 1..(n + 1)
      PROVE /\ e.queue[i].tag # "snapshot" /\ e.queue[j].tag # "snapshot" => i = j
            /\ e.queue[i].tag = "final" /\ i <= j => e.queue[j].version = e.mem
    BY <1>4
  <2>1. CASE i \in 1..n /\ j \in 1..n
    BY <2>1, <1>3, <1>4 DEF DocumentIsConsistent
  <2>2. CASE i = n + 1 /\ j \in 1..n BY <2>2, <1>2, <1>3, <1>4 DEF Plain
  <2>3. CASE i \in 1..n /\ j = n + 1 BY <2>3, <1>2, <1>3, <1>4 DEF Plain
  <2>4. CASE i = n + 1 /\ j = n + 1 BY <2>4, <1>2, <1>3, <1>4
  <2> QED BY <2>1, <2>2, <2>3, <2>4, <1>4
<1>9. DocumentIsConsistent(e)
  BY <1>3, <1>4, <1>7, <1>8 DEF DocumentIsConsistent, Belongs
<1> QED BY <1>4, <1>5, <1>6, <1>9 DEF e, w

LEMMA PoppedIsConsistent ==
    ASSUME NEW d \in Document, DocumentIsConsistent(d), d.queue # <<>>
    PROVE  LET e == Popped(d) IN
           /\ e \in Document /\ DocumentIsConsistent(e)
           /\ Head(d.queue) \in Write
           /\ 1 \in DOMAIN d.queue /\ Head(d.queue) = d.queue[1]
           /\ \A i \in DOMAIN e.queue :
                \E k \in DOMAIN d.queue : e.queue[i] = d.queue[k]
           /\ Head(d.queue).tag # "snapshot" => Plain(e)
           /\ Head(d.queue).tag = "final" =>
                /\ Head(d.queue).version = d.mem
                /\ \A i \in DOMAIN e.queue : e.queue[i].version = d.mem
<1> DEFINE e == Popped(d)
           q == d.queue
<1>1. q \in Seq(Write) BY DEF Document
<1>2. /\ e.queue = Tail(q) /\ e.at = d.at /\ e.mem = d.mem /\ e.exit = d.exit
      /\ e.final = d.final /\ e.completed = d.completed /\ e.drafting = d.drafting
  BY DEF Popped, Document
<1>3. /\ Head(q) = q[1] /\ 1 \in DOMAIN q /\ Head(q) \in Write
      /\ e.queue \in Seq(Write)
      /\ \A i \in DOMAIN e.queue : /\ i \in Nat /\ i >= 1
                                   /\ i + 1 \in DOMAIN q /\ e.queue[i] = q[i + 1]
      /\ DOMAIN e.queue \subseteq Nat
  BY <1>1, <1>2, TailFacts
<1>4. e \in Document BY <1>3, <1>2 DEF Popped, Document
<1>5. \A i \in DOMAIN q :
        /\ Belongs(q[i].tag, d)
        /\ d.exit \in {"idle", "seal", "close", "commit"} => q[i].version = d.mem
  BY DEF DocumentIsConsistent, Belongs
<1>6. \A i, j \in DOMAIN q :
        /\ q[i].tag # "snapshot" /\ q[j].tag # "snapshot" => i = j
        /\ q[i].tag = "final" /\ i <= j => q[j].version = d.mem
  BY DEF DocumentIsConsistent
<1>7. d.mem # None /\ d.exit # "discard" BY DEF DocumentIsConsistent
<1> HIDE DEF e, q
<1>8. \A i \in DOMAIN e.queue :
        /\ Belongs(e.queue[i].tag, e)
        /\ e.exit \in {"idle", "seal", "close", "commit"} => e.queue[i].version = e.mem
  BY <1>2, <1>3, <1>5 DEF Belongs
<1>9. \A i, j \in DOMAIN e.queue :
        /\ e.queue[i].tag # "snapshot" /\ e.queue[j].tag # "snapshot" => i = j
        /\ e.queue[i].tag = "final" /\ i <= j => e.queue[j].version = e.mem
  <2> SUFFICES ASSUME NEW i \in DOMAIN e.queue, NEW j \in DOMAIN e.queue
      PROVE /\ e.queue[i].tag # "snapshot" /\ e.queue[j].tag # "snapshot" => i = j
            /\ e.queue[i].tag = "final" /\ i <= j => e.queue[j].version = e.mem
    OBVIOUS
  <2>1. i \in Nat /\ j \in Nat /\ i + 1 \in DOMAIN q /\ j + 1 \in DOMAIN q
    BY <1>3
  <2> QED BY <2>1, <1>2, <1>3, <1>6
<1>10. DocumentIsConsistent(e)
  <2>1. DocumentIsConsistent(d) OBVIOUS
  <2> QED BY <2>1, <1>2, <1>7, <1>8, <1>9 DEF DocumentIsConsistent, Belongs
<1>11. Head(q).tag # "snapshot" => Plain(e)
  <2> SUFFICES ASSUME Head(q).tag # "snapshot", NEW i \in DOMAIN e.queue
               PROVE  e.queue[i].tag = "snapshot"
    BY DEF Plain
  <2>1. i \in Nat /\ i + 1 \in DOMAIN q /\ i + 1 # 1 BY <1>3
  <2> QED BY <2>1, <1>3, <1>6
<1>12. Head(q).tag = "final" =>
            /\ Head(q).version = d.mem
            /\ \A i \in DOMAIN e.queue : e.queue[i].version = d.mem
  <2> SUFFICES ASSUME Head(q).tag = "final"
               PROVE  /\ Head(q).version = d.mem
                      /\ \A i \in DOMAIN e.queue : e.queue[i].version = d.mem
    OBVIOUS
  <2>1. Head(q).version = d.mem BY <1>3, <1>6
  <2>2. ASSUME NEW i \in DOMAIN e.queue PROVE e.queue[i].version = d.mem
    <3>1. i \in Nat /\ i + 1 \in DOMAIN q /\ 1 <= i + 1 BY <1>3
    <3> QED BY <3>1, <1>3, <1>6
  <2> QED BY <2>1, <2>2
<1>13. \A i \in DOMAIN e.queue : \E k \in DOMAIN q : e.queue[i] = q[k] BY <1>3
<1> QED BY <1>3, <1>4, <1>10, <1>11, <1>12, <1>13 DEF e, q

LEMMA AdvancedIsConsistent ==
    ASSUME NEW d \in Document, DocumentIsConsistent(d)
    PROVE  LET e == GenerationAdvanced(d) IN
           /\ e \in Document /\ DocumentIsConsistent(e)
           /\ DOMAIN e.queue = DOMAIN d.queue
           /\ \A i \in DOMAIN e.queue : /\ e.queue[i].tag = d.queue[i].tag
                                        /\ e.queue[i].version = d.queue[i].version
<1> DEFINE e == GenerationAdvanced(d)
           q == d.queue
<1>1. q \in Seq(Write) BY DEF Document
<1>2. \A i \in DOMAIN q : q[i] \in Write BY <1>1
<1>3. /\ e.queue = [i \in DOMAIN q |-> IF i = 1 /\ d.running THEN q[i]
                                       ELSE [q[i] EXCEPT !.stale = TRUE]]
      /\ e.at = d.at /\ e.mem = d.mem /\ e.exit = d.exit /\ e.final = d.final
      /\ e.completed = d.completed /\ e.drafting = d.drafting
  BY DEF GenerationAdvanced, Document
<1>4. /\ DOMAIN e.queue = DOMAIN q
      /\ \A i \in DOMAIN q : /\ e.queue[i] \in Write
                             /\ e.queue[i].tag = q[i].tag
                             /\ e.queue[i].version = q[i].version
  <2> HIDE DEF e, q
  <2>1. DOMAIN e.queue = DOMAIN q BY <1>3
  <2> SUFFICES ASSUME NEW i \in DOMAIN q
               PROVE  /\ e.queue[i] \in Write
                      /\ e.queue[i].tag = q[i].tag
                      /\ e.queue[i].version = q[i].version
    BY <2>1
  <2>2. e.queue[i] = q[i] \/ e.queue[i] = [q[i] EXCEPT !.stale = TRUE] BY <1>3
  <2>3. q[i] \in Write BY <1>2
  <2> QED BY <2>2, <2>3 DEF Write
<1>5. e.queue \in [DOMAIN q -> Write] BY <1>3, <1>4
<1>6. e.queue \in Seq(Write) /\ (q = <<>> => e.queue = <<>>)
  BY <1>1, <1>5, MappedFacts
<1>7. e \in Document BY <1>6, <1>3 DEF GenerationAdvanced, Document
<1> HIDE DEF e, q
<1>8. DocumentIsConsistent(e)
  BY <1>3, <1>4, <1>6 DEF DocumentIsConsistent, q
<1> QED BY <1>4, <1>7, <1>8 DEF e, q

\* The same as relations between two documents.
IsEnqueued(d, e, tag) == e = Enqueued(d, NewWrite(tag, d.mem))

\* Nothing but the queue, and what the queue does not depend on, is different.
SameBut(d, e) ==
    /\ e.at = d.at /\ e.project = d.project /\ e.mem = d.mem /\ e.exit = d.exit
    /\ e.final = d.final /\ e.completed = d.completed /\ e.drafting = d.drafting

LEMMA EnqueuedDocument ==
    ASSUME NEW d \in Document, DocumentIsConsistent(d),
           NEW tag \in Tags, d.mem # None, d.exit # "discard",
           tag # "snapshot" => Plain(d) /\ Belongs(tag, d),
           NEW e, IsEnqueued(d, e, tag)
    PROVE  e \in Document /\ DocumentIsConsistent(e) /\ SameBut(d, e)
<1>1. e \in Document /\ DocumentIsConsistent(e)
  BY EnqueuedIsConsistent DEF IsEnqueued
<1>2. SameBut(d, e) BY DEF IsEnqueued, Enqueued, SameBut, Document
<1> QED BY <1>1, <1>2

-----------------------------------------------------------------------------
(* Documents *)

\* A document whose queue has plain snapshots only is consistent wherever it is.
LEMMA PlainIsConsistent ==
    ASSUME NEW d, Plain(d),
           d.at \in {"off", "start", "gate", "begin", "load"} => d.mem = None,
           d.at \in {"entering", "open", "left"} => d.mem # None,
           d.mem = None => d.queue = <<>>,
           d.at # "open" => d.exit = "no",
           d.at = "left" \/ d.exit \in {"commit", "drain", "discard"} => d.completed,
           d.exit \in {"idle", "seal", "close", "commit"} =>
                /\ d.final = d.mem
                /\ \A i \in DOMAIN d.queue : d.queue[i].version = d.mem,
           d.exit = "discard" => d.queue = <<>>
    PROVE  DocumentIsConsistent(d)
  BY DEF Plain, DocumentIsConsistent

LEMMA OffIsDocument == Off \in Document /\ DocumentIsConsistent(Off) /\ Plain(Off)
<1>1. <<>> \in Seq(Write) OBVIOUS
<1>2. Off \in Document BY <1>1 DEF Off, Document
<1>3. DOMAIN Off.queue = {} BY DEF Off
<1> QED BY <1>2, <1>3 DEF Off, Plain, DocumentIsConsistent

\* A step of a tab touches only projects whose lease is free or the tab's own.
Frame(P, t) ==
    /\ P \in SUBSET Projects /\ \A p \in P : lock[p] \in {t, None}
    /\ \A p \in Projects \ P : /\ checkpoint'[p] = checkpoint[p]
                               /\ explicit'[p] = explicit[p]
                               /\ stored'[p] = stored[p]
                               /\ drafts'[p] = drafts[p]
                               /\ lock'[p] = lock[p]
    /\ \A s \in Tabs \ {t} : session'[s] = session[s]

SharedTypes ==
    /\ stored \in [Projects -> Versions \cup {None}]
    /\ drafts \in [Projects -> SUBSET Draft]
    /\ checkpoint \in [Projects -> Checkpoint \cup {None}]
    /\ explicit \in [Projects -> Versions \cup {None}]
    /\ lock \in [Projects -> Tabs \cup {None}]
    /\ session \in [Tabs -> Session \cup {None}]

\* Documents of other tabs are covered by leases this step does not touch.
LEMMA Assemble ==
    ASSUME EditingInvariant, NEW t \in Tabs, NEW d \in Document, NEW P,
           Frame(P, t), SharedTypes', \A p \in P : SavedWorkIsKept(p)',
           doc' = [doc EXCEPT ![t] = d], DocumentIsConsistent(d),
           tick' \in Versions, sessions' \in 0..SessionLimit,
           DocumentIsCovered(t)'
    PROVE  EditingInvariant'
<1> USE DEF Frame
<1>1. doc \in [Tabs -> Document] BY DEF EditingInvariant, TypeOK
<1>2. \A s \in Tabs : DocumentIsConsistent(doc'[s])
  BY <1>1 DEF EditingInvariant
<1>3. ASSUME NEW s \in Tabs \ {t} PROVE DocumentIsCovered(s)'
  <2>1. doc'[s] = doc[s] /\ session'[s] = session[s] BY <1>1
  <2>2. DocumentIsCovered(s) /\ DocumentIsConsistent(doc[s]) BY DEF EditingInvariant
  <2>3. doc[s].project \in Projects \cup {None} BY <1>1 DEF Document
  <2>4. CASE doc[s].at \in {"begin", "left"} \/ Begun(doc[s])
    <3>1. doc[s].at \notin {"off", "start"} BY <2>4 DEF Begun
    <3>2. lock[doc[s].project] = s /\ doc[s].project \in Projects
      BY <2>2, <2>3, <2>4, <3>1 DEF DocumentIsCovered
    <3>3. doc[s].project \notin P BY <3>2, NoneAssumption
    <3> QED BY <2>1, <2>2, <3>2, <3>3 DEF DocumentIsCovered, Owns, Begun
  <2>5. CASE ~(doc[s].at \in {"begin", "left"} \/ Begun(doc[s]))
    BY <2>1, <2>2, <2>5 DEF DocumentIsCovered, DocumentIsConsistent, Begun
  <2> QED BY <2>4, <2>5
<1>4. ASSUME NEW p \in Projects \ P PROVE SavedWorkIsKept(p)'
  BY <1>4 DEF EditingInvariant, SavedWorkIsKept
<1>5. \A s \in Tabs : DocumentIsCovered(s)' BY <1>3
<1>6. \A p \in Projects : SavedWorkIsKept(p)' BY <1>4
<1>7. TypeOK' BY <1>1 DEF SharedTypes, TypeOK
<1> QED BY <1>2, <1>5, <1>6, <1>7 DEF EditingInvariant

LEMMA UntouchedFrame ==
    ASSUME NEW t \in Tabs, UNCHANGED <<store, lock>>,
           \A s \in Tabs \ {t} : session'[s] = session[s]
    PROVE  Frame({}, t)
  BY DEF Frame, store

LEMMA OneProjectFrame ==
    ASSUME NEW t \in Tabs, NEW p \in Projects, lock[p] \in {t, None},
           \A q \in Projects \ {p} : /\ checkpoint'[q] = checkpoint[q]
                                     /\ explicit'[q] = explicit[q]
                                     /\ stored'[q] = stored[q]
                                     /\ drafts'[q] = drafts[q]
                                     /\ lock'[q] = lock[q],
           \A s \in Tabs \ {t} : session'[s] = session[s]
    PROVE  Frame({p}, t)
  BY DEF Frame

\* What a step within a document may do to it, as far as others can tell.
LEMMA LocalStep ==
    ASSUME EditingInvariant, NEW t \in Tabs, NEW d \in Document,
           doc' = [doc EXCEPT ![t] = d], DocumentIsConsistent(d),
           UNCHANGED <<store, lock>>, tick' \in Versions, sessions' \in 0..SessionLimit,
           session' \in [Tabs -> Session \cup {None}],
           \A s \in Tabs \ {t} : session'[s] = session[s],
           DocumentIsCovered(t)'
    PROVE  EditingInvariant'
<1>1. SharedTypes' BY DEF EditingInvariant, TypeOK, SharedTypes, store
<1> DEFINE P == {}
<1>2. Frame(P, t) BY UntouchedFrame
<1>3. \A p \in P : SavedWorkIsKept(p)' OBVIOUS
<1> HIDE DEF P
<1> QED BY <1>1, <1>2, <1>3, Assemble

\* Steps of a document that is shown and of one that has left.
LEMMA PageStep ==
    ASSUME EditingInvariant, NEW t \in Tabs, NEW d \in Document,
           doc' = [doc EXCEPT ![t] = d], DocumentIsConsistent(d),
           UNCHANGED <<store, lock, session, sessions>>, tick' \in Versions,
           d.project = doc[t].project,
           d.at = doc[t].at \/ (Begun(doc[t]) /\ d.at # "left"),
           d.at = "failed" /\ d.mem # None => Begun(doc[t]),
           d.at \notin {"start", "off"} => doc[t].at \notin {"start", "off"},
           d.at = "begin" => doc[t].at = "begin",
           d.exit \in {"close", "commit"} => /\ doc[t].exit \in {"close", "commit"}
                                            /\ d.mem = doc[t].mem,
           d.at = "left" => \A i \in DOMAIN d.queue : \E k \in DOMAIN doc[t].queue :
                                d.queue[i].version = doc[t].queue[k].version
    PROVE  EditingInvariant'
<1>1. doc'[t] = d BY DEF EditingInvariant, TypeOK
<1>2. DocumentIsCovered(t) BY DEF EditingInvariant
<1>3. DocumentIsCovered(t)'
  BY <1>1, <1>2 DEF DocumentIsCovered, Begun, Owns, store
<1> QED BY <1>3, LocalStep DEF EditingInvariant, TypeOK

-----------------------------------------------------------------------------
(* Drafts and checkpoints *)

LEMMA RetainedIsSubset ==
    ASSUME NEW ds, NEW x
    PROVE  Retained(ds, x) \subseteq ds
  BY DEF Retained, Newest, Manual

LEMMA RollbackKeepsBaseline ==
    ASSUME NEW cp, NEW ds, Manual(ds) \subseteq cp.drafts
    PROVE  /\ RolledBackProject(cp, ds) = cp.project
           /\ RolledBackDrafts(cp, ds) \subseteq cp.drafts
<1>1. RolledBackDrafts(cp, ds) \subseteq
        cp.drafts \cup {d \in Manual(ds) : \A b \in cp.drafts : b.id # d.id}
  BY RetainedIsSubset DEF RolledBackDrafts
<1>2. RolledBackDrafts(cp, ds) \subseteq cp.drafts BY <1>1
<1>3. Manual(RolledBackDrafts(cp, ds) \ cp.drafts) = {} BY <1>2 DEF Manual
<1> QED BY <1>2, <1>3 DEF RolledBackProject

\* A rollback ends the edit of a project with what was last saved.
LEMMA DiscardingKeepsSavedWork ==
    ASSUME EditingInvariant, NEW p \in Projects, checkpoint[p] # None, DiscardCheckpoint(p)
    PROVE  /\ stored' \in [Projects -> Versions \cup {None}]
           /\ drafts' \in [Projects -> SUBSET Draft]
           /\ checkpoint' \in [Projects -> Checkpoint \cup {None}]
           /\ explicit' = explicit
           /\ stored'[p] = explicit[p] /\ checkpoint'[p] = None
           /\ SavedWorkIsKept(p)'
           /\ \A q \in Projects \ {p} : /\ checkpoint'[q] = checkpoint[q]
                                        /\ stored'[q] = stored[q]
                                        /\ drafts'[q] = drafts[q]
<1>1. /\ checkpoint[p] \in Checkpoint /\ checkpoint[p].drafts \in SUBSET Draft
      /\ checkpoint[p].project \in Versions \cup {None}
  BY DEF EditingInvariant, TypeOK, Checkpoint
<1>2. SavedWorkIsKept(p) BY DEF EditingInvariant
<1>3. /\ RolledBackProject(checkpoint[p], drafts[p]) = checkpoint[p].project
      /\ RolledBackDrafts(checkpoint[p], drafts[p]) \subseteq checkpoint[p].drafts
  BY <1>2, RollbackKeepsBaseline DEF SavedWorkIsKept
<1>4. /\ stored' = [stored EXCEPT ![p] = checkpoint[p].project]
      /\ \E ds \in SUBSET Draft : drafts' = [drafts EXCEPT ![p] = ds]
      /\ checkpoint' = [checkpoint EXCEPT ![p] = None]
      /\ explicit' = explicit
  BY <1>1, <1>3 DEF DiscardCheckpoint
<1> QED BY <1>1, <1>2, <1>4 DEF EditingInvariant, TypeOK, SavedWorkIsKept

-----------------------------------------------------------------------------
(* The start page *)

Early == {"off", "start", "gate", "begin", "load"}

\* A document that shows no project yet.
Empty(d) ==
    d.at \in Early \cup {"failed"} /\ d.mem = None /\ d.queue = <<>> /\ d.exit = "no"

LEMMA EarlyIsEmpty ==
    ASSUME EditingInvariant, NEW t \in Tabs, doc[t].at \in Early
    PROVE  Empty(doc[t]) /\ doc[t] \in Document
  BY DEF EditingInvariant, TypeOK, DocumentIsConsistent, Early, Empty

LEMMA EmptyIsConsistent ==
    ASSUME NEW d, Empty(d)
    PROVE  DocumentIsConsistent(d)
<1>1. DOMAIN d.queue = {} BY DEF Empty
<1> QED BY <1>1 DEF Empty, Early, DocumentIsConsistent

Lists(d, e, todo, target, fresh) ==
    e = [d EXCEPT !.at = "start", !.todo = todo, !.target = target, !.fresh = fresh]

StillListing(d, e) ==
    /\ e \in Document /\ e.at = "start" /\ e.mem = d.mem
    /\ e.queue = d.queue /\ e.exit = d.exit

LEMMA ListingDocument ==
    ASSUME NEW d \in Document, NEW e, NEW todo \in SUBSET Projects,
           NEW target \in Projects \cup {None}, NEW fresh \in BOOLEAN,
           Lists(d, e, todo, target, fresh)
    PROVE  StillListing(d, e)
<1>1. e \in Document BY DEF Document, Lists
<1>2. /\ e.at = "start" /\ e.mem = d.mem /\ e.queue = d.queue /\ e.exit = d.exit
  BY DEF Document, Lists
<1> QED BY <1>1, <1>2 DEF StillListing

\* A start page stays one, and may change projects whose lease is free or its own.
LEMMA StartPageStep ==
    ASSUME EditingInvariant, NEW t \in Tabs,
           doc[t].at \in {"off", "start"},
           doc' = [doc EXCEPT ![t] = doc'[t]], StillListing(doc[t], doc'[t]),
           NEW P, Frame(P, t), SharedTypes', \A p \in P : SavedWorkIsKept(p)',
           UNCHANGED <<tick, sessions>>
    PROVE  EditingInvariant'
<1>1. /\ doc'[t] \in Document
      /\ tick' \in Versions /\ sessions' \in 0..SessionLimit
  BY DEF EditingInvariant, TypeOK, StillListing
<1>2. DocumentIsConsistent(doc'[t])
  BY EarlyIsEmpty, EmptyIsConsistent DEF Empty, Early, StillListing
<1>3. DocumentIsCovered(t)'
  BY <1>2 DEF DocumentIsCovered, DocumentIsConsistent, Begun, StillListing
<1> QED BY <1>1, <1>2, <1>3, Assemble

\* Steps of a start page that change neither the store nor the locks.
LEMMA StartPageSteps ==
    ASSUME EditingInvariant, NEW t \in Tabs,
           \/ StartPage(t) \/ Refresh(t) \/ OpenRefused(t)
           \/ \E p \in Projects, fresh \in BOOLEAN : RequestOpen(t, p, fresh)
           \/ \E p \in Projects : SkipOwned(t, p)
    PROVE  EditingInvariant'
<1>1. /\ doc \in [Tabs -> Document] /\ doc[t] \in Document /\ Listed \in SUBSET Projects
      /\ session \in [Tabs -> Session \cup {None}]
  BY DEF EditingInvariant, TypeOK, Listed
<1>2. /\ doc[t].at \in {"off", "start"}
      /\ UNCHANGED <<store, lock, tick, sessions>>
  BY DEF StartPage, Refresh, OpenRefused, RequestOpen, SkipOwned, Settled, Keep
<1>3. /\ session' \in [Tabs -> Session \cup {None}]
      /\ \A s \in Tabs \ {t} : session'[s] = session[s]
  BY <1>1 DEF StartPage, Refresh, OpenRefused, RequestOpen, SkipOwned, Keep
<1>4. doc' = [doc EXCEPT ![t] = doc'[t]]
  BY <1>1 DEF StartPage, Refresh, OpenRefused, RequestOpen, SkipOwned
<1>5. StillListing(doc[t], doc'[t])
  <2>1. doc[t].todo \in SUBSET Projects /\ doc[t].target \in Projects \cup {None}
        /\ doc[t].fresh \in BOOLEAN
    BY <1>1 DEF Document
  <2>2. CASE StartPage(t)
    <3>1. Lists(doc[t], doc'[t], Listed, doc[t].target, doc[t].fresh)
      BY <2>2, <1>1 DEF StartPage, Document, Lists
    <3> QED BY <1>1, <2>1, <3>1, ListingDocument
  <2>3. CASE Refresh(t)
    <3>1. Lists(doc[t], doc'[t], Listed, doc[t].target, doc[t].fresh)
      BY <2>3, <1>1 DEF Refresh, Settled, Document, Lists
    <3> QED BY <1>1, <2>1, <3>1, ListingDocument
  <2>4. CASE OpenRefused(t)
    <3>1. Lists(doc[t], doc'[t], doc[t].todo, None, doc[t].fresh)
      BY <2>4, <1>1 DEF OpenRefused, Document, Lists
    <3> QED BY <1>1, <2>1, <3>1, ListingDocument
  <2>5. ASSUME NEW p \in Projects, NEW fresh \in BOOLEAN, RequestOpen(t, p, fresh)
        PROVE  StillListing(doc[t], doc'[t])
    <3>1. Lists(doc[t], doc'[t], Listed, p, fresh) BY <2>5, <1>1 DEF RequestOpen, Settled, Document, Lists
    <3> QED BY <1>1, <3>1, ListingDocument
  <2>6. ASSUME NEW p \in Projects, SkipOwned(t, p)
        PROVE  StillListing(doc[t], doc'[t])
    <3>1. Lists(doc[t], doc'[t], doc[t].todo \ {p}, doc[t].target, doc[t].fresh)
      BY <2>6, <1>1 DEF SkipOwned, Document, Lists
    <3>2. doc[t].todo \ {p} \in SUBSET Projects BY <2>1
    <3> QED BY <1>1, <2>1, <3>1, <3>2, ListingDocument
  <2> QED BY <2>2, <2>3, <2>4, <2>5, <2>6
<1>6. DocumentIsConsistent(doc'[t])
  BY <1>2, <1>5, EarlyIsEmpty, EmptyIsConsistent
  DEF Empty, Early, StillListing
<1>7. DocumentIsCovered(t)'
  BY <1>5, <1>6 DEF DocumentIsCovered, DocumentIsConsistent, Begun, StillListing
<1> QED BY <1>2, <1>3, <1>4, <1>5, <1>6, <1>7, LocalStep
  DEF EditingInvariant, TypeOK, StillListing

LEMMA DroppedFromList ==
    ASSUME EditingInvariant, NEW t \in Tabs, NEW p \in Projects,
           doc' = [doc EXCEPT ![t].todo = @ \ {p}] \/
           doc' = [doc EXCEPT ![t].todo = @ \ {p}, ![t].target = None] \/
           doc' = [doc EXCEPT ![t].todo = Listed \ {p}] \/
           doc' = doc,
           doc[t].at = "start"
    PROVE  doc' = [doc EXCEPT ![t] = doc'[t]] /\ StillListing(doc[t], doc'[t])
<1>1. /\ doc \in [Tabs -> Document] /\ doc[t] \in Document
      /\ doc[t].todo \in SUBSET Projects /\ doc[t].target \in Projects \cup {None}
      /\ doc[t].fresh \in BOOLEAN
  BY DEF EditingInvariant, TypeOK, Document
<1>2. doc' = [doc EXCEPT ![t] = doc'[t]] BY <1>1
<1>3. doc[t].todo \ {p} \in SUBSET Projects /\ Listed \ {p} \in SUBSET Projects
  BY <1>1 DEF Listed
<1>4. \/ Lists(doc[t], doc'[t], doc[t].todo \ {p}, doc[t].target, doc[t].fresh)
      \/ Lists(doc[t], doc'[t], doc[t].todo \ {p}, None, doc[t].fresh)
      \/ Lists(doc[t], doc'[t], Listed \ {p}, doc[t].target, doc[t].fresh)
      \/ Lists(doc[t], doc'[t], doc[t].todo, doc[t].target, doc[t].fresh)
  <2>1. CASE doc' = [doc EXCEPT ![t].todo = @ \ {p}]
    <3> DEFINE todo == doc[t].todo \ {p}
    <3>1. doc'[t] = [doc[t] EXCEPT !.todo = todo] BY <1>1, <2>1
    <3> HIDE DEF todo
    <3>2. Lists(doc[t], doc'[t], todo, doc[t].target, doc[t].fresh)
      BY <1>1, <3>1 DEF Lists, Document
    <3> QED BY <3>2 DEF todo
  <2>2. CASE doc' = [doc EXCEPT ![t].todo = @ \ {p}, ![t].target = None]
    BY <2>2, <1>1 DEF Lists, Document
  <2>3. CASE doc' = [doc EXCEPT ![t].todo = Listed \ {p}]
    BY <2>3, <1>1 DEF Lists, Document
  <2>4. CASE doc' = doc BY <2>4, <1>1 DEF Lists, Document
  <2> QED BY <2>1, <2>2, <2>3, <2>4
<1> QED BY <1>1, <1>2, <1>3, <1>4, ListingDocument

LEMMA AcquireAbandonedStep ==
    ASSUME EditingInvariant, NEW t \in Tabs, NEW p \in Projects, AcquireAbandoned(t, p)
    PROVE  EditingInvariant'
<1>1. doc' = [doc EXCEPT ![t] = doc'[t]] /\ StillListing(doc[t], doc'[t])
  BY DroppedFromList DEF AcquireAbandoned
<1>2. SharedTypes'
  BY DEF AcquireAbandoned, store, EditingInvariant, TypeOK, SharedTypes
<1>3. Frame({p}, t)
  BY OneProjectFrame DEF AcquireAbandoned, store, EditingInvariant, TypeOK
<1>4. \A q \in {p} : SavedWorkIsKept(q)'
  BY DEF AcquireAbandoned, store, EditingInvariant, SavedWorkIsKept
<1>5. doc[t].at \in {"off", "start"} /\ UNCHANGED <<tick, sessions>>
  BY DEF AcquireAbandoned
<1> QED BY <1>1, <1>2, <1>3, <1>4, <1>5, StartPageStep

LEMMA RollBackStep ==
    ASSUME EditingInvariant, NEW t \in Tabs, NEW p \in Projects,
           RollBack(t, p) \/ RollBackFails(t, p)
    PROVE  EditingInvariant'
<1>1. doc' = [doc EXCEPT ![t] = doc'[t]] /\ StillListing(doc[t], doc'[t])
  BY DroppedFromList DEF RollBack, RollBackFails
<1>2. /\ doc[t].at \in {"off", "start"} /\ lock[p] \in {t, None}
      /\ UNCHANGED <<tick, sessions, session>>
      /\ lock' \in [Projects -> Tabs \cup {None}]
      /\ \A q \in Projects \ {p} : lock'[q] = lock[q]
  BY DEF RollBack, RollBackFails, EditingInvariant, TypeOK
<1>3. /\ SharedTypes' /\ SavedWorkIsKept(p)'
      /\ \A q \in Projects \ {p} : /\ checkpoint'[q] = checkpoint[q]
                                   /\ explicit'[q] = explicit[q]
                                   /\ stored'[q] = stored[q]
                                   /\ drafts'[q] = drafts[q]
  <2>1. CASE RollBack(t, p) /\ checkpoint[p] # None
    <3>1. DiscardCheckpoint(p) BY <2>1 DEF RollBack
    <3> QED BY <1>2, <2>1, <3>1, DiscardingKeepsSavedWork
            DEF EditingInvariant, TypeOK, SharedTypes
  <2>2. CASE ~(RollBack(t, p) /\ checkpoint[p] # None)
    <3>1. UNCHANGED store BY <2>2 DEF RollBack, RollBackFails, UnchangedStore
    <3> QED BY <1>2, <3>1
            DEF store, EditingInvariant, TypeOK, SharedTypes, SavedWorkIsKept
  <2> QED BY <2>1, <2>2
<1>4. Frame({p}, t) BY <1>2, <1>3, OneProjectFrame
<1>5. \A q \in {p} : SavedWorkIsKept(q)' BY <1>3
<1> QED BY <1>1, <1>2, <1>3, <1>4, <1>5, StartPageStep

LEMMA ForgettingKeepsSavedWork ==
    ASSUME EditingInvariant, NEW t \in Tabs, NEW P \in SUBSET Projects, Forgotten(P),
           \A p \in P : lock[p] = None, UNCHANGED <<lock, session>>
    PROVE  SharedTypes' /\ Frame(P, t) /\ \A p \in P : SavedWorkIsKept(p)'
<1>1. SharedTypes' BY DEF EditingInvariant, TypeOK, Forgotten, SharedTypes
<1>2. Frame(P, t) BY DEF Forgotten, Frame
<1>3. \A p \in P : SavedWorkIsKept(p)' BY DEF Forgotten, SavedWorkIsKept
<1> QED BY <1>1, <1>2, <1>3

LEMMA DeleteSteps ==
    ASSUME EditingInvariant, NEW t \in Tabs,
           DeleteAll(t) \/ \E p \in Projects : DeleteProject(t, p)
    PROVE  EditingInvariant'
<1>1. PICK p \in Projects, P \in SUBSET Projects :
        /\ Forgotten(P) /\ \A q \in P : lock[q] = None
        /\ (doc' = [doc EXCEPT ![t].todo = Listed \ {p}] \/ doc' = doc)
        /\ doc[t].at = "start"
        /\ UNCHANGED <<lock, session, tick, sessions>>
  BY DEF DeleteAll, DeleteProject, Settled
<1>2. doc' = [doc EXCEPT ![t] = doc'[t]] /\ StillListing(doc[t], doc'[t])
  BY <1>1, DroppedFromList
<1>3. SharedTypes' /\ Frame(P, t) /\ \A q \in P : SavedWorkIsKept(q)'
  BY <1>1, ForgettingKeepsSavedWork
<1> QED BY <1>1, <1>2, <1>3, StartPageStep

-----------------------------------------------------------------------------
(* Opening the editor *)

MovedTo(d, e, at) == e = [d EXCEPT !.at = at]

LEMMA MovedDocument ==
    ASSUME NEW d \in Document, Empty(d), NEW at \in Early \cup {"failed"},
           NEW e, MovedTo(d, e, at)
    PROVE  /\ e \in Document /\ Empty(e) /\ DocumentIsConsistent(e)
           /\ e.at = at /\ e.project = d.project
<1>1. e \in Document BY DEF MovedTo, Document, Early
<1>2. e.at = at /\ e.project = d.project /\ Empty(e)
  BY DEF MovedTo, Document, Empty
<1> QED BY <1>1, <1>2, EmptyIsConsistent

\* The tab of an editor that is still empty.
LEMMA OpeningFacts ==
    ASSUME EditingInvariant, NEW t \in Tabs, doc[t].at \in {"gate", "begin", "load"}
    PROVE  /\ doc \in [Tabs -> Document] /\ doc[t] \in Document /\ Empty(doc[t])
           /\ doc[t].project \in Projects /\ session[t] \in Session
           /\ SharedTypes /\ tick \in Versions /\ sessions \in 0..SessionLimit
           /\ DocumentIsCovered(t)
<1>1. Empty(doc[t]) BY EarlyIsEmpty DEF Early
<1>2. DocumentIsCovered(t) BY DEF EditingInvariant
<1>3. doc[t].project \in Projects
  BY <1>2 DEF DocumentIsCovered, EditingInvariant, TypeOK, Document
<1>4. session[t] \in Session BY <1>2 DEF DocumentIsCovered, EditingInvariant, TypeOK
<1> QED BY <1>1, <1>2, <1>3, <1>4 DEF EditingInvariant, TypeOK, SharedTypes

LEMMA RefusedStep ==
    ASSUME EditingInvariant, NEW t \in Tabs,
           WriterRefused(t) \/ BeginFails(t) \/ EntryRefused(t)
    PROVE  EditingInvariant'
<1>1. /\ doc[t].at \in {"gate", "begin", "load"}
      /\ doc' = [doc EXCEPT ![t].at = "failed"]
      /\ UNCHANGED <<store, lock, session, tick, sessions>>
  BY DEF WriterRefused, BeginFails, EntryRefused, Fails, Keep
<1>2. /\ doc' = [doc EXCEPT ![t] = doc'[t]] /\ MovedTo(doc[t], doc'[t], "failed")
  BY <1>1, OpeningFacts DEF MovedTo
<1>3. /\ doc'[t] \in Document /\ DocumentIsConsistent(doc'[t]) /\ Empty(doc'[t])
      /\ doc'[t].at = "failed" /\ doc'[t].project = doc[t].project
  BY <1>1, <1>2, OpeningFacts, MovedDocument
<1>4. DocumentIsCovered(t)'
  BY <1>1, <1>3, OpeningFacts DEF DocumentIsCovered, Begun, Empty
<1> QED BY <1>1, <1>2, <1>3, <1>4, OpeningFacts, LocalStep DEF SharedTypes

LEMMA EnterEditorStep ==
    ASSUME EditingInvariant, NEW t \in Tabs, EnterEditor(t)
    PROVE  EditingInvariant'
<1>1. /\ doc \in [Tabs -> Document] /\ doc[t] \in Document
      /\ session \in [Tabs -> Session \cup {None}]
      /\ sessions \in 0..SessionLimit /\ tick \in Versions
  BY DEF EditingInvariant, TypeOK
<1> DEFINE p == doc[t].target
           s == [id |-> sessions + 1, project |-> p,
                 fresh |-> doc[t].fresh, seed |-> doc[t].fresh]
<1>2. /\ p \in Projects /\ doc[t].fresh \in BOOLEAN
      /\ sessions + 1 \in 1..SessionLimit
  BY <1>1, LimitAssumption DEF EnterEditor, Document
<1>3. s \in Session BY <1>2 DEF Session, SessionIds
<1>4. /\ session' = [session EXCEPT ![t] = s] /\ sessions' = sessions + 1
      /\ UNCHANGED <<store, lock, tick>>
  BY DEF EnterEditor
<1> HIDE DEF s
<1>5. /\ session' \in [Tabs -> Session \cup {None}] /\ session'[t] # None
      /\ \A u \in Tabs \ {t} : session'[u] = session[u]
  BY <1>1, <1>3, <1>4, NoneAssumption
<1> DEFINE e == [Off EXCEPT !.at = "gate", !.project = p]
<1>6. doc' = [doc EXCEPT ![t] = e] BY DEF EnterEditor
<1>7. e \in Document BY <1>2, OffIsDocument DEF Document
<1>8. /\ e.at = "gate" /\ e.project = p /\ Empty(e)
  BY OffIsDocument DEF Off, Empty, Early
<1> HIDE DEF e
<1>9. doc'[t] = e BY <1>1, <1>6
<1>10. DocumentIsCovered(t)'
  BY <1>2, <1>5, <1>8, <1>9, NoneAssumption DEF DocumentIsCovered, Begun, Empty
<1>11. sessions' \in 0..SessionLimit /\ tick' \in Versions BY <1>1, <1>2, <1>4
<1>12. DocumentIsConsistent(e) BY <1>8, EmptyIsConsistent
<1> QED BY <1>4, <1>5, <1>6, <1>7, <1>10, <1>11, <1>12, LocalStep

LEMMA AcquireWriterStep ==
    ASSUME EditingInvariant, NEW t \in Tabs, AcquireWriter(t)
    PROVE  EditingInvariant'
<1>4. PICK p \in Projects : p = doc[t].project BY OpeningFacts DEF AcquireWriter
<1>1. /\ doc[t].at = "gate" /\ lock[p] = None
      /\ doc' = [doc EXCEPT ![t].at = "begin"] /\ lock' = [lock EXCEPT ![p] = t]
      /\ UNCHANGED <<store, session, tick, sessions>>
  BY <1>4 DEF AcquireWriter
<1>2. /\ doc' = [doc EXCEPT ![t] = doc'[t]] /\ MovedTo(doc[t], doc'[t], "begin")
  BY <1>1, OpeningFacts DEF MovedTo
<1>3. /\ doc'[t] \in Document /\ DocumentIsConsistent(doc'[t])
      /\ doc'[t].at = "begin" /\ doc'[t].project = p
  BY <1>1, <1>2, <1>4, OpeningFacts, MovedDocument DEF Early
<1>5. /\ SharedTypes' /\ lock'[p] = t /\ \A q \in Projects \ {p} : lock'[q] = lock[q]
  BY <1>1, <1>4, OpeningFacts DEF SharedTypes, store
<1>6. DocumentIsCovered(t)'
  BY <1>1, <1>3, <1>5, OpeningFacts DEF DocumentIsCovered, DocumentIsConsistent, Begun
<1>7. Frame({p}, t) BY <1>1, <1>4, <1>5, OneProjectFrame DEF store
<1>8. \A q \in {p} : SavedWorkIsKept(q)'
  BY <1>1, <1>4 DEF store, EditingInvariant, SavedWorkIsKept
<1>9. tick' \in Versions /\ sessions' \in 0..SessionLimit BY <1>1, OpeningFacts
<1> QED BY <1>2, <1>3, <1>5, <1>6, <1>7, <1>8, <1>9, Assemble

LEMMA BeginCheckpointStep ==
    ASSUME EditingInvariant, NEW t \in Tabs, BeginCheckpoint(t)
    PROVE  EditingInvariant'
<1>0. PICK p \in Projects : p = doc[t].project BY OpeningFacts DEF BeginCheckpoint
<1> DEFINE cp == [owner |-> session[t].id, project |-> stored[p],
                  drafts |-> drafts[p], present |-> stored[p] # None]
<1>1. /\ doc[t].at = "begin" /\ doc' = [doc EXCEPT ![t].at = "load"]
      /\ UNCHANGED <<stored, drafts, explicit, lock, session, tick, sessions>>
      /\ \/ checkpoint[p] = None /\ checkpoint' = [checkpoint EXCEPT ![p] = cp]
         \/ /\ checkpoint[p] # None /\ checkpoint[p].owner = session[t].id
            /\ checkpoint' = checkpoint
  BY <1>0 DEF BeginCheckpoint
<1>2. /\ doc' = [doc EXCEPT ![t] = doc'[t]] /\ MovedTo(doc[t], doc'[t], "load")
  BY <1>1, OpeningFacts DEF MovedTo
<1>3. /\ doc'[t] \in Document /\ DocumentIsConsistent(doc'[t])
      /\ doc'[t].at = "load" /\ doc'[t].project = p
  BY <1>0, <1>1, <1>2, OpeningFacts, MovedDocument DEF Early
<1>4. session[t].id \in SessionIds /\ session[t] # None
  BY <1>1, OpeningFacts, NoneAssumption DEF Session
<1>5. lock[p] = t BY <1>0, <1>1, OpeningFacts DEF DocumentIsCovered
<1>6. stored[p] \in Versions \cup {None} /\ drafts[p] \in SUBSET Draft
  BY <1>1, <1>4, OpeningFacts DEF SharedTypes
<1>7. cp \in Checkpoint BY <1>4, <1>6 DEF Checkpoint
<1>8. /\ cp # None /\ cp.owner = session[t].id /\ cp.project = stored[p]
      /\ cp.drafts = drafts[p]
  BY <1>7, NoneAssumption
<1> HIDE DEF cp
<1>9. /\ SharedTypes' /\ \A q \in Projects \ {p} : checkpoint'[q] = checkpoint[q]
  BY <1>1, <1>4, <1>7, OpeningFacts DEF SharedTypes
<1>10. /\ checkpoint'[p] # None /\ checkpoint'[p].owner = session[t].id
  BY <1>1, <1>4, <1>8, OpeningFacts DEF SharedTypes
<1>11. DocumentIsCovered(t)'
  BY <1>1, <1>3, <1>4, <1>5, <1>10, NoneAssumption
  DEF DocumentIsCovered, DocumentIsConsistent, Begun, Owns
<1>12. Frame({p}, t) BY <1>1, <1>4, <1>5, <1>9, OneProjectFrame
<1>13. SavedWorkIsKept(p)'
  <2>1. SavedWorkIsKept(p) BY <1>4 DEF EditingInvariant
  <2>2. CASE checkpoint' = checkpoint BY <1>1, <2>1, <2>2 DEF SavedWorkIsKept
  <2>3. CASE checkpoint[p] = None /\ checkpoint' = [checkpoint EXCEPT ![p] = cp]
    <3>1. checkpoint'[p] = cp BY <1>1, <1>4, <2>3, OpeningFacts DEF SharedTypes
    <3>2. Manual(drafts[p]) \subseteq drafts[p] BY DEF Manual
    <3> QED BY <1>1, <1>8, <2>1, <2>3, <3>1, <3>2 DEF SavedWorkIsKept
  <2> QED BY <1>1, <2>2, <2>3
<1>14. \A q \in {p} : SavedWorkIsKept(q)' BY <1>13
<1>15. tick' \in Versions /\ sessions' \in 0..SessionLimit BY <1>1, OpeningFacts
<1> QED BY <1>2, <1>3, <1>9, <1>11, <1>12, <1>14, <1>15, Assemble

LEMMA LoadProjectStep ==
    ASSUME EditingInvariant, NEW t \in Tabs, LoadProject(t)
    PROVE  EditingInvariant'
<1>1. PICK p \in Projects : p = doc[t].project BY OpeningFacts DEF LoadProject
<1>2. PICK v \in Versions :
        /\ doc' = [doc EXCEPT ![t] =
                Enqueued([@ EXCEPT !.at = "entering", !.mem = v], NewWrite("entry", v))]
        /\ tick' \in Versions
  <2>1. CASE stored[p] # None /\ UNCHANGED tick
    BY <1>1, <2>1, OpeningFacts DEF LoadProject, SharedTypes
  <2>2. CASE stored[p] = None /\ tick < VersionLimit /\ tick' = tick + 1
    <3>1. tick + 1 \in Versions BY <2>2, OpeningFacts, LimitAssumption DEF LoadProject, Versions
    <3> QED BY <1>1, <2>2, <3>1 DEF LoadProject
  <2> QED BY <1>1, <2>1, <2>2 DEF LoadProject
<1>3. /\ doc[t].at = "load" /\ doc[t] \in Document /\ Empty(doc[t])
      /\ UNCHANGED <<store, lock, session, sessions>>
  BY OpeningFacts DEF LoadProject
<1> DEFINE d == [doc[t] EXCEPT !.at = "entering", !.mem = v]
<1>4. v # None BY NoneAssumption
<1>5. d \in Document BY <1>3 DEF Document
<1>6. /\ d.at = "entering" /\ d.mem = v /\ d.queue = <<>> /\ d.exit = "no"
      /\ d.project = doc[t].project
  BY <1>3 DEF Document, Empty
<1>7. IsEnqueued(d, doc'[t], "entry") /\ doc' = [doc EXCEPT ![t] = doc'[t]]
  BY <1>2, <1>3, <1>6, OpeningFacts DEF IsEnqueued
<1> HIDE DEF d
<1>8. DOMAIN d.queue = {} BY <1>6
<1>9. Plain(d) BY <1>8 DEF Plain
<1>10. DocumentIsConsistent(d) BY <1>4, <1>6, <1>8, <1>9, PlainIsConsistent
<1>11. Belongs("entry", d) BY <1>6 DEF Belongs
<1>12. /\ doc'[t] \in Document /\ DocumentIsConsistent(doc'[t]) /\ SameBut(d, doc'[t])
  BY <1>4, <1>5, <1>6, <1>7, <1>9, <1>10, <1>11, EnqueuedDocument DEF Tags, Saves
<1>13. Begun(doc[t]) /\ DocumentIsCovered(t) BY <1>3, OpeningFacts DEF Begun
<1> QED BY <1>2, <1>3, <1>6, <1>7, <1>12, <1>13, PageStep DEF SameBut

-----------------------------------------------------------------------------
(* Editing *)

\* Where no write of a special kind belongs, there is none.
LEMMA QuietQueueIsPlain ==
    ASSUME NEW d \in Document, DocumentIsConsistent(d),
           d.at # "entering", d.exit \notin {"flush", "seal"},
           ~(d.at = "open" /\ d.exit = "no" /\ d.drafting)
    PROVE  Plain(d)
<1> SUFFICES ASSUME NEW i \in DOMAIN d.queue PROVE d.queue[i].tag = "snapshot"
  BY DEF Plain
<1>1. d.queue \in Seq(Write) BY DEF Document
<1>2. d.queue[i] \in Write BY <1>1
<1>3. d.queue[i].tag \in Tags BY <1>2 DEF Write
<1> QED BY <1>3 DEF DocumentIsConsistent, Tags, Saves, DraftSaves

LEMMA DocumentFacts ==
    ASSUME EditingInvariant, NEW t \in Tabs
    PROVE  /\ doc \in [Tabs -> Document] /\ doc[t] \in Document
           /\ DocumentIsConsistent(doc[t]) /\ DocumentIsCovered(t)
           /\ SharedTypes /\ tick \in Versions /\ sessions \in 0..SessionLimit
  BY DEF EditingInvariant, TypeOK, SharedTypes

\* A step after which the same document is shown, with one more write queued.
LEMMA EnqueuingStep ==
    ASSUME EditingInvariant, NEW t \in Tabs,
           NEW d \in Document, DocumentIsConsistent(d),
           d.at = doc[t].at, d.project = doc[t].project,
           d.exit \in {"close", "commit"} => d.exit = doc[t].exit /\ d.mem = doc[t].mem,
           d.at \in {"entering", "open"} \/ (d.at = "failed" /\ doc[t].mem # None),
           NEW tag \in Tags, d.mem # None, d.exit # "discard",
           tag # "snapshot" => Plain(d) /\ Belongs(tag, d),
           doc' = [doc EXCEPT ![t] = doc'[t]], IsEnqueued(d, doc'[t], tag),
           UNCHANGED <<store, lock, session, sessions>>, tick' \in Versions
    PROVE  EditingInvariant'
<1>1. doc'[t] \in Document /\ DocumentIsConsistent(doc'[t]) /\ SameBut(d, doc'[t])
  BY EnqueuedDocument
<1>2. doc'[t].at = "failed" => Begun(doc[t]) BY <1>1 DEF SameBut, Begun
<1> QED BY <1>1, <1>2, PageStep DEF SameBut

LEMMA EditStep ==
    ASSUME EditingInvariant, NEW t \in Tabs, Edit(t)
    PROVE  EditingInvariant'
<1> DEFINE d == [doc[t] EXCEPT !.mem = tick + 1, !.saveFailed = FALSE]
<1>1. /\ doc[t] \in Document /\ DocumentIsConsistent(doc[t])
      /\ doc[t].at = "open" /\ doc[t].exit = "no" /\ ~doc[t].completed
  BY DocumentFacts DEF Edit, Editable
<1>2. tick + 1 \in Versions /\ tick' = tick + 1
  BY DocumentFacts, LimitAssumption DEF Edit, Versions
<1>3. tick + 1 # None BY <1>2, NoneAssumption
<1>4. d \in Document BY <1>1, <1>2 DEF Document
<1>5. /\ d.at = "open" /\ d.mem = tick + 1 /\ d.exit = "no" /\ d.queue = doc[t].queue
      /\ d.project = doc[t].project /\ d.drafting = doc[t].drafting
  BY <1>1 DEF Document
<1>6. IsEnqueued(d, doc'[t], "snapshot") /\ doc' = [doc EXCEPT ![t] = doc'[t]]
  BY <1>1, DocumentFacts DEF Edit, Becomes, SnapshotEnqueued, IsEnqueued, Document
<1> HIDE DEF d
<1>7. DocumentIsConsistent(d) BY <1>1, <1>3, <1>5 DEF DocumentIsConsistent
<1>8. UNCHANGED <<store, lock, session, sessions>> BY DEF Edit
<1> QED BY <1>1, <1>2, <1>3, <1>4, <1>5, <1>6, <1>7, <1>8, EnqueuingStep DEF Tags, Saves

LEMMA FlushStep ==
    ASSUME EditingInvariant, NEW t \in Tabs, Flush(t)
    PROVE  EditingInvariant'
<1> DEFINE d == [doc[t] EXCEPT !.saveFailed = FALSE]
<1>1. /\ doc[t] \in Document /\ DocumentIsConsistent(doc[t])
      /\ doc[t].mem # None /\ ~doc[t].completed
  BY DocumentFacts DEF Flush
<1>2. d \in Document BY <1>1 DEF Document
<1>3. /\ SameBut(doc[t], d) /\ d.queue = doc[t].queue BY <1>1 DEF Document, SameBut
<1>4. IsEnqueued(d, doc'[t], "snapshot") /\ doc' = [doc EXCEPT ![t] = doc'[t]]
  BY <1>1, DocumentFacts DEF Flush, Becomes, SnapshotEnqueued, IsEnqueued, Document
<1> HIDE DEF d
<1>5. DocumentIsConsistent(d) BY <1>1, <1>3 DEF DocumentIsConsistent, SameBut
<1>6. d.at \in {"entering", "open"} \/ (d.at = "failed" /\ doc[t].mem # None)
  BY <1>1, <1>3 DEF DocumentIsConsistent, SameBut, Document
<1>7. d.exit # "discard" BY <1>1, <1>3 DEF DocumentIsConsistent, SameBut
<1>8. UNCHANGED <<store, lock, session, sessions>> /\ tick' \in Versions
  BY DocumentFacts DEF Flush, Page
<1> QED BY <1>1, <1>2, <1>3, <1>4, <1>5, <1>6, <1>7, <1>8, EnqueuingStep
        DEF Tags, Saves, SameBut

\* The user or the timer asks for a write of a special kind.
LEMMA RequestSteps ==
    ASSUME EditingInvariant, NEW t \in Tabs,
           ManualSave(t) \/ AutoSave(t) \/ Restore(t) \/ SaveAndExit(t) \/ ExitIdle(t)
    PROVE  EditingInvariant'
<1> DEFINE Asks(d, tag) ==
        /\ d \in Document /\ DocumentIsConsistent(d) /\ Plain(d) /\ Belongs(tag, d)
        /\ d.at = "open" /\ d.project = doc[t].project
        /\ d.exit \in {"no", "flush", "seal"}
        /\ IsEnqueued(d, doc'[t], tag)
<1>1. /\ doc[t] \in Document /\ DocumentIsConsistent(doc[t])
      /\ doc[t].at = "open" /\ doc[t].mem # None /\ Plain(doc[t])
      /\ doc[t].exit \in {"no", "idle"}
  <2>1. /\ doc[t].at = "open" /\ doc[t].exit \in {"no", "idle"}
        /\ doc[t].exit = "no" => ~doc[t].drafting
    BY DocumentFacts DEF ManualSave, AutoSave, Restore, SaveAndExit, ExitIdle, Editable,
                         DocumentIsConsistent
  <2> QED BY <2>1, DocumentFacts, QuietQueueIsPlain DEF DocumentIsConsistent
<1>2. /\ doc' = [doc EXCEPT ![t] = doc'[t]]
      /\ UNCHANGED <<store, lock, session, sessions>> /\ tick' \in Versions
  BY DocumentFacts DEF ManualSave, AutoSave, Restore, SaveAndExit, ExitIdle, Becomes, Page
<1>3. ASSUME ManualSave(t) \/ AutoSave(t)
      PROVE  \E d \in Document, tag \in {"manual", "auto"} : Asks(d, tag)
  <2> DEFINE d == [doc[t] EXCEPT !.drafting = TRUE]
  <2>1. d \in Document BY <1>1 DEF Document
  <2>2. /\ d.at = "open" /\ d.mem = doc[t].mem /\ d.exit = "no" /\ d.drafting
        /\ d.queue = doc[t].queue /\ d.project = doc[t].project
    BY <1>1, <1>3 DEF Document, ManualSave, AutoSave, Editable
  <2>3. \E tag \in {"manual", "auto"} : IsEnqueued(d, doc'[t], tag)
    BY <1>1, <1>3, DocumentFacts DEF ManualSave, AutoSave, Becomes, IsEnqueued, Document
  <2> HIDE DEF d
  <2>4. Plain(d) BY <1>1, <2>2 DEF Plain
  <2>5. DocumentIsConsistent(d) BY <1>1, <2>2, <2>4, PlainIsConsistent
  <2> QED BY <2>1, <2>2, <2>3, <2>4, <2>5 DEF Belongs
<1>4. ASSUME Restore(t) PROVE \E d \in Document : Asks(d, "barrier")
  <2>1. PICK c \in drafts[doc[t].project] :
          doc' = [doc EXCEPT ![t] = Enqueued([doc[t] EXCEPT !.drafting = TRUE, !.chosen = c],
                                             NewWrite("barrier", doc[t].mem))]
    BY <1>4 DEF Restore, Becomes
  <2>2. c \in Draft
    <3>1. doc[t].project \in Projects
      BY <1>1, DocumentFacts DEF DocumentIsCovered, Document
    <3> QED BY <3>1, DocumentFacts DEF SharedTypes
  <2> DEFINE d == [doc[t] EXCEPT !.drafting = TRUE, !.chosen = c]
  <2>3. d \in Document BY <1>1, <2>2 DEF Document
  <2>4. /\ d.at = "open" /\ d.mem = doc[t].mem /\ d.exit = "no" /\ d.drafting
        /\ d.queue = doc[t].queue /\ d.project = doc[t].project
    BY <1>1, <1>4 DEF Document, Restore, Editable
  <2>5. IsEnqueued(d, doc'[t], "barrier")
    BY <1>1, <2>1, <2>4, DocumentFacts DEF IsEnqueued
  <2> HIDE DEF d
  <2>6. Plain(d) BY <1>1, <2>4 DEF Plain
  <2>7. DocumentIsConsistent(d) BY <1>1, <2>4, <2>6, PlainIsConsistent
  <2> QED BY <2>3, <2>4, <2>5, <2>6, <2>7 DEF Belongs
<1>5. ASSUME SaveAndExit(t) PROVE \E d \in Document : Asks(d, "final")
  <2> DEFINE d == [[doc[t] EXCEPT !.exit = "flush"] EXCEPT !.saveFailed = FALSE]
  <2>1. d \in Document BY <1>1 DEF Document
  <2>2. /\ d.at = "open" /\ d.mem = doc[t].mem /\ d.exit = "flush"
        /\ d.queue = doc[t].queue /\ d.project = doc[t].project
    BY <1>1 DEF Document
  <2>3. IsEnqueued(d, doc'[t], "final")
    BY <1>1, <1>5, <2>2, DocumentFacts
    DEF SaveAndExit, Becomes, SnapshotEnqueued, IsEnqueued, Document
  <2> HIDE DEF d
  <2>4. Plain(d) BY <1>1, <2>2 DEF Plain
  <2>5. DocumentIsConsistent(d) BY <1>1, <2>2, <2>4, PlainIsConsistent
  <2> QED BY <2>1, <2>2, <2>3, <2>4, <2>5 DEF Belongs
<1>6. ASSUME ExitIdle(t) PROVE \E d \in Document : Asks(d, "seal")
  <2> DEFINE d == [doc[t] EXCEPT !.exit = "seal"]
  <2>1. d \in Document BY <1>1 DEF Document
  <2>2. /\ d.at = "open" /\ d.mem = doc[t].mem /\ d.exit = "seal" /\ d.final = d.mem
        /\ d.queue = <<>> /\ d.project = doc[t].project
    BY <1>1, <1>6 DEF Document, ExitIdle, DocumentIsConsistent
  <2>3. IsEnqueued(d, doc'[t], "seal")
    BY <1>1, <1>6, <2>2, DocumentFacts DEF ExitIdle, Becomes, IsEnqueued
  <2> HIDE DEF d
  <2>4. DOMAIN d.queue = {} BY <2>2
  <2>5. Plain(d) BY <2>4 DEF Plain
  <2>6. DocumentIsConsistent(d) BY <1>1, <2>2, <2>4, <2>5, PlainIsConsistent
  <2> QED BY <2>1, <2>2, <2>3, <2>5, <2>6 DEF Belongs
<1>7. PICK d \in Document, tag \in Tags : Asks(d, tag)
  BY <1>3, <1>4, <1>5, <1>6 DEF Tags, Saves, DraftSaves
<1>8. d.mem # None BY <1>7 DEF DocumentIsConsistent
<1> QED BY <1>1, <1>2, <1>7, <1>8, EnqueuingStep

-----------------------------------------------------------------------------
(* The write queue at work *)

LEMMA PoppedDocument ==
    ASSUME NEW d \in Document, DocumentIsConsistent(d), d.queue # <<>>
    PROVE  /\ Popped(d) \in Document /\ DocumentIsConsistent(Popped(d))
           /\ SameBut(d, Popped(d)) /\ Popped(d).chosen = d.chosen
  BY PoppedIsConsistent DEF Popped, Document, SameBut

\* What a document with a write in its queue is sure of.
LEMMA HeadFacts ==
    ASSUME EditingInvariant, NEW t \in Tabs, doc[t].queue # <<>>
    PROVE  /\ doc[t] \in Document /\ DocumentIsConsistent(doc[t])
           /\ DocumentIsCovered(t) /\ doc[t].mem # None
           /\ Head1(t) \in Write /\ doc[t].queue[1] = Head1(t) /\ 1 \in DOMAIN doc[t].queue
           /\ Belongs(Head1(t).tag, doc[t])
           /\ doc[t].at \in {"entering", "open", "failed", "left"}
           /\ doc[t].project \in Projects /\ lock[doc[t].project] = t
           /\ session[t] \in Session
           /\ doc[t].at # "left" => Owns(t)
           /\ doc[t].at = "left" => /\ Head1(t).tag = "snapshot"
                                    /\ Head1(t).version = explicit[doc[t].project]
<1>1. /\ doc[t] \in Document /\ DocumentIsConsistent(doc[t]) /\ DocumentIsCovered(t)
  BY DocumentFacts
<1>2. /\ Head1(t) \in Write /\ doc[t].queue[1] = Head1(t) /\ 1 \in DOMAIN doc[t].queue
  BY <1>1, PoppedIsConsistent DEF Head1
<1>3. doc[t].mem # None /\ doc[t].at \in {"entering", "open", "failed", "left"}
  BY <1>1 DEF DocumentIsConsistent, Document
<1>4. Belongs(Head1(t).tag, doc[t]) BY <1>1, <1>2 DEF DocumentIsConsistent, Belongs
<1>5. doc[t].project \in Projects /\ session[t] \in Session
  BY <1>1, <1>3, DocumentFacts DEF DocumentIsCovered, Document, SharedTypes
<1>6. lock[doc[t].project] = t /\ (doc[t].at # "left" => Owns(t))
  BY <1>1, <1>3 DEF DocumentIsCovered, Begun
<1>7. doc[t].at = "left" => /\ Head1(t).tag = "snapshot"
                            /\ Head1(t).version = explicit[doc[t].project]
  <2> SUFFICES ASSUME doc[t].at = "left"
               PROVE  /\ Head1(t).tag = "snapshot"
                      /\ Head1(t).version = explicit[doc[t].project]
    OBVIOUS
  <2>1. Plain(doc[t]) BY <1>1, QuietQueueIsPlain DEF DocumentIsConsistent
  <2> QED BY <1>1, <1>2, <2>1 DEF Plain, DocumentIsCovered
<1> QED BY <1>1, <1>2, <1>3, <1>4, <1>5, <1>6, <1>7

LEMMA StartWriteStep ==
    ASSUME EditingInvariant, NEW t \in Tabs, StartWrite(t)
    PROVE  EditingInvariant'
<1> DEFINE e == [doc[t] EXCEPT !.running = TRUE]
<1>1. doc[t] \in Document /\ DocumentIsConsistent(doc[t]) BY DocumentFacts
<1>2. e \in Document BY <1>1 DEF Document
<1>3. SameBut(doc[t], e) /\ e.queue = doc[t].queue BY <1>1 DEF Document, SameBut
<1>4. doc' = [doc EXCEPT ![t] = e] BY DocumentFacts DEF StartWrite
<1>5. UNCHANGED <<store, lock, session, sessions>> /\ tick' \in Versions
  BY DocumentFacts DEF StartWrite, Page
<1> HIDE DEF e
<1>6. DocumentIsConsistent(e) BY <1>1, <1>3 DEF DocumentIsConsistent, SameBut
<1>7. e.at = "failed" /\ e.mem # None => Begun(doc[t]) BY <1>3 DEF SameBut, Begun
<1> QED BY <1>2, <1>3, <1>4, <1>5, <1>6, <1>7, PageStep DEF SameBut

LEMMA SaveFailsInExit ==
    ASSUME NEW d \in Document
    PROVE  [d EXCEPT !.saveFailed = TRUE, !.exit = "no"] \in Document
  BY DEF Document

\* What is left of a document whose write has failed.
LEMMA FailedDocument ==
    ASSUME NEW d \in Document, DocumentIsConsistent(d), d.queue # <<>>
    PROVE  LET e == AfterFailure(Popped(d), Head(d.queue).tag) IN
           /\ e \in Document /\ DocumentIsConsistent(e)
           /\ e.project = d.project /\ e.queue = Popped(d).queue
           /\ e.mem = d.mem /\ e.exit \in {d.exit, "no"}
           /\ e.at = d.at \/ (d.at = "entering" /\ e.at = "failed")
<1> DEFINE b == Popped(d)
           tag == Head(d.queue).tag
           e == AfterFailure(b, tag)
<1>1. /\ b \in Document /\ DocumentIsConsistent(b) /\ SameBut(d, b)
  BY PoppedDocument
<1>2. tag \in Tags /\ Belongs(tag, d) /\ (tag # "snapshot" => Plain(b))
  BY PoppedIsConsistent DEF DocumentIsConsistent, Belongs, Write
<1> HIDE DEF b, tag
<1>3. e \in Document
  <2>1. CASE tag = "snapshot" BY <1>1, <2>1 DEF AfterFailure, Document
  <2>2. CASE tag = "final"
    <3>1. e = [b EXCEPT !.saveFailed = TRUE, !.exit = "no"] BY <2>2 DEF AfterFailure
    <3> QED BY <1>1, <3>1, SaveFailsInExit
  <2>3. CASE tag = "entry" BY <1>1, <2>3 DEF AfterFailure, Document
  <2>4. CASE tag = "seal" BY <1>1, <2>4 DEF AfterFailure, Document
  <2>5. CASE tag \notin {"snapshot", "final", "entry", "seal"}
    BY <1>1, <2>5 DEF AfterFailure, Document
  <2> QED BY <2>1, <2>2, <2>3, <2>4, <2>5
<1>4. /\ e.project = b.project /\ e.queue = b.queue /\ e.mem = b.mem
      /\ e.final = b.final /\ e.completed = b.completed
  BY <1>1 DEF AfterFailure, Document
<1>5. /\ e.at = IF tag = "entry" THEN "failed" ELSE b.at
      /\ e.exit = IF tag \in {"final", "seal"} THEN "no" ELSE b.exit
      /\ tag = "snapshot" => e.drafting = b.drafting
  BY <1>1 DEF AfterFailure, Document
<1> HIDE DEF e
<1>6. CASE tag = "snapshot"
  <2>1. DocumentIsConsistent(e) BY <1>1, <1>4, <1>5, <1>6 DEF DocumentIsConsistent
  <2> QED BY <1>1, <1>3, <1>4, <1>5, <1>6, <2>1 DEF SameBut, e, b, tag
<1>7. CASE tag # "snapshot"
  <2>1. Plain(e) BY <1>2, <1>4, <1>7 DEF Plain
  <2>2. e.exit = "no" /\ (tag = "entry" => b.at = "entering")
    BY <1>1, <1>2, <1>5, <1>7
    DEF Belongs, SameBut, Tags, Saves, DraftSaves, DocumentIsConsistent
  <2>3. DocumentIsConsistent(e)
    BY <1>1, <1>4, <1>5, <2>1, <2>2, PlainIsConsistent DEF DocumentIsConsistent
  <2> QED BY <1>1, <1>3, <1>4, <1>5, <2>2, <2>3 DEF SameBut, e, b, tag
<1> QED BY <1>6, <1>7

LEMMA FailedWriteSteps ==
    ASSUME EditingInvariant, NEW t \in Tabs, RejectStale(t) \/ WriteFails(t)
    PROVE  EditingInvariant'
<1> DEFINE e == AfterFailure(Popped(doc[t]), Head(doc[t].queue).tag)
<1>1. doc[t] \in Document /\ DocumentIsConsistent(doc[t]) BY DocumentFacts
<1>2. doc[t].queue # <<>> /\ doc' = [doc EXCEPT ![t] = e]
  BY DEF RejectStale, WriteFails, Waiting, Running, Becomes, Head1
<1>3. UNCHANGED <<store, lock, session, sessions>> /\ tick' \in Versions
  BY DocumentFacts DEF RejectStale, WriteFails, Page
<1>4. /\ e \in Document /\ DocumentIsConsistent(e)
      /\ e.project = doc[t].project /\ e.queue = Popped(doc[t]).queue
      /\ e.mem = doc[t].mem /\ e.exit \in {doc[t].exit, "no"}
      /\ e.at = doc[t].at \/ (doc[t].at = "entering" /\ e.at = "failed")
  BY <1>1, <1>2, FailedDocument
<1>5. \A i \in DOMAIN Popped(doc[t]).queue : \E k \in DOMAIN doc[t].queue :
        Popped(doc[t]).queue[i] = doc[t].queue[k]
  BY <1>1, <1>2, PoppedIsConsistent
<1>6. doc[t].mem # None BY <1>2, HeadFacts
<1> HIDE DEF e
<1>7. /\ e.at = doc[t].at \/ (Begun(doc[t]) /\ e.at # "left")
      /\ e.at = "failed" /\ e.mem # None => Begun(doc[t])
  BY <1>4, <1>6 DEF Begun
<1>8. e.at = "left" => \A i \in DOMAIN e.queue : \E k \in DOMAIN doc[t].queue :
                            e.queue[i].version = doc[t].queue[k].version
  BY <1>4, <1>5
<1>9. /\ e.at \notin {"start", "off"} => doc[t].at \notin {"start", "off"}
      /\ e.at = "begin" => doc[t].at = "begin"
      /\ e.exit \in {"close", "commit"} => /\ doc[t].exit \in {"close", "commit"}
                                           /\ e.mem = doc[t].mem
  BY <1>4
<1> QED BY <1>2, <1>3, <1>4, <1>7, <1>8, <1>9, PageStep

\* A transaction of a document changes its own project, under its lease.
LEMMA CommittingStep ==
    ASSUME EditingInvariant, NEW t \in Tabs, NEW p \in Projects, lock[p] = t,
           NEW d \in Document, DocumentIsConsistent(d), doc' = [doc EXCEPT ![t] = d],
           d.project = p, d.at \notin {"off", "start", "gate", "begin"},
           UNCHANGED <<lock, sessions>>, tick' \in Versions, SharedTypes',
           session'[t] # None, \A s \in Tabs \ {t} : session'[s] = session[s],
           \A q \in Projects \ {p} : /\ checkpoint'[q] = checkpoint[q]
                                     /\ explicit'[q] = explicit[q]
                                     /\ stored'[q] = stored[q]
                                     /\ drafts'[q] = drafts[q],
           SavedWorkIsKept(p)',
           d.at # "left" => /\ checkpoint'[p] # None
                            /\ checkpoint'[p].owner = session'[t].id,
           d.exit \in {"close", "commit"} => explicit'[p] = d.mem,
           d.at = "left" => /\ checkpoint'[p] = None
                            /\ \A i \in DOMAIN d.queue :
                                 d.queue[i].version = explicit'[p]
    PROVE  EditingInvariant'
<1>1. doc'[t] = d BY DocumentFacts
<1>2. p # None /\ lock'[p] = t BY NoneAssumption
<1>3. DocumentIsCovered(t)' BY <1>1, <1>2 DEF DocumentIsCovered, Begun, Owns
<1> DEFINE P == {p}
<1>4. Frame(P, t) BY OneProjectFrame
<1>5. \A q \in P : SavedWorkIsKept(q)' OBVIOUS
<1>6. sessions' \in 0..SessionLimit BY DocumentFacts
<1> HIDE DEF P
<1> QED BY <1>3, <1>4, <1>5, <1>6, Assemble

\* What is left of a document whose save is done.
LEMMA SavedDocument ==
    ASSUME NEW d \in Document, DocumentIsConsistent(d), d.queue # <<>>,
           Head(d.queue).tag \in Saves
    PROVE  LET e == AfterSave(Popped(d), Head(d.queue)) IN
           /\ e \in Document /\ DocumentIsConsistent(e)
           /\ e.project = d.project
           /\ e.at = d.at \/ (d.at = "entering" /\ e.at = "open")
           /\ Head(d.queue).tag = "snapshot" => e.queue = Popped(d).queue
           /\ e.exit \in {"close", "commit"} => e.exit = d.exit /\ e.mem = d.mem
<1> DEFINE b == Popped(d)
           w == Head(d.queue)
           e == AfterSave(b, w)
<1>1. /\ b \in Document /\ DocumentIsConsistent(b) /\ SameBut(d, b)
  BY PoppedDocument
<1>2. /\ w \in Write /\ w.tag \in Saves /\ w.version \in Versions /\ Belongs(w.tag, b)
      /\ w.tag # "snapshot" => Plain(b)
      /\ w.tag = "final" => /\ w.version = b.mem
                            /\ \A i \in DOMAIN b.queue : b.queue[i].version = b.mem
  BY <1>1, PoppedIsConsistent DEF DocumentIsConsistent, Belongs, SameBut, Write
<1>3. d.mem # None BY DEF DocumentIsConsistent
<1> HIDE DEF b, w
<1>4. CASE w.tag = "snapshot"
  <2>1. e = [b EXCEPT !.saveFailed = FALSE] BY <1>4 DEF AfterSave
  <2> HIDE DEF e
  <2>2. e \in Document BY <1>1, <2>1 DEF Document
  <2>3. SameBut(b, e) /\ e.queue = b.queue BY <1>1, <2>1 DEF SameBut, Document
  <2>4. DocumentIsConsistent(e) BY <1>1, <2>3 DEF DocumentIsConsistent, SameBut
  <2> QED BY <1>1, <2>2, <2>3, <2>4 DEF SameBut, e, b, w
<1>5. CASE w.tag = "final"
  <2>1. e = [b EXCEPT !.saveFailed = FALSE, !.exit = "idle", !.final = w.version]
    BY <1>5 DEF AfterSave
  <2> HIDE DEF e
  <2>2. e \in Document BY <1>1, <1>2, <2>1 DEF Document
  <2>3. /\ e.at = b.at /\ e.project = b.project /\ e.mem = b.mem
        /\ e.queue = b.queue /\ e.exit = "idle" /\ e.final = b.mem
        /\ e.completed = b.completed
    BY <1>1, <1>2, <1>5, <2>1 DEF Document
  <2>4. Plain(e) BY <1>2, <1>5, <2>3 DEF Plain
  <2>5. b.at = "open" BY <1>1, <1>2, <1>5 DEF Belongs, DocumentIsConsistent
  <2>6. \A i \in DOMAIN e.queue : e.queue[i].version = e.mem BY <1>2, <1>5, <2>3
  <2>7. DocumentIsConsistent(e)
    BY <1>1, <1>3, <2>3, <2>4, <2>5, <2>6, PlainIsConsistent DEF SameBut
  <2> QED BY <1>1, <1>5, <2>2, <2>3, <2>7 DEF SameBut, e, b, w
<1>6. CASE w.tag = "entry"
  <2>1. e = [b EXCEPT !.at = "open", !.drafted = w.version] BY <1>6 DEF AfterSave
  <2> HIDE DEF e
  <2>2. e \in Document BY <1>1, <1>2, <2>1 DEF Document
  <2>3. /\ e.at = "open" /\ e.project = b.project /\ e.mem = b.mem
        /\ e.queue = b.queue /\ e.exit = b.exit
    BY <1>1, <2>1 DEF Document
  <2>4. Plain(e) BY <1>2, <1>6, <2>3 DEF Plain
  <2>5. b.at = "entering" /\ b.exit = "no"
    BY <1>1, <1>2, <1>6 DEF Belongs, DocumentIsConsistent
  <2>6. DocumentIsConsistent(e)
    BY <1>1, <1>3, <2>3, <2>4, <2>5, PlainIsConsistent DEF SameBut
  <2> QED BY <1>1, <1>6, <2>2, <2>3, <2>5, <2>6 DEF SameBut, e, b, w
<1>7. CASE w.tag = "barrier"
  <2> DEFINE g == GenerationAdvanced(b)
  <2>1. e = Enqueued(g, NewWrite("restore", b.mem)) BY <1>7 DEF AfterSave
  <2>2. g \in Document /\ DocumentIsConsistent(g) /\ Plain(g)
    BY <1>1, <1>2, <1>7, AdvancedIsConsistent DEF Plain
  <2>3. SameBut(b, g) BY <1>1 DEF GenerationAdvanced, SameBut, Document
  <2> HIDE DEF g, e
  <2>4. IsEnqueued(g, e, "restore") BY <2>1, <2>3 DEF IsEnqueued, SameBut
  <2>5. Belongs("restore", g) /\ g.mem # None /\ g.exit # "discard"
    BY <1>1, <1>2, <1>3, <1>7, <2>3 DEF Belongs, SameBut
  <2>6. e \in Document /\ DocumentIsConsistent(e) /\ SameBut(g, e)
    BY <2>2, <2>4, <2>5, EnqueuedDocument DEF Tags
  <2> QED BY <1>1, <1>7, <2>3, <2>6 DEF SameBut, e, b, w
<1> QED BY <1>2, <1>4, <1>5, <1>6, <1>7 DEF Saves

LEMMA CommitSaveStep ==
    ASSUME EditingInvariant, NEW t \in Tabs, CommitSave(t)
    PROVE  EditingInvariant'
<1> DEFINE e == AfterSave(Popped(doc[t]), Head(doc[t].queue))
<1>1. doc[t].queue # <<>> BY DEF CommitSave, Running
<1>2. /\ doc[t] \in Document /\ DocumentIsConsistent(doc[t]) /\ DocumentIsCovered(t)
      /\ Head1(t) \in Write /\ Head1(t).version \in Versions /\ Head1(t).tag \in Saves
      /\ doc[t].at \in {"entering", "open", "failed", "left"}
      /\ lock[doc[t].project] = t /\ session[t] \in Session
      /\ doc[t].at # "left" => Owns(t)
      /\ doc[t].at = "left" => /\ Head1(t).tag = "snapshot"
                               /\ Head1(t).version = explicit[doc[t].project]
  BY <1>1, HeadFacts DEF CommitSave, Write
<1>3. PICK p \in Projects : p = doc[t].project BY <1>1, HeadFacts
<1>4. PICK v \in Versions : v = Head1(t).version BY <1>2
<1>5. /\ stored' = [stored EXCEPT ![p] = v]
      /\ session' = [session EXCEPT ![t].seed = @ /\ Head1(t).tag # "entry"]
      /\ doc' = [doc EXCEPT ![t] = e]
      /\ UNCHANGED <<drafts, checkpoint, explicit, lock, tick, sessions>>
  BY <1>3, <1>4 DEF CommitSave, Becomes, Head1
<1>6. /\ e \in Document /\ DocumentIsConsistent(e) /\ e.project = p
      /\ e.at = doc[t].at \/ (doc[t].at = "entering" /\ e.at = "open")
      /\ Head1(t).tag = "snapshot" => e.queue = Popped(doc[t]).queue
      /\ e.exit \in {"close", "commit"} => e.exit = doc[t].exit /\ e.mem = doc[t].mem
  BY <1>1, <1>2, <1>3, SavedDocument DEF Head1
<1> HIDE DEF e
<1>7. session'[t] \in Session /\ session'[t].id = session[t].id
  <2>1. session'[t] = [session[t] EXCEPT !.seed = @ /\ Head1(t).tag # "entry"]
    BY <1>5, DocumentFacts DEF SharedTypes
  <2>2. (session[t].seed /\ Head1(t).tag # "entry") \in BOOLEAN OBVIOUS
  <2> QED BY <1>2, <2>1, <2>2 DEF Session
<1>8. /\ session'[t] # None /\ \A s \in Tabs \ {t} : session'[s] = session[s]
  BY <1>5, <1>7, NoneAssumption, DocumentFacts DEF SharedTypes
<1>9. session' \in [Tabs -> Session \cup {None}]
  BY <1>5, <1>7, DocumentFacts DEF SharedTypes
<1>10. /\ stored'[p] = v /\ stored' \in [Projects -> Versions \cup {None}]
       /\ \A q \in Projects \ {p} : stored'[q] = stored[q]
  BY <1>5, DocumentFacts DEF SharedTypes
<1>11. SharedTypes' BY <1>5, <1>9, <1>10, DocumentFacts DEF SharedTypes
<1>12. checkpoint[p] = None => e.at = "left" /\ v = explicit[p]
  BY <1>2, <1>3, <1>4, <1>6 DEF Owns
<1>13. SavedWorkIsKept(p)'
  BY <1>5, <1>10, <1>12 DEF EditingInvariant, SavedWorkIsKept
<1>14. e.at # "left" => /\ checkpoint'[p] # None
                        /\ checkpoint'[p].owner = session'[t].id
  BY <1>2, <1>3, <1>5, <1>6, <1>7 DEF Owns
<1>15. e.at = "left" => /\ checkpoint'[p] = None
                        /\ \A i \in DOMAIN e.queue : e.queue[i].version = explicit'[p]
  <2> SUFFICES ASSUME e.at = "left"
               PROVE  /\ checkpoint'[p] = None
                      /\ \A i \in DOMAIN e.queue : e.queue[i].version = explicit'[p]
    OBVIOUS
  <2>1. /\ checkpoint[p] = None /\ Head1(t).tag = "snapshot"
        /\ \A i \in DOMAIN doc[t].queue : doc[t].queue[i].version = explicit[p]
    BY <1>2, <1>3, <1>6 DEF DocumentIsCovered
  <2>2. \A i \in DOMAIN e.queue : \E k \in DOMAIN doc[t].queue :
            e.queue[i] = doc[t].queue[k]
    BY <1>1, <1>2, <1>6, <2>1, PoppedIsConsistent
  <2> QED BY <1>5, <2>1, <2>2
<1>16. e.at \notin {"off", "start", "gate", "begin"} BY <1>2, <1>6
<1>17. lock[p] = t /\ UNCHANGED <<lock, sessions>> /\ tick' \in Versions
  BY <1>2, <1>3, <1>5, DocumentFacts
<1>18. \A q \in Projects \ {p} : /\ checkpoint'[q] = checkpoint[q]
                                 /\ explicit'[q] = explicit[q]
                                 /\ stored'[q] = stored[q]
                                 /\ drafts'[q] = drafts[q]
  BY <1>5, <1>10
<1>19. e.exit \in {"close", "commit"} => explicit'[p] = e.mem
  BY <1>2, <1>3, <1>5, <1>6 DEF DocumentIsCovered
<1> QED BY <1>5, <1>6, <1>8, <1>11, <1>13, <1>14, <1>15, <1>16, <1>17, <1>18, <1>19,
           CommittingStep

\* What is left of a document whose draft is saved.
LEMMA DraftedDocument ==
    ASSUME NEW d \in Document, DocumentIsConsistent(d), d.queue # <<>>,
           Head(d.queue).tag \in DraftSaves
    PROVE  LET e == AfterDraft(Popped(d), Head(d.queue)) IN
           /\ e \in Document /\ DocumentIsConsistent(e)
           /\ e.project = d.project /\ d.at = "open" /\ e.at = "open"
           /\ e.exit \in {"close", "commit"} =>
                /\ Head(d.queue).tag = "seal" /\ Head(d.queue).version = e.mem
<1> DEFINE b == Popped(d)
           w == Head(d.queue)
           e == AfterDraft(b, w)
<1>1. /\ b \in Document /\ DocumentIsConsistent(b) /\ SameBut(d, b)
  BY PoppedDocument
<1>2. /\ w.version \in Versions /\ Belongs(w.tag, b) /\ Plain(b) /\ w.tag \in DraftSaves
  BY <1>1, PoppedIsConsistent
  DEF DocumentIsConsistent, Belongs, SameBut, Write, DraftSaves
<1>3. w.tag = "seal" => w.version = b.mem
  BY <1>1, PoppedIsConsistent DEF DocumentIsConsistent, SameBut
<1>4. b.mem # None BY <1>1 DEF DocumentIsConsistent, SameBut
<1> HIDE DEF b, w
<1>5. CASE w.tag = "seal"
  <2>1. e = [b EXCEPT !.exit = "close"] BY <1>5 DEF AfterDraft
  <2> HIDE DEF e
  <2>2. e \in Document BY <1>1, <2>1 DEF Document
  <2>3. /\ e.at = b.at /\ e.project = b.project /\ e.mem = b.mem
        /\ e.queue = b.queue /\ e.exit = "close" /\ e.final = b.final
        /\ e.completed = b.completed
    BY <1>1, <2>1 DEF Document
  <2>4. Plain(e) BY <1>2, <2>3 DEF Plain
  <2>5. /\ b.at = "open" /\ b.final = b.mem
        /\ \A i \in DOMAIN b.queue : b.queue[i].version = b.mem
    BY <1>1, <1>2, <1>5 DEF Belongs, DocumentIsConsistent
  <2>6. DocumentIsConsistent(e)
    BY <1>4, <2>3, <2>4, <2>5, PlainIsConsistent
  <2> QED BY <1>1, <1>5, <1>3, <2>2, <2>3, <2>5, <2>6 DEF SameBut, e, b, w
<1>6. CASE w.tag \in {"manual", "auto"}
  <2>1. e = [b EXCEPT !.drafting = FALSE, !.drafted = w.version]
    BY <1>6 DEF AfterDraft
  <2> HIDE DEF e
  <2>2. e \in Document BY <1>1, <1>2, <2>1 DEF Document
  <2>3. /\ e.at = b.at /\ e.project = b.project /\ e.mem = b.mem
        /\ e.queue = b.queue /\ e.exit = b.exit
    BY <1>1, <2>1 DEF Document
  <2>4. Plain(e) BY <1>2, <2>3 DEF Plain
  <2>5. b.at = "open" /\ b.exit = "no" BY <1>2, <1>6 DEF Belongs
  <2>6. DocumentIsConsistent(e)
    BY <1>4, <2>3, <2>4, <2>5, PlainIsConsistent
  <2> QED BY <1>1, <2>2, <2>3, <2>5, <2>6 DEF SameBut, e, b, w
<1> QED BY <1>2, <1>5, <1>6 DEF DraftSaves

KeptWith(ds, d, r) == \E x : r = Retained(ds \cup {d}, x)

\* An explicit draft moves the baseline along; any other leaves the explicit
\* drafts to be those of the baseline.
LEMMA DraftingKeepsSavedWork ==
    ASSUME NEW cp \in Checkpoint, NEW ds \in SUBSET Draft, NEW d \in Draft,
           NEW r, KeptWith(ds, d, r)
    PROVE  /\ r \in SUBSET Draft
           /\ d.reason # "manual" => Manual(r) \subseteq Manual(ds)
           /\ AdvanceBaseline(cp, d, r) \in Checkpoint
           /\ AdvanceBaseline(cp, d, r).owner = cp.owner
           /\ AdvanceBaseline(cp, d, r).project = d.version
           /\ AdvanceBaseline(cp, d, r).drafts = Manual(r)
<1>1. r \subseteq ds \cup {d} BY RetainedIsSubset DEF KeptWith
<1>2. r \in SUBSET Draft /\ Manual(r) \in SUBSET Draft BY <1>1 DEF Manual
<1>3. d.reason # "manual" => Manual(r) \subseteq Manual(ds) BY <1>1 DEF Manual
<1>4. cp # None /\ d.version \in Versions BY NoneAssumption DEF Draft
<1>5. AdvanceBaseline(cp, d, r) = [cp EXCEPT !.project = d.version, !.drafts = Manual(r)]
  BY <1>4 DEF AdvanceBaseline
<1>6. AdvanceBaseline(cp, d, r) \in Checkpoint BY <1>2, <1>4, <1>5 DEF Checkpoint
<1>7. /\ AdvanceBaseline(cp, d, r).owner = cp.owner
      /\ AdvanceBaseline(cp, d, r).project = d.version
      /\ AdvanceBaseline(cp, d, r).drafts = Manual(r)
  BY <1>5 DEF Checkpoint
<1> QED BY <1>2, <1>3, <1>6, <1>7

LEMMA CommitDraftStep ==
    ASSUME EditingInvariant, NEW t \in Tabs, CommitDraft(t)
    PROVE  EditingInvariant'
<1> DEFINE e == AfterDraft(Popped(doc[t]), Head(doc[t].queue))
<1>1. doc[t].queue # <<>> BY DEF CommitDraft, Running
<1>2. /\ doc[t] \in Document /\ DocumentIsConsistent(doc[t])
      /\ Head1(t).version \in Versions /\ Head1(t).tag \in DraftSaves
      /\ lock[doc[t].project] = t /\ session[t] \in Session
      /\ doc[t].at # "left" => Owns(t)
  BY <1>1, HeadFacts DEF CommitDraft, Write
<1>3. PICK p \in Projects : p = doc[t].project BY <1>1, HeadFacts
<1>4. PICK v \in Versions : v = Head1(t).version BY <1>2
<1>5. /\ e \in Document /\ DocumentIsConsistent(e) /\ e.project = p /\ e.at = "open"
      /\ doc[t].at = "open"
      /\ e.exit \in {"close", "commit"} => Head1(t).tag = "seal" /\ e.mem = v
  BY <1>1, <1>2, <1>3, <1>4, DraftedDocument DEF Head1
<1>6. doc' = [doc EXCEPT ![t] = e] /\ stored' = [stored EXCEPT ![p] = v]
      /\ UNCHANGED <<lock, session, tick, sessions>>
  BY <1>3, <1>4 DEF CommitDraft, Becomes, Head1
<1> HIDE DEF e
<1>7. /\ checkpoint[p] \in Checkpoint /\ checkpoint[p] # None
      /\ checkpoint[p].owner = session[t].id /\ drafts[p] \in SUBSET Draft
  BY <1>2, <1>3, <1>5, DocumentFacts DEF Owns, SharedTypes
<1>8. PICK d \in Draft, r \in SUBSET Draft :
        /\ d.version = v /\ KeptWith(drafts[p], d, r)
        /\ drafts' = [drafts EXCEPT ![p] = r]
        /\ \/ /\ checkpoint' = [checkpoint EXCEPT
                                   ![p] = AdvanceBaseline(checkpoint[p], d, r)]
              /\ explicit' = [explicit EXCEPT ![p] = v]
           \/ d.reason = "auto" /\ UNCHANGED <<checkpoint, explicit>>
  <2>1. PICK now \in Times, i \in NewIds(p) :
          LET d == [id |-> i, version |-> v, at |-> now,
                    reason |-> IF Head1(t).tag # "auto" THEN "manual" ELSE "auto"]
              r == Retained(drafts[p] \cup {d}, {d.id})
          IN  /\ drafts' = [drafts EXCEPT ![p] = r]
              /\ checkpoint' = IF Head1(t).tag # "auto"
                    THEN [checkpoint EXCEPT ![p] = AdvanceBaseline(checkpoint[p], d, r)]
                    ELSE checkpoint
    BY <1>3, <1>4, <1>7 DEF CommitDraft
  <2> DEFINE d == [id |-> i, version |-> v, at |-> now,
                   reason |-> IF Head1(t).tag # "auto" THEN "manual" ELSE "auto"]
             r == Retained(drafts[p] \cup {d}, {d.id})
  <2>2. i \in DraftIds BY DEF NewIds
  <2>3. d \in Draft /\ d.version = v /\ (Head1(t).tag = "auto" => d.reason = "auto")
    BY <2>2 DEF Draft
  <2>4. explicit' = IF Head1(t).tag # "auto" THEN [explicit EXCEPT ![p] = v] ELSE explicit
    BY <1>3, <1>4 DEF CommitDraft
  <2>5. /\ drafts' = [drafts EXCEPT ![p] = r]
        /\ checkpoint' = IF Head1(t).tag # "auto"
              THEN [checkpoint EXCEPT ![p] = AdvanceBaseline(checkpoint[p], d, r)]
              ELSE checkpoint
    BY <2>1
  <2>6. KeptWith(drafts[p], d, r) BY DEF KeptWith
  <2>7. r \subseteq drafts[p] \cup {d} BY RetainedIsSubset
  <2> HIDE DEF d, r
  <2> QED BY <1>7, <2>3, <2>4, <2>5, <2>6, <2>7
<1>9. /\ r \in SUBSET Draft
      /\ d.reason # "manual" => Manual(r) \subseteq Manual(drafts[p])
      /\ AdvanceBaseline(checkpoint[p], d, r) \in Checkpoint
      /\ AdvanceBaseline(checkpoint[p], d, r).owner = checkpoint[p].owner
      /\ AdvanceBaseline(checkpoint[p], d, r).project = d.version
      /\ AdvanceBaseline(checkpoint[p], d, r).drafts = Manual(r)
  BY <1>7, <1>8, DraftingKeepsSavedWork
<1>10. PICK a \in Checkpoint :
        /\ a = AdvanceBaseline(checkpoint[p], d, r) /\ a.owner = session[t].id
        /\ a.project = v /\ a.drafts = Manual(r) /\ a # None
  BY <1>7, <1>8, <1>9, NoneAssumption
<1>11. /\ stored'[p] = v /\ drafts'[p] = r
       /\ \/ checkpoint'[p] = a /\ explicit'[p] = v
          \/ /\ checkpoint'[p] = checkpoint[p] /\ explicit'[p] = explicit[p]
             /\ d.reason = "auto"
  BY <1>6, <1>8, <1>10, DocumentFacts DEF SharedTypes
<1>12. SavedWorkIsKept(p)'
  <2>1. CASE checkpoint'[p] = a /\ explicit'[p] = v
    BY <1>10, <1>11, <2>1 DEF SavedWorkIsKept
  <2>2. CASE checkpoint'[p] = checkpoint[p] /\ explicit'[p] = explicit[p]
             /\ d.reason = "auto"
    BY <1>7, <1>9, <1>11, <2>2 DEF EditingInvariant, SavedWorkIsKept
  <2> QED BY <1>11, <2>1, <2>2
<1>13. SharedTypes' BY <1>6, <1>8, <1>9, <1>10, DocumentFacts DEF SharedTypes
<1>14. checkpoint'[p] # None /\ checkpoint'[p].owner = session'[t].id
  BY <1>6, <1>7, <1>10, <1>11
<1>15. \A q \in Projects \ {p} : /\ checkpoint'[q] = checkpoint[q]
                                 /\ explicit'[q] = explicit[q]
                                 /\ stored'[q] = stored[q]
                                 /\ drafts'[q] = drafts[q]
  BY <1>6, <1>8, DocumentFacts DEF SharedTypes
<1>16. /\ lock[p] = t /\ session'[t] # None /\ UNCHANGED <<lock, sessions>>
       /\ tick' \in Versions /\ \A s \in Tabs \ {t} : session'[s] = session[s]
  BY <1>2, <1>3, <1>6, NoneAssumption, DocumentFacts
<1>17. e.at \notin {"off", "start", "gate", "begin"} /\ e.at # "left" BY <1>5
<1>18. e.exit \in {"close", "commit"} => explicit'[p] = e.mem
  <2> SUFFICES ASSUME e.exit \in {"close", "commit"} PROVE explicit'[p] = e.mem
    OBVIOUS
  <2>1. Head1(t).tag # "auto" /\ e.mem = v BY <1>5
  <2>2. explicit' = [explicit EXCEPT ![p] = v] BY <1>3, <1>4, <2>1 DEF CommitDraft
  <2> QED BY <2>1, <2>2, DocumentFacts DEF SharedTypes
<1> QED BY <1>5, <1>6, <1>12, <1>13, <1>14, <1>15, <1>16, <1>17, <1>18, CommittingStep

RestoredAs(d, e, v) ==
    /\ e.at = d.at /\ e.project = d.project /\ e.mem = v /\ e.exit = d.exit
    /\ e.queue = d.queue

LEMMA RestoredDocument ==
    ASSUME NEW b \in Document, NEW v \in Versions, NEW x \in Versions \cup {None}, NEW e,
           e = [b EXCEPT !.mem = v, !.drafting = FALSE, !.chosen = None, !.drafted = x]
    PROVE  e \in Document /\ RestoredAs(b, e, v)
<1>1. e \in Document BY DEF Document
<1>2. RestoredAs(b, e, v) BY DEF Document, RestoredAs
<1> QED BY <1>1, <1>2

LEMMA CommitRestoreStep ==
    ASSUME EditingInvariant, NEW t \in Tabs, CommitRestore(t)
    PROVE  EditingInvariant'
<1> DEFINE b == Popped(doc[t])
           x == IF b.drafted = doc[t].mem THEN tick + 1 ELSE b.drafted
           e == [b EXCEPT !.mem = tick + 1, !.drafting = FALSE, !.chosen = None,
                          !.drafted = x]
<1>1. doc[t].queue # <<>> BY DEF CommitRestore, Running
<1>2. /\ doc[t] \in Document /\ DocumentIsConsistent(doc[t])
      /\ Head1(t).version \in Versions /\ Head1(t).tag = "restore"
      /\ Belongs("restore", doc[t])
      /\ lock[doc[t].project] = t /\ session[t] \in Session
      /\ doc[t].at # "left" => Owns(t)
  BY <1>1, HeadFacts DEF CommitRestore, Write
<1>3. PICK p \in Projects : p = doc[t].project BY <1>1, HeadFacts
<1>4. PICK v \in Versions : v = tick + 1 /\ tick' = v
  <2>1. tick + 1 \in Versions
    BY DocumentFacts, LimitAssumption DEF CommitRestore, Versions
  <2> QED BY <2>1 DEF CommitRestore
<1>5. doc' = [doc EXCEPT ![t] = e] /\ stored' = [stored EXCEPT ![p] = v]
      /\ UNCHANGED <<checkpoint, explicit, lock, session, sessions>>
  BY <1>3, <1>4 DEF CommitRestore, Becomes
<1>6. /\ b \in Document /\ SameBut(doc[t], b) /\ Plain(b)
  BY <1>1, <1>2, PoppedDocument, PoppedIsConsistent DEF Head1
<1>7. x \in Versions \cup {None} BY <1>4, <1>6 DEF Document
<1> HIDE DEF x, b
<1>8. e \in Document /\ RestoredAs(b, e, v) BY <1>4, <1>6, <1>7, RestoredDocument
<1> HIDE DEF e
<1>9. e.at = "open" /\ e.exit = "no" /\ e.mem # None /\ e.project = p
  BY <1>2, <1>3, <1>6, <1>8, NoneAssumption DEF Belongs, RestoredAs, SameBut
<1>10. Plain(e) BY <1>6, <1>8 DEF Plain, RestoredAs
<1>11. DocumentIsConsistent(e) BY <1>9, <1>10, PlainIsConsistent
<1>12. /\ checkpoint[p] # None /\ checkpoint[p].owner = session[t].id
       /\ drafts[p] \in SUBSET Draft
  BY <1>2, <1>3, DocumentFacts DEF Owns, SharedTypes, Belongs
<1>13. PICK r \in SUBSET Draft :
         /\ drafts' = [drafts EXCEPT ![p] = r]
         /\ Manual(r) \subseteq Manual(drafts[p])
  <2>1. PICK now \in Times, i \in NewIds(p) :
          LET pre == [id |-> i, version |-> Head1(t).version, at |-> now,
                      reason |-> "pre-restore"]
          IN  drafts' = [drafts EXCEPT ![p] =
                  Retained(drafts[p] \cup {pre}, {pre.id, doc[t].chosen.id})]
    BY <1>3, DocumentFacts DEF CommitRestore, SharedTypes
  <2> DEFINE pre == [id |-> i, version |-> Head1(t).version, at |-> now,
                     reason |-> "pre-restore"]
             r == Retained(drafts[p] \cup {pre}, {pre.id, doc[t].chosen.id})
  <2>2. i \in DraftIds BY DEF NewIds
  <2>3. pre \in Draft /\ pre.reason # "manual" BY <1>2, <2>2 DEF Draft
  <2>4. drafts' = [drafts EXCEPT ![p] = r] BY <2>1
  <2>5. r \subseteq drafts[p] \cup {pre} BY RetainedIsSubset
  <2> HIDE DEF pre, r
  <2>6. r \in SUBSET Draft BY <1>12, <2>3, <2>5
  <2>7. Manual(r) \subseteq Manual(drafts[p]) BY <2>3, <2>5 DEF Manual
  <2> QED BY <2>4, <2>6, <2>7
<1>14. SharedTypes' BY <1>5, <1>13, DocumentFacts DEF SharedTypes
<1>15. drafts'[p] = r BY <1>13, DocumentFacts DEF SharedTypes
<1>16. SavedWorkIsKept(p)'
  BY <1>5, <1>12, <1>13, <1>15 DEF EditingInvariant, SavedWorkIsKept
<1>17. \A q \in Projects \ {p} : /\ checkpoint'[q] = checkpoint[q]
                                 /\ explicit'[q] = explicit[q]
                                 /\ stored'[q] = stored[q]
                                 /\ drafts'[q] = drafts[q]
  BY <1>5, <1>13, DocumentFacts DEF SharedTypes
<1>18. /\ lock[p] = t /\ session'[t] # None /\ UNCHANGED <<lock, sessions>>
       /\ tick' \in Versions /\ \A s \in Tabs \ {t} : session'[s] = session[s]
  BY <1>2, <1>3, <1>4, <1>5, NoneAssumption
<1>19. e.at \notin {"off", "start", "gate", "begin"} /\ e.at # "left" BY <1>9
<1>20. checkpoint'[p] # None /\ checkpoint'[p].owner = session'[t].id BY <1>5, <1>12
<1> QED BY <1>5, <1>8, <1>9, <1>11, <1>14, <1>16, <1>17, <1>18, <1>19, <1>20,
           CommittingStep

-----------------------------------------------------------------------------
(* Leaving *)

\* The document after a step of the exit: only flags of the exit have changed.
Turns(d, e, at, exit, completed) ==
    e = [d EXCEPT !.at = at, !.exit = exit, !.completed = completed]

Turned(d, e, at, exit, completed) ==
    /\ e.at = at /\ e.exit = exit /\ e.completed = completed
    /\ e.project = d.project /\ e.mem = d.mem /\ e.queue = d.queue /\ e.final = d.final

LEMMA TurnedDocument ==
    ASSUME NEW d \in Document, NEW at \in {"open", "left"},
           NEW exit \in {"no", "drain", "discard", "commit"}, NEW completed \in BOOLEAN,
           NEW e, Turns(d, e, at, exit, completed)
    PROVE  e \in Document /\ Turned(d, e, at, exit, completed)
<1>1. e \in Document BY DEF Document, Turns
<1>2. Turned(d, e, at, exit, completed) BY DEF Document, Turns, Turned
<1> QED BY <1>1, <1>2

\* An exit that seals, drains or fails stays in the document.
LEMMA ExitSteps ==
    ASSUME EditingInvariant, NEW t \in Tabs,
           ExitSeals(t) \/ DiscardAndExit(t) \/ ExitDrained(t) \/ ExitFails(t)
    PROVE  EditingInvariant'
<1>1. /\ doc[t] \in Document /\ DocumentIsConsistent(doc[t])
      /\ doc[t].at = "open" /\ doc[t].mem # None /\ Plain(doc[t])
  <2>1. /\ doc[t].at = "open" /\ doc[t].exit \notin {"flush", "seal"}
        /\ doc[t].exit = "no" => ~doc[t].drafting
    BY DocumentFacts DEF ExitSeals, DiscardAndExit, ExitDrained, ExitFails, Editable,
                         DocumentIsConsistent
  <2> QED BY <2>1, DocumentFacts, QuietQueueIsPlain DEF DocumentIsConsistent
<1>2. /\ doc' = [doc EXCEPT ![t] = doc'[t]]
      /\ UNCHANGED <<store, lock, session, sessions>> /\ tick' \in Versions
  BY DocumentFacts
  DEF ExitSeals, DiscardAndExit, ExitDrained, ExitFails, Becomes, Page
<1>3. PICK d \in Document, exit \in {"no", "drain", "discard", "commit"},
           completed \in BOOLEAN :
        /\ Turned(doc[t], d, "open", exit, completed)
        /\ exit # "no" => completed
        /\ exit = "commit" => doc[t].exit = "close"
        /\ exit = "discard" => doc[t].queue = <<>>
        /\ doc'[t] = d \/ doc'[t] = GenerationAdvanced(d)
  <2>1. CASE ExitSeals(t)
    <3> DEFINE d == [doc[t] EXCEPT !.completed = TRUE, !.exit = "commit"]
    <3>1. Turns(doc[t], d, "open", "commit", TRUE) BY <1>1 DEF Turns, Document
    <3>2. doc'[t] = GenerationAdvanced(d) /\ doc[t].exit = "close"
      BY <2>1, DocumentFacts DEF ExitSeals, Becomes
    <3> HIDE DEF d
    <3> QED BY <1>1, <3>1, <3>2, TurnedDocument
  <2>2. CASE DiscardAndExit(t)
    <3>1. Turns(doc[t], doc'[t], "open", "drain", TRUE)
      BY <1>1, <2>2, DocumentFacts DEF DiscardAndExit, Turns, Document
    <3> QED BY <1>1, <3>1, TurnedDocument
  <2>3. CASE ExitDrained(t)
    <3> DEFINE d == [doc[t] EXCEPT !.exit = "discard"]
    <3>1. /\ doc'[t] = GenerationAdvanced(d) /\ doc[t].exit = "drain"
          /\ doc[t].queue = <<>>
      BY <2>3, DocumentFacts DEF ExitDrained, Becomes
    <3>2. doc[t].completed = TRUE
      BY <1>1, <3>1 DEF DocumentIsConsistent, Document
    <3>3. Turns(doc[t], d, "open", "discard", TRUE) BY <1>1, <3>2 DEF Turns, Document
    <3> HIDE DEF d
    <3> QED BY <1>1, <3>1, <3>3, TurnedDocument
  <2>4. CASE ExitFails(t)
    <3>1. Turns(doc[t], doc'[t], "open", "no", FALSE)
      BY <1>1, <2>4, DocumentFacts DEF ExitFails, Turns, Document
    <3> QED BY <1>1, <3>1, TurnedDocument
  <2> QED BY <2>1, <2>2, <2>3, <2>4
<1>4. DocumentIsConsistent(d)
  <2>1. Plain(d) BY <1>1, <1>3 DEF Plain, Turned
  <2>2. exit = "commit" => /\ d.final = d.mem
                           /\ \A i \in DOMAIN d.queue : d.queue[i].version = d.mem
    BY <1>1, <1>3 DEF DocumentIsConsistent, Turned
  <2> QED BY <1>1, <1>3, <2>1, <2>2, PlainIsConsistent DEF Turned
<1>5. /\ GenerationAdvanced(d) \in Document /\ DocumentIsConsistent(GenerationAdvanced(d))
      /\ SameBut(d, GenerationAdvanced(d))
  <2>1. SameBut(d, GenerationAdvanced(d)) BY DEF GenerationAdvanced, SameBut, Document
  <2> QED BY <1>4, <2>1, AdvancedIsConsistent
<1>6. /\ doc'[t] \in Document /\ DocumentIsConsistent(doc'[t])
      /\ doc'[t].at = "open" /\ doc'[t].project = doc[t].project
      /\ doc'[t].exit \in {"close", "commit"} => /\ doc[t].exit \in {"close", "commit"}
                                                 /\ doc'[t].mem = doc[t].mem
  BY <1>3, <1>4, <1>5 DEF SameBut, Turned
<1> QED BY <1>1, <1>2, <1>6, PageStep

\* The transaction that ends the edit: the project is what was saved, and
\* whatever is still queued says the same.
LEMMA EndingSteps ==
    ASSUME EditingInvariant, NEW t \in Tabs, CommitCheckpoint(t) \/ DiscardSession(t)
    PROVE  EditingInvariant'
<1>1. /\ doc[t] \in Document /\ DocumentIsConsistent(doc[t]) /\ DocumentIsCovered(t)
      /\ doc[t].exit \in {"commit", "discard"} /\ Owns(t)
  BY DocumentFacts DEF CommitCheckpoint, DiscardSession
<1>2. /\ doc[t].at = "open" /\ doc[t].mem # None /\ Plain(doc[t]) /\ doc[t].completed = TRUE
  BY <1>1, QuietQueueIsPlain DEF DocumentIsConsistent, Document
<1>3. PICK p \in Projects : p = doc[t].project
  BY <1>1, <1>2 DEF DocumentIsCovered, Document
<1>4. lock[p] = t /\ session[t] # None /\ checkpoint[p] # None
  BY <1>1, <1>2, <1>3 DEF DocumentIsCovered, Begun, Owns
<1>5. /\ doc' = [doc EXCEPT ![t] = doc'[t]] /\ Turns(doc[t], doc'[t], "left", "no", TRUE)
      /\ UNCHANGED <<lock, session, tick, sessions>>
  <2>1. doc' = [doc EXCEPT ![t].at = "left", ![t].exit = "no"]
        /\ UNCHANGED <<lock, session, tick, sessions>>
    BY DEF CommitCheckpoint, DiscardSession
  <2>2. doc' = [doc EXCEPT ![t] = doc'[t]] BY <2>1, DocumentFacts
  <2>3. doc'[t] = [doc[t] EXCEPT !.at = "left", !.exit = "no"] BY <2>1, DocumentFacts
  <2>4. Turns(doc[t], doc'[t], "left", "no", TRUE)
    BY <1>1, <1>2, <2>3 DEF Turns, Document
  <2> QED BY <2>1, <2>2, <2>4
<1>6. doc'[t] \in Document /\ Turned(doc[t], doc'[t], "left", "no", TRUE)
  BY <1>1, <1>5, TurnedDocument
<1>7. Plain(doc'[t]) BY <1>2, <1>6 DEF Plain, Turned
<1>8. DocumentIsConsistent(doc'[t])
  BY <1>2, <1>6, <1>7, PlainIsConsistent DEF Turned
<1>9. /\ SharedTypes' /\ SavedWorkIsKept(p)' /\ checkpoint'[p] = None
      /\ \A q \in Projects \ {p} : /\ checkpoint'[q] = checkpoint[q]
                                   /\ explicit'[q] = explicit[q]
                                   /\ stored'[q] = stored[q]
                                   /\ drafts'[q] = drafts[q]
      /\ \A i \in DOMAIN doc[t].queue : doc[t].queue[i].version = explicit'[p]
  <2>1. CASE CommitCheckpoint(t)
    <3>1. /\ doc[t].exit = "commit" /\ stored' = [stored EXCEPT ![p] = doc[t].final]
          /\ checkpoint' = [checkpoint EXCEPT ![p] = None]
          /\ explicit' = [explicit EXCEPT ![p] = doc[t].final]
          /\ UNCHANGED <<drafts, lock, session>>
      BY <1>3, <2>1 DEF CommitCheckpoint
    <3>2. /\ doc[t].final = doc[t].mem /\ doc[t].final \in Versions
          /\ \A i \in DOMAIN doc[t].queue : doc[t].queue[i].version = doc[t].final
      BY <1>1, <1>2, <3>1 DEF DocumentIsConsistent, Document
    <3>3. PICK v \in Versions : v = doc[t].final BY <3>2
    <3>4. /\ stored'[p] = v /\ explicit'[p] = v /\ checkpoint'[p] = None
      BY <3>1, <3>3, DocumentFacts DEF SharedTypes
    <3>5. SavedWorkIsKept(p)' BY <3>4 DEF SavedWorkIsKept
    <3>6. SharedTypes' BY <3>1, <3>3, DocumentFacts DEF SharedTypes
    <3>7. \A q \in Projects \ {p} : /\ checkpoint'[q] = checkpoint[q]
                                    /\ explicit'[q] = explicit[q]
                                    /\ stored'[q] = stored[q]
                                    /\ drafts'[q] = drafts[q]
      BY <3>1, DocumentFacts DEF SharedTypes
    <3> QED BY <3>2, <3>3, <3>4, <3>5, <3>6, <3>7
  <2>2. CASE DiscardSession(t)
    <3>1. DiscardCheckpoint(p) /\ doc[t].exit = "discard" BY <1>3, <2>2 DEF DiscardSession
    <3>2. DOMAIN doc[t].queue = {} BY <1>1, <3>1 DEF DocumentIsConsistent
    <3> QED BY <1>4, <1>5, <3>1, <3>2, DiscardingKeepsSavedWork, DocumentFacts DEF SharedTypes
  <2> QED BY <2>1, <2>2
<1>10. \A i \in DOMAIN doc'[t].queue : doc'[t].queue[i].version = explicit'[p]
  BY <1>6, <1>9 DEF Turned
<1>11. /\ doc'[t].at = "left" /\ doc'[t].project = p /\ doc'[t].exit = "no"
       /\ doc'[t].at \notin {"off", "start", "gate", "begin"}
  BY <1>3, <1>6 DEF Turned
<1>12. /\ session'[t] # None /\ \A s \in Tabs \ {t} : session'[s] = session[s]
       /\ tick' \in Versions /\ UNCHANGED <<lock, sessions>>
  BY <1>4, <1>5, DocumentFacts
<1> QED BY <1>4, <1>5, <1>6, <1>8, <1>9, <1>10, <1>11, <1>12, CommittingStep

\* A tab that is closed, crashes or has left releases what it holds.
LEMMA ClosingSteps ==
    ASSUME EditingInvariant, NEW t \in Tabs, Leave(t) \/ Close(t)
    PROVE  EditingInvariant'
<1> DEFINE P == {p \in Projects : lock[p] = t}
<1>1. /\ doc' = [doc EXCEPT ![t] = Off] /\ lock' = Released(t)
      /\ UNCHANGED <<store, tick, sessions>>
      /\ session' = session \/ session' = [session EXCEPT ![t] = None]
  BY DEF Leave, Close, Becomes
<1>2. /\ lock' \in [Projects -> Tabs \cup {None}]
      /\ \A q \in Projects \ P : lock'[q] = lock[q]
  BY <1>1, DocumentFacts DEF SharedTypes, Released
<1>3. SharedTypes' /\ \A s \in Tabs \ {t} : session'[s] = session[s]
  BY <1>1, <1>2, DocumentFacts DEF SharedTypes, store
<1>4. Frame(P, t) BY <1>1, <1>2, <1>3 DEF Frame, store
<1>5. \A q \in P : SavedWorkIsKept(q)'
  BY <1>1 DEF EditingInvariant, SavedWorkIsKept, store
<1> HIDE DEF P
<1>6. doc'[t] = Off BY <1>1, DocumentFacts
<1>7. DocumentIsCovered(t)' BY <1>6 DEF DocumentIsCovered, Off, Begun
<1>8. tick' \in Versions /\ sessions' \in 0..SessionLimit BY <1>1, DocumentFacts
<1> QED BY <1>1, <1>3, <1>4, <1>5, <1>7, <1>8, OffIsDocument, Assemble

LEMMA ReloadStep ==
    ASSUME EditingInvariant, NEW t \in Tabs, Reload(t)
    PROVE  EditingInvariant'
<1>1. session[t] \in Session /\ session[t] # None
  BY DocumentFacts DEF Reload, SharedTypes
<1>2. PICK p \in Projects : p = session[t].project BY <1>1 DEF Session
<1> DEFINE e == [Off EXCEPT !.at = "gate", !.project = p]
<1>3. doc' = [doc EXCEPT ![t] = e] /\ UNCHANGED <<store, lock, session, tick, sessions>>
  BY <1>2 DEF Reload, Becomes, Page
<1>4. e \in Document BY <1>2, OffIsDocument DEF Document
<1>5. e.at = "gate" /\ e.project = p /\ Empty(e) BY OffIsDocument DEF Off, Empty, Early
<1> HIDE DEF e
<1>6. doc'[t] = e /\ DocumentIsConsistent(e)
  BY <1>3, <1>5, DocumentFacts, EmptyIsConsistent
<1>7. DocumentIsCovered(t)'
  BY <1>1, <1>3, <1>5, <1>6, NoneAssumption DEF DocumentIsCovered, Begun, Empty
<1>8. /\ tick' \in Versions /\ sessions' \in 0..SessionLimit
      /\ session' \in [Tabs -> Session \cup {None}]
      /\ \A s \in Tabs \ {t} : session'[s] = session[s]
  BY <1>3, DocumentFacts DEF SharedTypes
<1> QED BY <1>3, <1>4, <1>6, <1>7, <1>8, LocalStep

-----------------------------------------------------------------------------
(* The theorems *)

LEMMA InitEstablishesEditing == Init => EditingInvariant
<1> SUFFICES ASSUME Init PROVE EditingInvariant
  OBVIOUS
<1>1. 0 \in Versions /\ 0 \in 0..SessionLimit BY LimitAssumption DEF Versions
<1>2. TypeOK BY <1>1, OffIsDocument DEF Init, TypeOK
<1>3. ASSUME NEW t \in Tabs
      PROVE  DocumentIsConsistent(doc[t]) /\ DocumentIsCovered(t)
  <2>1. doc[t] = Off BY DEF Init
  <2> QED BY <2>1, OffIsDocument DEF DocumentIsCovered, Begun, Off
<1>4. \A p \in Projects : SavedWorkIsKept(p) BY DEF Init, SavedWorkIsKept
<1> QED BY <1>2, <1>3, <1>4 DEF EditingInvariant

LEMMA StutteringKeepsEditing ==
    ASSUME EditingInvariant, UNCHANGED vars
    PROVE  EditingInvariant'
<1>1. TypeOK' BY DEF EditingInvariant, TypeOK, vars
<1>2. \A t \in Tabs : DocumentIsConsistent(doc'[t]) BY DEF EditingInvariant, vars
<1>3. \A t \in Tabs : DocumentIsCovered(t)'
  BY DEF EditingInvariant, DocumentIsCovered, Begun, Owns, vars
<1>4. \A p \in Projects : SavedWorkIsKept(p)'
  BY DEF EditingInvariant, SavedWorkIsKept, vars
<1> QED BY <1>1, <1>2, <1>3, <1>4 DEF EditingInvariant

LEMMA NextKeepsEditing == EditingInvariant /\ [Next]_vars => EditingInvariant'
<1> SUFFICES ASSUME EditingInvariant, [Next]_vars PROVE EditingInvariant'
  OBVIOUS
<1>1. CASE UNCHANGED vars BY <1>1, StutteringKeepsEditing
<1>2. ASSUME NEW t \in Tabs,
             \/ StartPage(t) \/ Refresh(t) \/ OpenRefused(t) \/ EnterEditor(t)
             \/ \E p \in Projects, fresh \in BOOLEAN : RequestOpen(t, p, fresh)
             \/ Cleaning(t)
             \/ \E p \in Projects : DeleteProject(t, p)
             \/ DeleteAll(t)
      PROVE  EditingInvariant'
  BY <1>2, StartPageSteps, EnterEditorStep, AcquireAbandonedStep, RollBackStep, DeleteSteps
  DEF Cleaning
<1>3. ASSUME NEW t \in Tabs,
             \/ AcquireWriter(t) \/ WriterRefused(t)
             \/ BeginCheckpoint(t) \/ BeginFails(t)
             \/ LoadProject(t) \/ EntryRefused(t)
      PROVE  EditingInvariant'
  BY <1>3, AcquireWriterStep, RefusedStep, BeginCheckpointStep, LoadProjectStep
<1>4. ASSUME NEW t \in Tabs,
             \/ Edit(t) \/ Flush(t) \/ ManualSave(t) \/ AutoSave(t) \/ Restore(t)
             \/ Writing(t)
      PROVE  EditingInvariant'
  BY <1>4, EditStep, FlushStep, RequestSteps, StartWriteStep, FailedWriteSteps,
     CommitSaveStep, CommitDraftStep, CommitRestoreStep
  DEF Writing
<1>5. ASSUME NEW t \in Tabs,
             \/ SaveAndExit(t) \/ DiscardAndExit(t) \/ Exiting(t)
             \/ Leave(t) \/ Close(t) \/ Reload(t)
      PROVE  EditingInvariant'
  BY <1>5, RequestSteps, ExitSteps, EndingSteps, ClosingSteps, ReloadStep DEF Exiting
<1> QED BY <1>1, <1>2, <1>3, <1>4, <1>5 DEF Next

\* The inductive invariant holds: what every tab, lease, checkpoint and queued
\* write may rely on, through all interleavings, failures, crashes and reloads.
THEOREM EditingInvariantHolds == Spec => []EditingInvariant
<1> QED BY InitEstablishesEditing, NextKeepsEditing, PTL DEF Spec

\* Type correctness.
THEOREM EditingTypes == Spec => []TypeOK
<1>1. EditingInvariant => TypeOK BY DEF EditingInvariant
<1> QED BY <1>1, EditingInvariantHolds, PTL

\* An editor that has begun has the lease of its project and its own checkpoint.
THEOREM OpenEditorsOwnTheirCheckpoints == Spec => []OpenEditorOwnsItsCheckpoint
<1>1. EditingInvariant => OpenEditorOwnsItsCheckpoint
  BY DEF EditingInvariant, DocumentIsCovered, Begun, OpenEditorOwnsItsCheckpoint
<1> QED BY <1>1, EditingInvariantHolds, PTL

\* What the user last saved is what a rollback brings back, or what is stored.
THEOREM SavedWorkSurvives == Spec => []LastSaveSurvives
<1>1. EditingInvariant => LastSaveSurvives
  <2> SUFFICES ASSUME EditingInvariant, NEW p \in Projects
               PROVE  explicit[p] = IF checkpoint[p] = None THEN stored[p]
                                    ELSE RolledBackProject(checkpoint[p], drafts[p])
    BY DEF LastSaveSurvives
  <2>1. SavedWorkIsKept(p) BY DEF EditingInvariant
  <2> QED BY <2>1, RollbackKeepsBaseline DEF SavedWorkIsKept
<1> QED BY <1>1, EditingInvariantHolds, PTL

-----------------------------------------------------------------------------
(* Exits *)

\* A document that is open leaves only by ending its edit.
LEMMA OnlyEndingLeaves ==
    ASSUME EditingInvariant, Next, NEW s \in Tabs,
           doc[s].at = "open", doc'[s].at = "left"
    PROVE  CommitCheckpoint(s) \/ DiscardSession(s)
<1>1. doc \in [Tabs -> Document] /\ doc[s] \in Document BY DocumentFacts
<1>2. ASSUME NEW t \in Tabs,
             \/ StartPage(t) \/ Refresh(t) \/ OpenRefused(t) \/ EnterEditor(t)
             \/ \E p \in Projects, fresh \in BOOLEAN : RequestOpen(t, p, fresh)
             \/ Cleaning(t)
             \/ \E p \in Projects : DeleteProject(t, p)
             \/ DeleteAll(t)
      PROVE  FALSE
  <2>1. doc[t].at \in {"off", "start"} /\ \A u \in Tabs \ {t} : doc'[u] = doc[u]
    BY <1>1, <1>2
    DEF StartPage, Refresh, OpenRefused, EnterEditor, RequestOpen, Cleaning, Settled,
        AcquireAbandoned, SkipOwned, RollBack, RollBackFails, DeleteProject, DeleteAll
  <2> QED BY <2>1
<1>3. ASSUME NEW t \in Tabs,
             \/ AcquireWriter(t) \/ WriterRefused(t)
             \/ BeginCheckpoint(t) \/ BeginFails(t)
             \/ LoadProject(t) \/ EntryRefused(t) \/ Leave(t) \/ Reload(t)
      PROVE  FALSE
  <2>1. /\ doc[t].at \in {"gate", "begin", "load", "off", "left"}
        /\ \A u \in Tabs \ {t} : doc'[u] = doc[u]
    BY <1>1, <1>3
    DEF AcquireWriter, WriterRefused, BeginCheckpoint, BeginFails, LoadProject,
        EntryRefused, Leave, Reload, Fails, Becomes
  <2> QED BY <2>1
<1>4. ASSUME NEW t \in Tabs, Close(t) PROVE FALSE
  BY <1>1, <1>4 DEF Close, Becomes, Off
<1>5. ASSUME NEW t \in Tabs,
             \/ Edit(t) \/ Flush(t) \/ ManualSave(t) \/ AutoSave(t) \/ Restore(t)
             \/ StartWrite(t) \/ SaveAndExit(t) \/ DiscardAndExit(t)
             \/ ExitIdle(t) \/ ExitSeals(t) \/ ExitDrained(t) \/ ExitFails(t)
      PROVE  FALSE
  <2>1. doc' = [doc EXCEPT ![t] = doc'[t]]
    BY <1>1, <1>5
    DEF Edit, Flush, ManualSave, AutoSave, Restore, StartWrite, SaveAndExit,
        DiscardAndExit, ExitIdle, ExitSeals, ExitDrained, ExitFails, Becomes
  <2>2. doc'[t].at = doc[t].at
    <3> USE DEF Becomes, Document
    <3>1. CASE Edit(t)
      <4>1. doc'[t] = SnapshotEnqueued([doc[t] EXCEPT !.mem = tick + 1], "snapshot")
        BY <1>1, <3>1 DEF Edit
      <4> QED BY <1>1, <4>1 DEF SnapshotEnqueued, Enqueued
    <3>2. CASE Flush(t) BY <1>1, <3>2 DEF Flush, SnapshotEnqueued, Enqueued
    <3>3. CASE SaveAndExit(t)
      <4>1. doc'[t] = SnapshotEnqueued([doc[t] EXCEPT !.exit = "flush"], "final")
        BY <1>1, <3>3 DEF SaveAndExit
      <4> QED BY <1>1, <4>1 DEF SnapshotEnqueued, Enqueued
    <3>4. CASE ManualSave(t)
      <4>1. doc'[t] = Enqueued([doc[t] EXCEPT !.drafting = TRUE], NewWrite("manual", doc[t].mem))
        BY <1>1, <3>4 DEF ManualSave
      <4> QED BY <1>1, <4>1 DEF Enqueued
    <3>5. CASE AutoSave(t)
      <4>1. doc'[t] = Enqueued([doc[t] EXCEPT !.drafting = TRUE], NewWrite("auto", doc[t].mem))
        BY <1>1, <3>5 DEF AutoSave
      <4> QED BY <1>1, <4>1 DEF Enqueued
    <3>6. CASE ExitIdle(t)
      <4>1. doc'[t] = Enqueued([doc[t] EXCEPT !.exit = "seal"], NewWrite("seal", doc[t].mem))
        BY <1>1, <3>6 DEF ExitIdle
      <4> QED BY <1>1, <4>1 DEF Enqueued
    <3>7. CASE Restore(t)
      <4>1. PICK d \in drafts[doc[t].project] :
              doc'[t] = Enqueued([doc[t] EXCEPT !.drafting = TRUE, !.chosen = d],
                                 NewWrite("barrier", doc[t].mem))
        BY <1>1, <3>7 DEF Restore
      <4> QED BY <1>1, <4>1 DEF Enqueued
    <3>8. CASE ExitSeals(t) \/ ExitDrained(t)
      <4>1. \/ doc'[t] = GenerationAdvanced([doc[t] EXCEPT !.completed = TRUE, !.exit = "commit"])
            \/ doc'[t] = GenerationAdvanced([doc[t] EXCEPT !.exit = "discard"])
        BY <1>1, <3>8 DEF ExitSeals, ExitDrained
      <4> QED BY <1>1, <4>1 DEF GenerationAdvanced
    <3>9. CASE StartWrite(t) \/ DiscardAndExit(t) \/ ExitFails(t)
      BY <1>1, <3>9 DEF StartWrite, DiscardAndExit, ExitFails
    <3> QED BY <1>5, <3>1, <3>2, <3>3, <3>4, <3>5, <3>6, <3>7, <3>8, <3>9
  <2> QED BY <1>1, <2>1, <2>2
<1>6. ASSUME NEW t \in Tabs, Writing(t), ~StartWrite(t) PROVE FALSE
  <2> DEFINE b == Popped(doc[t])
  <2>1. /\ doc' = [doc EXCEPT ![t] = doc'[t]] /\ doc[t].queue # <<>>
        /\ \/ doc'[t] = AfterFailure(b, Head1(t).tag)
           \/ Head1(t).tag \in Saves /\ doc'[t] = AfterSave(b, Head1(t))
           \/ Head1(t).tag \in DraftSaves /\ doc'[t] = AfterDraft(b, Head1(t))
           \/ doc'[t].at = b.at
    <3>1. CASE RejectStale(t) \/ WriteFails(t)
      BY <1>1, <3>1 DEF RejectStale, WriteFails, Waiting, Running, Becomes
    <3>2. CASE CommitSave(t) BY <1>1, <3>2 DEF CommitSave, Running, Becomes
    <3>3. CASE CommitDraft(t) BY <1>1, <3>3 DEF CommitDraft, Running, Becomes
    <3>4. CASE CommitRestore(t)
      BY <1>1, <3>4 DEF CommitRestore, Running, Becomes, Popped, Document
    <3> QED BY <1>6, <3>1, <3>2, <3>3, <3>4 DEF Writing
  <2>2. s = t BY <1>1, <2>1
  <2>3. b.at = "open" BY <1>1, <2>2 DEF Popped, Document
  <2>4. doc[t] \in Document /\ DocumentIsConsistent(doc[t]) BY DocumentFacts
  <2>5. CASE doc'[t] = AfterFailure(b, Head1(t).tag)
    BY <2>1, <2>2, <2>4, <2>5, FailedDocument DEF Head1
  <2>6. CASE Head1(t).tag \in Saves /\ doc'[t] = AfterSave(b, Head1(t))
    BY <2>1, <2>2, <2>4, <2>6, SavedDocument DEF Head1
  <2>7. CASE Head1(t).tag \in DraftSaves /\ doc'[t] = AfterDraft(b, Head1(t))
    BY <2>1, <2>2, <2>4, <2>7, DraftedDocument DEF Head1
  <2> QED BY <2>1, <2>2, <2>3, <2>5, <2>6, <2>7
<1>7. ASSUME NEW t \in Tabs, CommitCheckpoint(t) \/ DiscardSession(t)
      PROVE  CommitCheckpoint(s) \/ DiscardSession(s)
  <2>1. s = t BY <1>1, <1>7 DEF CommitCheckpoint, DiscardSession
  <2> QED BY <1>7, <2>1
<1> QED BY <1>2, <1>3, <1>4, <1>5, <1>6, <1>7 DEF Next, Exiting, Writing

\* An exit with "save" leaves on disk what the screen shows, one with "discard"
\* what was last saved.
THEOREM ExitsKeepTheirChoice == Spec => ExitKeepsItsChoice
<1> DEFINE Keeps ==
        \A t \in Tabs :
            (doc[t].at = "open" /\ doc'[t].at = "left")
                => stored'[doc[t].project] =
                        IF doc[t].exit = "commit" THEN doc[t].mem
                        ELSE explicit[doc[t].project]
<1>1. EditingInvariant /\ [Next]_vars => [Keeps]_vars
  <2> SUFFICES ASSUME EditingInvariant, Next, NEW t \in Tabs,
                      doc[t].at = "open", doc'[t].at = "left"
               PROVE  stored'[doc[t].project] =
                          IF doc[t].exit = "commit" THEN doc[t].mem
                          ELSE explicit[doc[t].project]
    OBVIOUS
  <2>1. /\ doc[t] \in Document /\ DocumentIsConsistent(doc[t]) /\ DocumentIsCovered(t)
        /\ SharedTypes
    BY DocumentFacts
  <2>2. PICK p \in Projects : p = doc[t].project BY <2>1 DEF DocumentIsCovered, Document
  <2>3. CASE CommitCheckpoint(t)
    <3>1. doc[t].exit = "commit" /\ stored' = [stored EXCEPT ![p] = doc[t].final]
      BY <2>2, <2>3 DEF CommitCheckpoint
    <3>2. doc[t].final = doc[t].mem BY <2>1, <3>1 DEF DocumentIsConsistent
    <3> QED BY <2>1, <2>2, <3>1, <3>2 DEF SharedTypes
  <2>4. CASE DiscardSession(t)
    <3>1. doc[t].exit = "discard" /\ DiscardCheckpoint(p) /\ checkpoint[p] # None
      BY <2>2, <2>4 DEF DiscardSession, Owns
    <3> QED BY <2>2, <3>1, DiscardingKeepsSavedWork
  <2> QED BY <2>3, <2>4, OnlyEndingLeaves
<1>2. ExitKeepsItsChoice <=> [][Keeps]_vars BY DEF ExitKeepsItsChoice
<1> HIDE DEF Keeps
<1> QED BY <1>1, <1>2, EditingInvariantHolds, PTL DEF Spec

-----------------------------------------------------------------------------
(* The abstract edit *)

\* The variables of SavedWork, under the mapping.
SavedNow == [p \in Projects |->
                IF checkpoint[p] = None THEN stored[p]
                ELSE RolledBackProject(checkpoint[p], drafts[p])]
OpenNow == {p \in Projects : checkpoint[p] # None}

LEMMA SavedNowIsExplicit == EditingInvariant => SavedNow = explicit
<1> SUFFICES ASSUME EditingInvariant PROVE SavedNow = explicit
  OBVIOUS
<1>1. \A p \in Projects :
        explicit[p] = IF checkpoint[p] = None THEN stored[p]
                      ELSE RolledBackProject(checkpoint[p], drafts[p])
  BY RollbackKeepsBaseline DEF EditingInvariant, SavedWorkIsKept
<1>2. explicit \in [Projects -> Versions \cup {None}] BY DEF EditingInvariant, TypeOK
<1> QED BY <1>1, <1>2 DEF SavedNow

\* A step of the abstract edit, in terms of the history and the checkpoints.
LEMMA AbstractSteps ==
    ASSUME EditingInvariant, EditingInvariant'
    PROVE  /\ UNCHANGED <<explicit, stored, OpenNow>> => UNCHANGED Work!vars
           /\ \A p \in Projects :
                /\ /\ p \notin OpenNow /\ OpenNow' = OpenNow \cup {p}
                   /\ UNCHANGED <<explicit, stored>>
                   => Work!Open(p)
                /\ /\ p \in OpenNow /\ OpenNow' = OpenNow /\ UNCHANGED explicit
                   /\ \E v \in Versions : stored' = [stored EXCEPT ![p] = v]
                   => Work!Work(p)
                /\ /\ p \in OpenNow /\ OpenNow' = OpenNow
                   /\ \E v \in Versions : /\ explicit' = [explicit EXCEPT ![p] = v]
                                          /\ stored' = [stored EXCEPT ![p] = v]
                   => Work!Save(p)
                /\ /\ p \in OpenNow /\ OpenNow' = OpenNow \ {p} /\ UNCHANGED explicit
                   /\ stored' = [stored EXCEPT ![p] = explicit[p]]
                   => Work!End(p)
           /\ \A ps \in SUBSET Projects :
                /\ OpenNow' = OpenNow \ ps
                /\ explicit' = [p \in Projects |-> IF p \in ps THEN None ELSE explicit[p]]
                /\ stored' = [p \in Projects |-> IF p \in ps THEN None ELSE stored[p]]
                => Work!Delete(ps)
<1>1. SavedNow = explicit BY SavedNowIsExplicit
<1>2. (SavedNow = explicit)' BY SavedNowIsExplicit, PTL
<1> QED BY <1>1, <1>2
        DEF SavedNow, OpenNow, Work!vars, Work!Open, Work!Work, Work!Save, Work!End, Work!Delete

AbstractStep == [Work!Next]_(Work!vars)

LEMMA QuietSteps ==
    ASSUME EditingInvariant, EditingInvariant', UNCHANGED store
    PROVE  AbstractStep
<1>1. UNCHANGED <<explicit, stored, OpenNow>> BY DEF store, OpenNow
<1> QED BY <1>1, AbstractSteps DEF AbstractStep

LEMMA DiscardingEnds ==
    ASSUME EditingInvariant, EditingInvariant', NEW p \in Projects,
           checkpoint[p] # None, DiscardCheckpoint(p)
    PROVE  AbstractStep
<1>1. /\ stored'[p] = explicit[p] /\ explicit' = explicit
      /\ stored' = [stored EXCEPT ![p] = stored'[p]]
      /\ checkpoint' = [checkpoint EXCEPT ![p] = None]
  BY DiscardingKeepsSavedWork, DocumentFacts
  DEF DiscardCheckpoint, EditingInvariant, TypeOK
<1>2. p \in OpenNow /\ OpenNow' = OpenNow \ {p}
  BY <1>1 DEF OpenNow, EditingInvariant, TypeOK
<1>3. stored' = [stored EXCEPT ![p] = explicit[p]] BY <1>1
<1>4. Work!End(p) BY <1>1, <1>2, <1>3, AbstractSteps
<1> QED BY <1>4 DEF AbstractStep, Work!Next

LEMMA DeletingDeletes ==
    ASSUME EditingInvariant, EditingInvariant', NEW P \in SUBSET Projects, Forgotten(P)
    PROVE  AbstractStep
<1>1. /\ explicit' = [q \in Projects |-> IF q \in P THEN None ELSE explicit[q]]
      /\ stored' = [q \in Projects |-> IF q \in P THEN None ELSE stored[q]]
      /\ OpenNow' = OpenNow \ P
  BY DEF Forgotten, OpenNow
<1>2. Work!Delete(P) BY <1>1, AbstractSteps
<1> QED BY <1>2 DEF AbstractStep, Work!Next

LEMMA BeginningOpens ==
    ASSUME EditingInvariant, EditingInvariant', NEW t \in Tabs, BeginCheckpoint(t)
    PROVE  AbstractStep
<1>1. PICK p \in Projects : p = doc[t].project BY OpeningFacts DEF BeginCheckpoint
<1>2. CASE checkpoint' = checkpoint
  BY <1>2, QuietSteps DEF BeginCheckpoint, store
<1>3. CASE checkpoint' # checkpoint
  <2>1. PICK cp : checkpoint[p] = None /\ checkpoint' = [checkpoint EXCEPT ![p] = cp]
    BY <1>1, <1>3 DEF BeginCheckpoint
  <2>2. checkpoint'[p] # None
    <3>1. doc'[t].at = "load" /\ doc'[t].project = p
      BY <1>1, DocumentFacts DEF BeginCheckpoint, Document
    <3>2. DocumentIsCovered(t)' BY DEF EditingInvariant
    <3> QED BY <3>1, <3>2 DEF DocumentIsCovered, Begun, Owns
  <2>3. p \notin OpenNow /\ OpenNow' = OpenNow \cup {p} /\ UNCHANGED <<explicit, stored>>
    BY <2>1, <2>2, DocumentFacts DEF OpenNow, SharedTypes, BeginCheckpoint
  <2>4. Work!Open(p) BY <2>3, AbstractSteps
  <2> QED BY <2>4 DEF AbstractStep, Work!Next
<1> QED BY <1>2, <1>3

\* What the queue writes is work, or the save of what is written; what a
\* document that has left still writes is what there is.
LEMMA WritesWork ==
    ASSUME EditingInvariant, EditingInvariant', NEW t \in Tabs,
           CommitSave(t) \/ CommitDraft(t) \/ CommitRestore(t)
    PROVE  AbstractStep
<1>1. doc[t].queue # <<>>
  BY DEF CommitSave, CommitDraft, CommitRestore, Running
<1>2. PICK p \in Projects : p = doc[t].project BY <1>1, HeadFacts
<1>3. /\ doc[t].at # "left" => checkpoint[p] # None
      /\ doc[t].at = "left" => /\ checkpoint[p] = None /\ Head1(t).tag = "snapshot"
                               /\ Head1(t).version = explicit[p]
      /\ Head1(t).version \in Versions
  BY <1>1, <1>2, HeadFacts DEF Owns, DocumentIsCovered, Write
<1>4. PICK v \in Versions :
        /\ stored' = [stored EXCEPT ![p] = v]
        /\ Head1(t).tag # "restore" => v = Head1(t).version
  <2>1. CASE CommitSave(t) \/ CommitDraft(t)
    BY <1>2, <1>3, <2>1 DEF CommitSave, CommitDraft
  <2>2. CASE CommitRestore(t)
    <3>1. tick + 1 \in Versions
      BY <2>2, DocumentFacts, LimitAssumption DEF CommitRestore, Versions
    <3> QED BY <1>2, <2>2, <3>1 DEF CommitRestore
  <2> QED BY <2>1, <2>2
<1>5. /\ \A q \in Projects : (checkpoint'[q] = None) <=> (checkpoint[q] = None)
      /\ UNCHANGED explicit \/ explicit' = [explicit EXCEPT ![p] = v]
  <2>1. CASE CommitSave(t) \/ CommitRestore(t)
    BY <2>1 DEF CommitSave, CommitRestore
  <2>2. CASE CommitDraft(t)
    <3>1. UNCHANGED explicit \/ explicit' = [explicit EXCEPT ![p] = v]
      BY <1>2, <1>4, <2>2 DEF CommitDraft, DraftSaves
    <3>2. \A q \in Projects \ {p} : checkpoint'[q] = checkpoint[q]
      BY <1>2, <2>2, DocumentFacts DEF CommitDraft, SharedTypes
    <3>3. doc[t].at = "open" /\ doc'[t].at = "open" /\ doc'[t].project = p
      <4>1. doc'[t] = AfterDraft(Popped(doc[t]), Head1(t)) /\ Head1(t).tag \in DraftSaves
        BY <2>2, DocumentFacts DEF CommitDraft, Becomes
      <4> QED BY <1>1, <1>2, <4>1, DocumentFacts, DraftedDocument DEF Head1
    <3>4. checkpoint'[p] # None
      <4>1. DocumentIsCovered(t)' BY DEF EditingInvariant
      <4> QED BY <3>3, <4>1 DEF DocumentIsCovered, Begun, Owns
    <3> QED BY <1>3, <3>1, <3>2, <3>3, <3>4
  <2> QED BY <2>1, <2>2
<1>6. OpenNow' = OpenNow BY <1>5 DEF OpenNow
<1>7. CASE checkpoint[p] # None
  <2>1. p \in OpenNow BY <1>7 DEF OpenNow
  <2>2. Work!Work(p) \/ Work!Save(p) BY <1>4, <1>5, <1>6, <2>1, AbstractSteps
  <2> QED BY <2>2 DEF AbstractStep, Work!Next
<1>8. CASE checkpoint[p] = None
  <2>1. v = explicit[p] /\ stored[p] = explicit[p]
    BY <1>3, <1>4, <1>8 DEF EditingInvariant, SavedWorkIsKept
  <2>2. UNCHANGED stored BY <1>4, <2>1, DocumentFacts DEF SharedTypes
  <2>3. UNCHANGED explicit BY <1>5, <2>1, DocumentFacts DEF SharedTypes
  <2> QED BY <1>6, <2>2, <2>3, AbstractSteps DEF AbstractStep
<1> QED BY <1>7, <1>8

\* By the time the checkpoint is committed its state is the saved one.
LEMMA CommittingEnds ==
    ASSUME EditingInvariant, EditingInvariant', NEW t \in Tabs, CommitCheckpoint(t)
    PROVE  AbstractStep
<1>1. /\ doc[t] \in Document /\ DocumentIsConsistent(doc[t]) /\ DocumentIsCovered(t)
      /\ doc[t].exit = "commit" /\ Owns(t) /\ SharedTypes
  BY DocumentFacts DEF CommitCheckpoint
<1>2. doc[t].at = "open" BY <1>1 DEF DocumentIsConsistent
<1>3. PICK p \in Projects : p = doc[t].project
  BY <1>1, <1>2 DEF DocumentIsCovered, Document
<1>4. doc[t].final = explicit[p]
  BY <1>1, <1>3 DEF DocumentIsConsistent, DocumentIsCovered
<1>5. /\ stored' = [stored EXCEPT ![p] = explicit[p]]
      /\ checkpoint' = [checkpoint EXCEPT ![p] = None]
      /\ explicit' = [explicit EXCEPT ![p] = explicit[p]]
  BY <1>3, <1>4 DEF CommitCheckpoint
<1>6. UNCHANGED explicit BY <1>1, <1>5 DEF SharedTypes
<1>7. p \in OpenNow /\ OpenNow' = OpenNow \ {p}
  BY <1>1, <1>3, <1>5 DEF OpenNow, Owns, SharedTypes
<1>8. Work!End(p) BY <1>5, <1>6, <1>7, AbstractSteps
<1> QED BY <1>8 DEF AbstractStep, Work!Next

LEMMA NextIsAbstract ==
    EditingInvariant /\ EditingInvariant' /\ [Next]_vars => AbstractStep
<1> SUFFICES ASSUME EditingInvariant, EditingInvariant', [Next]_vars PROVE AbstractStep
  OBVIOUS
<1>1. CASE UNCHANGED vars BY <1>1, QuietSteps DEF vars, store
<1>2. ASSUME NEW t \in Tabs,
             \/ StartPage(t) \/ Refresh(t) \/ OpenRefused(t) \/ EnterEditor(t)
             \/ \E p \in Projects, fresh \in BOOLEAN : RequestOpen(t, p, fresh)
      PROVE  AbstractStep
  BY <1>2, QuietSteps
  DEF StartPage, Refresh, OpenRefused, EnterEditor, RequestOpen, Keep
<1>3. ASSUME NEW t \in Tabs, NEW p \in Projects,
             \/ AcquireAbandoned(t, p) \/ SkipOwned(t, p)
             \/ RollBack(t, p) \/ RollBackFails(t, p)
      PROVE  AbstractStep
  BY <1>3, QuietSteps, DiscardingEnds
  DEF AcquireAbandoned, SkipOwned, RollBack, RollBackFails, Keep, UnchangedStore
<1>4. ASSUME NEW t \in Tabs, DeleteAll(t) \/ \E p \in Projects : DeleteProject(t, p)
      PROVE  AbstractStep
  <2>1. \E P \in SUBSET Projects : Forgotten(P) BY <1>4 DEF DeleteAll, DeleteProject
  <2> QED BY <2>1, DeletingDeletes
<1>5. ASSUME NEW t \in Tabs,
             \/ AcquireWriter(t) \/ WriterRefused(t)
             \/ BeginCheckpoint(t) \/ BeginFails(t)
             \/ LoadProject(t) \/ EntryRefused(t)
      PROVE  AbstractStep
  BY <1>5, QuietSteps, BeginningOpens
  DEF AcquireWriter, WriterRefused, BeginFails, LoadProject, EntryRefused, Keep
<1>6. ASSUME NEW t \in Tabs,
             \/ Edit(t) \/ Flush(t) \/ ManualSave(t) \/ AutoSave(t) \/ Restore(t)
             \/ Writing(t)
      PROVE  AbstractStep
  BY <1>6, QuietSteps, WritesWork
  DEF Edit, Flush, ManualSave, AutoSave, Restore, Writing, StartWrite, RejectStale,
      WriteFails, Page
<1>7. ASSUME NEW t \in Tabs,
             \/ SaveAndExit(t) \/ DiscardAndExit(t) \/ ExitIdle(t) \/ ExitSeals(t)
             \/ ExitDrained(t) \/ ExitFails(t) \/ CommitCheckpoint(t)
      PROVE  AbstractStep
  BY <1>7, QuietSteps, CommittingEnds
  DEF SaveAndExit, DiscardAndExit, ExitIdle, ExitSeals, ExitDrained, ExitFails, Page
<1>8. ASSUME NEW t \in Tabs, DiscardSession(t) PROVE AbstractStep
  <2>1. PICK p : p = doc[t].project /\ DiscardCheckpoint(p) /\ checkpoint[p] # None
    BY <1>8 DEF DiscardSession, Owns
  <2>2. p \in Projects
    <3>1. doc[t].at = "open" BY <1>8, DocumentFacts DEF DiscardSession, DocumentIsConsistent
    <3> QED BY <2>1, <3>1, DocumentFacts DEF DocumentIsCovered, Document
  <2> QED BY <2>1, <2>2, DiscardingEnds
<1>9. ASSUME NEW t \in Tabs, Leave(t) \/ Close(t) \/ Reload(t) PROVE AbstractStep
  BY <1>9, QuietSteps DEF Leave, Close, Reload, Page
<1> QED BY <1>1, <1>2, <1>3, <1>4, <1>5, <1>6, <1>7, <1>8, <1>9
        DEF Next, Cleaning, Exiting

\* Every step is a step of the abstract edit, or none: an edit ends with what
\* was saved and nothing else.
THEOREM EditingImplementsSavedWork == Spec => ImplementsSavedWork
<1>1. Init => Work!Init
  <2> SUFFICES ASSUME Init PROVE Work!Init
    OBVIOUS
  <2>1. EditingInvariant BY InitEstablishesEditing
  <2>2. SavedNow = explicit BY <2>1, SavedNowIsExplicit
  <2>3. OpenNow = {} /\ explicit = stored BY DEF Init, OpenNow
  <2>4. stored \in [Projects -> Versions \cup {None}] BY <2>1 DEF EditingInvariant, TypeOK
  <2> QED BY <2>2, <2>3, <2>4 DEF Work!Init, Work!Contents, SavedNow, OpenNow
<1>2. EditingInvariant /\ EditingInvariant' /\ [Next]_vars => [Work!Next]_(Work!vars)
  BY NextIsAbstract DEF AbstractStep
<1> QED BY <1>1, <1>2, EditingInvariantHolds, PTL DEF Spec, ImplementsSavedWork, Work!Spec


-----------------------------------------------------------------------------
(* Trimming *)

UniqueIds(ds) == \A d, e \in ds : d.id = e.id => d = e

\* The order of trimming is strict, and total where ids are unique.
LEMMA BeforeIsAnOrder ==
    ASSUME NEW x
    PROVE  /\ \A d \in Draft : ~Before(d, d, x)
           /\ \A d, e, f \in Draft :
                Before(d, e, x) /\ Before(e, f, x) => Before(d, f, x)
           /\ \A d, e \in Draft : d.id # e.id => Before(d, e, x) \/ Before(e, d, x)
<1>1. \A d \in Draft : d.at \in Int /\ d.id \in Int
  <2>1. DraftIds \subseteq Int BY DEF DraftIds
  <2>2. \A d \in Draft : d.at \in Times /\ d.id \in DraftIds BY DEF Draft
  <2> QED BY <2>1, <2>2, LimitAssumption
<1>2. \A d \in Draft : ~Before(d, d, x) BY <1>1 DEF Before
<1>3. ASSUME NEW d \in Draft, NEW e \in Draft, NEW f \in Draft,
             Before(d, e, x), Before(e, f, x)
      PROVE  Before(d, f, x)
  <2>1. /\ d.at \in Int /\ d.id \in Int /\ e.at \in Int /\ e.id \in Int
        /\ f.at \in Int /\ f.id \in Int
    BY <1>1
  <2> QED BY <1>3, <2>1 DEF Before
<1>4. ASSUME NEW d \in Draft, NEW e \in Draft, d.id # e.id
      PROVE  Before(d, e, x) \/ Before(e, d, x)
  <2>1. d.at \in Int /\ d.id \in Int /\ e.at \in Int /\ e.id \in Int BY <1>1
  <2> QED BY <1>4, <2>1 DEF Before
<1> QED BY <1>2, <1>3, <1>4

\* Trimming leaves no more than the limit.
LEMMA NewestIsLimited ==
    ASSUME NEW ds \in SUBSET Draft, IsFiniteSet(ds), UniqueIds(ds), NEW n \in Nat, NEW x
    PROVE  IsFiniteSet(Newest(ds, n, x)) /\ Cardinality(Newest(ds, n, x)) <= n
<1> DEFINE Ahead(d) == {e \in ds : Before(e, d, x)}
           S == Newest(ds, n, x)
           T == 0..(n - 1)
           f == [d \in S |-> Cardinality(Ahead(d))]
<1>1. S \subseteq ds /\ \A d \in S : Cardinality(Ahead(d)) < n BY DEF Newest
<1>2. IsFiniteSet(S) BY <1>1, FS_Subset
<1>3. \A d \in ds : IsFiniteSet(Ahead(d)) /\ Cardinality(Ahead(d)) \in Nat
  <2> TAKE d \in ds
  <2>1. Ahead(d) \in SUBSET ds OBVIOUS
  <2> HIDE DEF Ahead
  <2> QED BY <2>1, FS_Subset, FS_CardinalityType
<1>4. IsFiniteSet(T) /\ Cardinality(T) = n
  <2>1. n = 0 => T = {} OBVIOUS
  <2>2. IsFiniteSet(T) /\ Cardinality(T) = IF 0 > n - 1 THEN 0 ELSE (n - 1) - 0 + 1
    BY FS_Interval
  <2> QED BY <2>2
<1>5. f \in [S -> T] BY <1>1, <1>3
<1>6. ASSUME NEW d \in S, NEW e \in S, d # e PROVE f[d] # f[e]
  <2>1. d \in ds /\ e \in ds /\ d \in Draft /\ e \in Draft /\ d.id # e.id
    BY <1>1, <1>6 DEF UniqueIds
  <2>2. ASSUME NEW a \in ds, NEW b \in ds, Before(a, b, x)
        PROVE  Cardinality(Ahead(a)) # Cardinality(Ahead(b))
    <3>1. Ahead(a) \subseteq Ahead(b) BY <2>2, BeforeIsAnOrder
    <3>2. a \in Ahead(b) /\ a \notin Ahead(a) BY <2>2, BeforeIsAnOrder
    <3>3. IsFiniteSet(Ahead(b)) BY <1>3
    <3> HIDE DEF Ahead
    <3>4. Cardinality(Ahead(b)) = Cardinality(Ahead(a)) => Ahead(b) = Ahead(a)
      BY <3>1, <3>3, FS_Subset
    <3> QED BY <3>2, <3>4
  <2>3. Before(d, e, x) \/ Before(e, d, x) BY <2>1, BeforeIsAnOrder
  <2> HIDE DEF Ahead
  <2> QED BY <2>1, <2>2, <2>3
<1> HIDE DEF f, T, S
<1>7. Cardinality(S) \in Nat BY <1>2, FS_CardinalityType
<1>8. ~(Cardinality(T) < Cardinality(S))
  <2> SUFFICES ASSUME Cardinality(T) < Cardinality(S) PROVE FALSE
    OBVIOUS
  <2>1. \E d, e \in S : d # e /\ f[d] = f[e] BY <1>2, <1>4, <1>5, FS_PigeonHole
  <2> QED BY <1>6, <2>1
<1> QED BY <1>2, <1>4, <1>7, <1>8 DEF S

\* What is within the limit is not trimmed.
LEMMA NothingToTrim ==
    ASSUME NEW ds \in SUBSET Draft, IsFiniteSet(ds), NEW n \in Nat,
           Cardinality(ds) <= n, NEW x
    PROVE  Newest(ds, n, x) = ds
<1> SUFFICES ASSUME NEW d \in ds PROVE Cardinality({e \in ds : Before(e, d, x)}) < n
  BY DEF Newest
<1> DEFINE A == {e \in ds : Before(e, d, x)}
<1>1. A \in SUBSET (ds \ {d}) BY BeforeIsAnOrder
<1> HIDE DEF A
<1>2. IsFiniteSet(ds \ {d}) /\ Cardinality(ds \ {d}) = Cardinality(ds) - 1
  BY FS_RemoveElement
<1>3. Cardinality(A) <= Cardinality(ds \ {d}) /\ IsFiniteSet(A) BY <1>1, <1>2, FS_Subset
<1>4. Cardinality(A) \in Nat /\ Cardinality(ds) \in Nat
  BY <1>3, FS_CardinalityType
<1> QED BY <1>2, <1>3, <1>4 DEF A

\* A protected draft is not trimmed while fewer others are protected than the
\* limit is.
LEMMA ProtectedIsKept ==
    ASSUME NEW ds \in SUBSET Draft, UniqueIds(ds), NEW n \in Nat, NEW x,
           NEW d \in ds, d.id \in x,
           NEW P, IsFiniteSet(P), Cardinality(P) < n,
           \A e \in ds : e.id \in x /\ e # d => e \in P
    PROVE  d \in Newest(ds, n, x)
<1> DEFINE A == {e \in ds : Before(e, d, x)}
<1>1. A \in SUBSET P
  <2> SUFFICES ASSUME NEW e \in ds, Before(e, d, x) PROVE e \in P
    OBVIOUS
  <2>1. e # d BY BeforeIsAnOrder
  <2>2. e.id \in x BY DEF Before
  <2> QED BY <2>1, <2>2
<1> HIDE DEF A
<1>2. IsFiniteSet(A) /\ Cardinality(A) <= Cardinality(P) BY <1>1, FS_Subset
<1>3. Cardinality(A) \in Nat /\ Cardinality(P) \in Nat BY <1>2, FS_CardinalityType
<1>4. Cardinality(A) < n BY <1>2, <1>3
<1> QED BY <1>4 DEF Newest, A

LEMMA RetainedParts ==
    ASSUME NEW ds, NEW x
    PROVE  /\ Manual(Retained(ds, x)) = Newest(Manual(ds), ManualLimit, x)
           /\ Retained(ds, x) \ Manual(Retained(ds, x)) =
                Newest(ds \ Manual(ds), TemporaryLimit, x)
<1>1. /\ Newest(Manual(ds), ManualLimit, x) \subseteq Manual(ds)
      /\ Newest(ds \ Manual(ds), TemporaryLimit, x) \subseteq ds \ Manual(ds)
  BY DEF Newest
<1> QED BY <1>1 DEF Retained, Manual

\* Trimming leaves a list within its limits.
LEMMA RetainedFits ==
    ASSUME NEW ds \in SUBSET Draft, IsFiniteSet(ds), UniqueIds(ds), NEW x
    PROVE  DraftsFit(Retained(ds, x))
<1> DEFINE M == Manual(ds)
           T == ds \ Manual(ds)
           r == Retained(ds, x)
<1>1. M \subseteq ds /\ T \subseteq ds BY DEF Manual
<1>2. IsFiniteSet(M) /\ IsFiniteSet(T) BY <1>1, FS_Subset
<1>3. /\ M \in SUBSET Draft /\ T \in SUBSET Draft /\ UniqueIds(M) /\ UniqueIds(T)
  BY <1>1 DEF UniqueIds
<1> HIDE DEF M, T
<1>4. /\ Cardinality(Newest(M, ManualLimit, x)) <= ManualLimit
      /\ Cardinality(Newest(T, TemporaryLimit, x)) <= TemporaryLimit
  BY <1>2, <1>3, NewestIsLimited, LimitAssumption
<1>5. r \in SUBSET ds BY RetainedIsSubset
<1>6. IsFiniteSet(r) BY <1>5, FS_Subset
<1>7. \A d, e \in r : d.id = e.id => d = e BY <1>5 DEF UniqueIds
<1>8. Manual(r) = Newest(M, ManualLimit, x) /\ r \ Manual(r) = Newest(T, TemporaryLimit, x)
  BY RetainedParts DEF M, T
<1> HIDE DEF r
<1> QED BY <1>4, <1>6, <1>7, <1>8 DEF DraftsFit, r

\* A list within its limits is not trimmed.
LEMMA FittingIsKept ==
    ASSUME NEW ds \in SUBSET Draft, DraftsFit(ds), NEW x
    PROVE  /\ Newest(Manual(ds), ManualLimit, x) = Manual(ds)
           /\ Newest(ds \ Manual(ds), TemporaryLimit, x) = ds \ Manual(ds)
           /\ Retained(ds, x) = ds
<1>1. Manual(ds) \in SUBSET ds /\ ds \ Manual(ds) \in SUBSET ds BY DEF Manual
<1>2. IsFiniteSet(Manual(ds)) /\ IsFiniteSet(ds \ Manual(ds))
  BY <1>1, FS_Subset DEF DraftsFit
<1>3. Newest(Manual(ds), ManualLimit, x) = Manual(ds)
  BY <1>1, <1>2, NothingToTrim, LimitAssumption DEF DraftsFit
<1>4. Newest(ds \ Manual(ds), TemporaryLimit, x) = ds \ Manual(ds)
  BY <1>1, <1>2, NothingToTrim, LimitAssumption DEF DraftsFit
<1>5. Retained(ds, x) = ds BY <1>1, <1>3, <1>4 DEF Retained
<1> QED BY <1>3, <1>4, <1>5

\* A rollback brings back the drafts of the baseline, all and no others.
LEMMA RollbackKeepsDrafts ==
    ASSUME NEW cp, NEW ds, cp.drafts \in SUBSET Draft, DraftsFit(cp.drafts),
           Manual(ds) \subseteq cp.drafts
    PROVE  RolledBackDrafts(cp, ds) = cp.drafts
<1>1. {d \in Manual(ds) : \A b \in cp.drafts : b.id # d.id} = {} OBVIOUS
<1>2. Retained(cp.drafts, {}) = cp.drafts BY FittingIsKept
<1> QED BY <1>1, <1>2 DEF RolledBackDrafts

\* A draft that is added under a new id and protected is kept. One that is not
\* explicit leaves the explicit drafts as they are.
LEMMA AddingFits ==
    ASSUME NEW ds \in SUBSET Draft, DraftsFit(ds), NEW d \in Draft,
           \A e \in ds : e.id # d.id, NEW x
    PROVE  LET r == Retained(ds \cup {d}, x) IN
           /\ DraftsFit(r)
           /\ d.reason # "manual" => Manual(r) = Manual(ds)
           /\ x = {d.id} => d \in r
<1> DEFINE all == ds \cup {d}
           r == Retained(all, x)
<1>1. all \in SUBSET Draft /\ UniqueIds(all) BY DEF UniqueIds, DraftsFit
<1>2. IsFiniteSet(all) BY FS_AddElement DEF DraftsFit
<1>3. DraftsFit(r) BY <1>1, <1>2, RetainedFits
<1>4. d.reason # "manual" => Manual(r) = Manual(ds)
  <2> SUFFICES ASSUME d.reason # "manual" PROVE Manual(r) = Manual(ds)
    OBVIOUS
  <2>1. Manual(all) = Manual(ds) BY DEF Manual
  <2>2. Manual(r) = Newest(Manual(all), ManualLimit, x) BY RetainedParts
  <2> QED BY <2>1, <2>2, FittingIsKept
<1>5. x = {d.id} => d \in r
  <2> SUFFICES ASSUME x = {d.id} PROVE d \in r
    OBVIOUS
  <2> DEFINE P == {}
  <2>1. IsFiniteSet(P) /\ Cardinality(P) = 0 BY FS_EmptySet
  <2>2. \A e \in all : e.id \in x /\ e # d => e \in P BY <1>1 DEF UniqueIds
  <2>3. /\ Manual(all) \in SUBSET Draft /\ UniqueIds(Manual(all))
        /\ all \ Manual(all) \in SUBSET Draft /\ UniqueIds(all \ Manual(all))
        /\ Manual(all) \subseteq all
    BY <1>1 DEF Manual, UniqueIds
  <2> HIDE DEF P
  <2>4. CASE d \in Manual(all)
    <3>1. ManualLimit \in Nat /\ Cardinality(P) < ManualLimit BY <2>1, LimitAssumption
    <3>2. \A e \in Manual(all) : e.id \in x /\ e # d => e \in P BY <2>2, <2>3
    <3>3. d.id \in x OBVIOUS
    <3>4. d \in Newest(Manual(all), ManualLimit, x)
      BY <2>1, <2>3, <2>4, <3>1, <3>2, <3>3, ProtectedIsKept
    <3> QED BY <3>4 DEF Retained
  <2>5. CASE d \notin Manual(all)
    <3>1. d \in all \ Manual(all) BY <2>5
    <3>2. d \in Newest(all \ Manual(all), TemporaryLimit, x)
      BY <2>1, <2>2, <2>3, <3>1, ProtectedIsKept, LimitAssumption
    <3> QED BY <3>2 DEF Retained
  <2> QED BY <2>4, <2>5
<1> QED BY <1>3, <1>4, <1>5

\* Of two protected drafts both are kept, if there is room for two temporary ones.
LEMMA BothAreKept ==
    ASSUME TemporaryLimit >= 2,
           NEW ds \in SUBSET Draft, UniqueIds(ds), NEW d \in ds, NEW e \in ds,
           NEW x, x = {d.id, e.id}, d.reason # "manual"
    PROVE  d \in Retained(ds, x) /\ e \in Retained(ds, x)
<1>1. /\ Manual(ds) \in SUBSET Draft /\ UniqueIds(Manual(ds))
      /\ ds \ Manual(ds) \in SUBSET Draft /\ UniqueIds(ds \ Manual(ds))
  BY DEF Manual, UniqueIds
<1>2. \A f \in ds : f.id \in x => f \in {d, e} BY DEF UniqueIds
<1>3. /\ \A f : IsFiniteSet({f}) /\ Cardinality({f}) = 1
      /\ IsFiniteSet({}) /\ Cardinality({}) = 0
  BY FS_Singleton, FS_EmptySet
<1>4. d \in Newest(ds \ Manual(ds), TemporaryLimit, x)
  <2>1. d \in ds \ Manual(ds) BY DEF Manual
  <2>2. \A f \in ds \ Manual(ds) : f.id \in x /\ f # d => f \in {e} BY <1>2
  <2>3. TemporaryLimit \in Nat /\ Cardinality({e}) < TemporaryLimit
    BY <1>3, LimitAssumption
  <2> QED BY <1>1, <1>3, <2>1, <2>2, <2>3, ProtectedIsKept
<1>5. CASE e \in Manual(ds)
  <2> DEFINE P == {}
  <2>1. \A f \in Manual(ds) : f.id \in x /\ f # e => f \in P
    BY <1>2 DEF Manual
  <2>2. ManualLimit \in Nat /\ Cardinality(P) < ManualLimit /\ IsFiniteSet(P)
    BY <1>3, LimitAssumption
  <2> HIDE DEF P
  <2>3. e \in Newest(Manual(ds), ManualLimit, x)
    BY <1>1, <1>5, <2>1, <2>2, ProtectedIsKept
  <2> QED BY <1>4, <2>3 DEF Retained
<1>6. CASE e \notin Manual(ds)
  <2>1. \A f \in ds \ Manual(ds) : f.id \in x /\ f # e => f \in {d} BY <1>2
  <2>2. TemporaryLimit \in Nat /\ Cardinality({d}) < TemporaryLimit
    <3>1. Cardinality({d}) = 1 BY <1>3
    <3> QED BY <3>1, LimitAssumption
  <2>3. e \in Newest(ds \ Manual(ds), TemporaryLimit, x)
    <3> DEFINE P == {d}
               T == ds \ Manual(ds)
    <3>1. e \in T /\ e.id \in x BY <1>6
    <3>2. IsFiniteSet(P) /\ Cardinality(P) < TemporaryLimit BY <1>3, <2>2
    <3>3. \A f \in T : f.id \in x /\ f # e => f \in P BY <2>1
    <3>4. T \in SUBSET Draft /\ UniqueIds(T) BY <1>1
    <3> HIDE DEF P, T
    <3>5. e \in Newest(T, TemporaryLimit, x)
      BY <2>2, <3>1, <3>2, <3>3, <3>4, ProtectedIsKept
    <3> QED BY <3>5 DEF T
  <2> QED BY <1>4, <2>3 DEF Retained
<1> QED BY <1>5, <1>6

-----------------------------------------------------------------------------
(* The drafts of a project *)

\* The part of the invariant of the drafts that is about one project.
DraftsAreKept(p) ==
    /\ DraftsFit(drafts[p])
    /\ checkpoint[p] # None => /\ DraftsFit(checkpoint[p].drafts)
                               /\ Manual(checkpoint[p].drafts) = Manual(drafts[p])
    /\ explicit[p] \notin {None, 0} => \E d \in Manual(drafts[p]) : d.version = explicit[p]

AllDraftsAreKept == \A p \in Projects : DraftsAreKept(p)

LEMMA UntouchedDrafts ==
    ASSUME NEW p \in Projects, DraftsAreKept(p), drafts'[p] = drafts[p],
           checkpoint'[p] = checkpoint[p], explicit'[p] = explicit[p]
    PROVE  DraftsAreKept(p)'
  BY DEF DraftsAreKept

LEMMA DiscardedDrafts ==
    ASSUME EditingInvariant, AllDraftsAreKept, NEW p \in Projects,
           checkpoint[p] # None, DiscardCheckpoint(p)
    PROVE  AllDraftsAreKept'
<1>1. /\ checkpoint[p].drafts \in SUBSET Draft /\ Manual(drafts[p]) \subseteq checkpoint[p].drafts
  BY DEF EditingInvariant, TypeOK, Checkpoint, SavedWorkIsKept
<1>2. DraftsFit(checkpoint[p].drafts) /\ Manual(checkpoint[p].drafts) = Manual(drafts[p])
  BY DEF AllDraftsAreKept, DraftsAreKept
<1>3. drafts'[p] = checkpoint[p].drafts
  <2>1. RolledBackDrafts(checkpoint[p], drafts[p]) = checkpoint[p].drafts
    BY <1>1, <1>2, RollbackKeepsDrafts
  <2> QED BY <2>1 DEF DiscardCheckpoint, EditingInvariant, TypeOK
<1>4. /\ explicit' = explicit /\ checkpoint'[p] = None
      /\ \A q \in Projects \ {p} : checkpoint'[q] = checkpoint[q] /\ drafts'[q] = drafts[q]
  BY DiscardingKeepsSavedWork
<1>5. DraftsAreKept(p)'
  <2>1. DraftsAreKept(p) BY DEF AllDraftsAreKept
  <2> QED BY <1>2, <1>3, <1>4, <2>1 DEF DraftsAreKept
<1>6. ASSUME NEW q \in Projects \ {p} PROVE DraftsAreKept(q)'
  BY <1>4, UntouchedDrafts DEF AllDraftsAreKept
<1> QED BY <1>5, <1>6 DEF AllDraftsAreKept

LEMMA ForgottenDrafts ==
    ASSUME AllDraftsAreKept, NEW P \in SUBSET Projects, Forgotten(P)
    PROVE  AllDraftsAreKept'
<1>1. DraftsFit({})
  <2>1. Manual({}) = {} BY DEF Manual
  <2> QED BY <2>1, FS_EmptySet, LimitAssumption DEF DraftsFit
<1>2. ASSUME NEW p \in P PROVE DraftsAreKept(p)'
  <2>1. drafts'[p] = {} /\ checkpoint'[p] = None /\ explicit'[p] = None BY DEF Forgotten
  <2> QED BY <1>1, <2>1 DEF DraftsAreKept
<1>3. ASSUME NEW p \in Projects \ P PROVE DraftsAreKept(p)'
  BY UntouchedDrafts DEF Forgotten, AllDraftsAreKept
<1> QED BY <1>2, <1>3 DEF AllDraftsAreKept

\* A checkpoint that is recorded has the drafts that are on disk.
LEMMA BegunDrafts ==
    ASSUME EditingInvariant, AllDraftsAreKept, NEW t \in Tabs, BeginCheckpoint(t)
    PROVE  AllDraftsAreKept'
<1>1. PICK p \in Projects : p = doc[t].project BY OpeningFacts DEF BeginCheckpoint
<1>2. UNCHANGED <<drafts, explicit>>
      /\ \/ checkpoint'[p] = checkpoint[p] \/ checkpoint'[p].drafts = drafts[p]
  BY <1>1 DEF BeginCheckpoint, EditingInvariant, TypeOK
<1>3. \A q \in Projects \ {p} : checkpoint'[q] = checkpoint[q]
  BY <1>1 DEF BeginCheckpoint, EditingInvariant, TypeOK
<1>4. DraftsAreKept(p)'
  <2>1. DraftsAreKept(p) BY DEF AllDraftsAreKept
  <2> QED BY <1>2, <2>1 DEF DraftsAreKept
<1>5. ASSUME NEW q \in Projects \ {p} PROVE DraftsAreKept(q)'
  BY <1>2, <1>3, UntouchedDrafts DEF AllDraftsAreKept
<1> QED BY <1>4, <1>5 DEF AllDraftsAreKept

\* What a transaction on drafts adds to those of its project.
Adds(p, d, x) ==
    /\ d \in Draft /\ \A e \in drafts[p] : e.id # d.id
    /\ drafts' = [drafts EXCEPT ![p] = Retained(drafts[p] \cup {d}, x)]

\* A draft that is saved is kept; if the user has asked for it, it is the last
\* save and the baseline has the explicit drafts that are left with it.
LEMMA SavedDrafts ==
    ASSUME EditingInvariant, AllDraftsAreKept, NEW t \in Tabs, CommitDraft(t)
    PROVE  AllDraftsAreKept'
<1>1. doc[t].queue # <<>> BY DEF CommitDraft, Running
<1>2. PICK p \in Projects, v \in Versions : p = doc[t].project /\ v = Head1(t).version
  BY <1>1, HeadFacts DEF Write
<1>3. /\ drafts \in [Projects -> SUBSET Draft]
      /\ checkpoint \in [Projects -> Checkpoint \cup {None}]
      /\ explicit \in [Projects -> Versions \cup {None}]
  BY DEF EditingInvariant, TypeOK
<1> DEFINE manual == Head1(t).tag # "auto"
<1>4. PICK now \in Times, i \in NewIds(p) :
        LET d == [id |-> i, version |-> v, at |-> now,
                  reason |-> IF manual THEN "manual" ELSE "auto"]
            r == Retained(drafts[p] \cup {d}, {d.id})
        IN  /\ drafts' = [drafts EXCEPT ![p] = r]
            /\ checkpoint' = IF manual
                  THEN [checkpoint EXCEPT ![p] = AdvanceBaseline(checkpoint[p], d, r)]
                  ELSE checkpoint
  BY <1>2, <1>3 DEF CommitDraft
<1> DEFINE d == [id |-> i, version |-> v, at |-> now,
                 reason |-> IF manual THEN "manual" ELSE "auto"]
           r == Retained(drafts[p] \cup {d}, {d.id})
<1>5. d \in Draft /\ d.version = v /\ (manual => d.reason = "manual")
      /\ (~manual => d.reason = "auto") /\ \A e \in drafts[p] : e.id # d.id
  <2>1. i \in DraftIds /\ \A e \in drafts[p] : e.id # i BY DEF NewIds
  <2> QED BY <2>1 DEF Draft
<1>6. drafts' = [drafts EXCEPT ![p] = r]
      /\ checkpoint' = IF manual
            THEN [checkpoint EXCEPT ![p] = AdvanceBaseline(checkpoint[p], d, r)]
            ELSE checkpoint
  BY <1>4
<1>7. explicit' = IF manual THEN [explicit EXCEPT ![p] = v] ELSE explicit
  BY <1>2 DEF CommitDraft
<1> DEFINE x == {d.id}
<1>8. x = {d.id} /\ r = Retained(drafts[p] \cup {d}, x) OBVIOUS
<1> HIDE DEF d, r, x
<1>9. drafts[p] \in SUBSET Draft /\ DraftsFit(drafts[p])
  BY <1>3 DEF AllDraftsAreKept, DraftsAreKept
<1>10. /\ DraftsFit(r)
       /\ d.reason # "manual" => Manual(r) = Manual(drafts[p])
       /\ d \in r
  BY <1>5, <1>8, <1>9, AddingFits
<1> HIDE DEF manual
<1>11. DraftsAreKept(p)'
  <2>1. drafts'[p] = r BY <1>3, <1>6
  <2>2. DraftsAreKept(p) BY DEF AllDraftsAreKept
  <2>3. CASE manual
    <3>1. explicit'[p] = v /\ checkpoint'[p] = AdvanceBaseline(checkpoint[p], d, r)
      BY <1>3, <1>6, <1>7, <2>3
    <3>2. d \in Manual(r) BY <1>5, <1>10, <2>3 DEF Manual
    <3>3. CASE checkpoint[p] = None
      <4>1. checkpoint'[p] = None BY <3>1, <3>3 DEF AdvanceBaseline
      <4> QED BY <1>5, <1>10, <2>1, <3>1, <3>2, <4>1 DEF DraftsAreKept
    <3>4. CASE checkpoint[p] # None
      <4>1. checkpoint'[p].drafts = Manual(r)
        BY <1>3, <3>1, <3>4 DEF AdvanceBaseline, Checkpoint
      <4>2. Manual(Manual(r)) = Manual(r) BY DEF Manual
      <4>3. DraftsFit(Manual(r))
        <5>1. Manual(r) \in SUBSET r BY DEF Manual
        <5>2. IsFiniteSet(Manual(r)) BY <1>10, <5>1, FS_Subset DEF DraftsFit
        <5>3. Manual(r) \ Manual(Manual(r)) = {} BY <4>2
        <5>4. Cardinality({}) <= TemporaryLimit BY FS_EmptySet, LimitAssumption
        <5> QED BY <1>10, <4>2, <5>1, <5>2, <5>3, <5>4 DEF DraftsFit
      <4> QED BY <1>5, <1>10, <2>1, <3>1, <3>2, <4>1, <4>2, <4>3 DEF DraftsAreKept
    <3> QED BY <3>3, <3>4
  <2>4. CASE ~manual
    <3>1. Manual(r) = Manual(drafts[p]) BY <1>5, <1>10, <2>4
    <3>2. checkpoint' = checkpoint /\ explicit' = explicit BY <1>6, <1>7, <2>4
    <3> QED BY <1>10, <2>1, <2>2, <3>1, <3>2 DEF DraftsAreKept
  <2> QED BY <2>3, <2>4
<1>12. ASSUME NEW q \in Projects \ {p} PROVE DraftsAreKept(q)'
  <2>1. /\ drafts'[q] = drafts[q] /\ checkpoint'[q] = checkpoint[q]
        /\ explicit'[q] = explicit[q]
    BY <1>3, <1>6, <1>7
  <2> QED BY <2>1, UntouchedDrafts DEF AllDraftsAreKept
<1> QED BY <1>11, <1>12 DEF AllDraftsAreKept

\* What a restore replaces is kept, and is not an explicit draft.
LEMMA RestoringAdds ==
    ASSUME EditingInvariant, NEW t \in Tabs, CommitRestore(t)
    PROVE  \E p \in Projects, pre \in Draft :
             /\ p = doc[t].project /\ doc[t].chosen \in drafts[p]
             /\ pre.reason = "pre-restore" /\ pre.version = Head1(t).version
             /\ Adds(p, pre, {pre.id, doc[t].chosen.id})
<1>1. doc[t].queue # <<>> BY DEF CommitRestore, Running
<1>2. PICK p \in Projects, v \in Versions : p = doc[t].project /\ v = Head1(t).version
  BY <1>1, HeadFacts DEF Write
<1>3. drafts \in [Projects -> SUBSET Draft] BY DEF EditingInvariant, TypeOK
<1>4. PICK now \in Times, i \in NewIds(p) :
        LET pre == [id |-> i, version |-> v, at |-> now, reason |-> "pre-restore"]
        IN  drafts' = [drafts EXCEPT ![p] =
                Retained(drafts[p] \cup {pre}, {pre.id, doc[t].chosen.id})]
  BY <1>2, <1>3 DEF CommitRestore
<1> DEFINE pre == [id |-> i, version |-> v, at |-> now, reason |-> "pre-restore"]
<1>5. /\ pre \in Draft /\ pre.reason = "pre-restore" /\ pre.version = v
      /\ \A e \in drafts[p] : e.id # pre.id
  <2>1. i \in DraftIds /\ \A e \in drafts[p] : e.id # i BY DEF NewIds
  <2> QED BY <2>1 DEF Draft
<1>6. drafts' = [drafts EXCEPT ![p] =
          Retained(drafts[p] \cup {pre}, {pre.id, doc[t].chosen.id})]
  BY <1>4
<1>7. doc[t].chosen \in drafts[p] BY <1>2 DEF CommitRestore
<1> HIDE DEF pre
<1> QED BY <1>2, <1>5, <1>6, <1>7 DEF Adds

LEMMA RestoredDrafts ==
    ASSUME EditingInvariant, AllDraftsAreKept, NEW t \in Tabs, CommitRestore(t)
    PROVE  AllDraftsAreKept'
<1>1. PICK p \in Projects, pre \in Draft :
        /\ pre.reason = "pre-restore" /\ Adds(p, pre, {pre.id, doc[t].chosen.id})
  BY RestoringAdds
<1> DEFINE x == {pre.id, doc[t].chosen.id}
           r == Retained(drafts[p] \cup {pre}, x)
<1>2. /\ drafts' = [drafts EXCEPT ![p] = r] /\ \A e \in drafts[p] : e.id # pre.id
      /\ UNCHANGED <<checkpoint, explicit>>
  BY <1>1 DEF Adds, CommitRestore
<1>3. drafts \in [Projects -> SUBSET Draft] BY DEF EditingInvariant, TypeOK
<1>4. drafts[p] \in SUBSET Draft /\ DraftsFit(drafts[p])
  BY <1>3 DEF AllDraftsAreKept, DraftsAreKept
<1> HIDE DEF x
<1>5. DraftsFit(r) /\ Manual(r) = Manual(drafts[p]) BY <1>1, <1>2, <1>4, AddingFits
<1> HIDE DEF r
<1>6. DraftsAreKept(p)'
  BY <1>2, <1>3, <1>5 DEF AllDraftsAreKept, DraftsAreKept
<1>7. ASSUME NEW q \in Projects \ {p} PROVE DraftsAreKept(q)'
  <2>1. drafts'[q] = drafts[q] BY <1>2, <1>3
  <2> QED BY <1>2, <2>1, UntouchedDrafts DEF AllDraftsAreKept
<1> QED BY <1>6, <1>7 DEF AllDraftsAreKept

\* What an exit commits has been saved before.
LEMMA CommittedDrafts ==
    ASSUME EditingInvariant, AllDraftsAreKept, NEW t \in Tabs, CommitCheckpoint(t)
    PROVE  AllDraftsAreKept'
<1>1. /\ doc[t] \in Document /\ DocumentIsConsistent(doc[t]) /\ DocumentIsCovered(t)
      /\ doc[t].exit = "commit" /\ SharedTypes
  BY DocumentFacts DEF CommitCheckpoint
<1>2. doc[t].at = "open" BY <1>1 DEF DocumentIsConsistent
<1>3. PICK p \in Projects : p = doc[t].project BY <1>1, <1>2 DEF DocumentIsCovered, Document
<1>4. doc[t].final = explicit[p] BY <1>1, <1>3 DEF DocumentIsConsistent, DocumentIsCovered
<1>5. /\ checkpoint' = [checkpoint EXCEPT ![p] = None] /\ drafts' = drafts
      /\ explicit' = explicit
  BY <1>1, <1>3, <1>4 DEF CommitCheckpoint, SharedTypes
<1>6. ASSUME NEW q \in Projects PROVE DraftsAreKept(q)'
  <2>1. checkpoint'[q] \in {checkpoint[q], None} BY <1>1, <1>5 DEF SharedTypes
  <2> QED BY <1>5, <2>1 DEF AllDraftsAreKept, DraftsAreKept
<1> QED BY <1>6 DEF AllDraftsAreKept

LEMMA NextKeepsDrafts ==
    EditingInvariant /\ AllDraftsAreKept /\ [Next]_vars => AllDraftsAreKept'
<1> SUFFICES ASSUME EditingInvariant, AllDraftsAreKept, [Next]_vars
             PROVE  AllDraftsAreKept'
  OBVIOUS
<1>1. ASSUME UNCHANGED <<drafts, checkpoint, explicit>> PROVE AllDraftsAreKept'
  BY <1>1 DEF AllDraftsAreKept, DraftsAreKept
<1>2. CASE UNCHANGED vars BY <1>1, <1>2 DEF vars
<1>3. ASSUME NEW t \in Tabs,
             \/ StartPage(t) \/ Refresh(t) \/ OpenRefused(t) \/ EnterEditor(t)
             \/ \E p \in Projects, fresh \in BOOLEAN : RequestOpen(t, p, fresh)
             \/ AcquireWriter(t) \/ WriterRefused(t) \/ BeginFails(t)
             \/ LoadProject(t) \/ EntryRefused(t)
      PROVE  AllDraftsAreKept'
  BY <1>1, <1>3
  DEF StartPage, Refresh, OpenRefused, EnterEditor, RequestOpen, Keep, store,
      AcquireWriter, WriterRefused, BeginFails, LoadProject, EntryRefused
<1>4. ASSUME NEW t \in Tabs, NEW p \in Projects,
             \/ AcquireAbandoned(t, p) \/ SkipOwned(t, p)
             \/ RollBack(t, p) \/ RollBackFails(t, p)
      PROVE  AllDraftsAreKept'
  BY <1>1, <1>4, DiscardedDrafts
  DEF AcquireAbandoned, SkipOwned, RollBack, RollBackFails, Keep, UnchangedStore, store
<1>5. ASSUME NEW t \in Tabs, DeleteAll(t) \/ \E p \in Projects : DeleteProject(t, p)
      PROVE  AllDraftsAreKept'
  <2>1. \E P \in SUBSET Projects : Forgotten(P) BY <1>5 DEF DeleteAll, DeleteProject
  <2> QED BY <2>1, ForgottenDrafts
<1>6. ASSUME NEW t \in Tabs,
             \/ Edit(t) \/ Flush(t) \/ ManualSave(t) \/ AutoSave(t) \/ Restore(t)
             \/ StartWrite(t) \/ RejectStale(t) \/ WriteFails(t) \/ CommitSave(t)
      PROVE  AllDraftsAreKept'
  BY <1>1, <1>6
  DEF Edit, Flush, ManualSave, AutoSave, Restore, StartWrite, RejectStale, WriteFails,
      CommitSave, Page, store
<1>7. ASSUME NEW t \in Tabs,
             \/ SaveAndExit(t) \/ DiscardAndExit(t) \/ ExitIdle(t) \/ ExitSeals(t)
             \/ ExitDrained(t) \/ ExitFails(t) \/ Leave(t) \/ Close(t) \/ Reload(t)
      PROVE  AllDraftsAreKept'
  BY <1>1, <1>7
  DEF SaveAndExit, DiscardAndExit, ExitIdle, ExitSeals, ExitDrained, ExitFails, Leave,
      Close, Reload, Page, store
<1>8. ASSUME NEW t \in Tabs, DiscardSession(t) PROVE AllDraftsAreKept'
  <2>1. PICK p : p = doc[t].project /\ DiscardCheckpoint(p) /\ checkpoint[p] # None
    BY <1>8 DEF DiscardSession, Owns
  <2>2. p \in Projects
    <3>1. doc[t].at = "open" BY <1>8, DocumentFacts DEF DiscardSession, DocumentIsConsistent
    <3> QED BY <2>1, <3>1, DocumentFacts DEF DocumentIsCovered, Document
  <2> QED BY <2>1, <2>2, DiscardedDrafts
<1> QED BY <1>2, <1>3, <1>4, <1>5, <1>6, <1>7, <1>8, BegunDrafts, SavedDrafts,
           RestoredDrafts, CommittedDrafts
        DEF Next, Cleaning, Writing, Exiting

-----------------------------------------------------------------------------
(* The restore that is queued *)

\* The queue after one more write, and after its head is taken off.
LEMMA EnqueuedQueue ==
    ASSUME NEW d \in Document, NEW w \in Write
    PROVE  LET e == Enqueued(d, w) IN
           /\ SameBut(d, e) /\ e.chosen = d.chosen /\ e.saveFailed = d.saveFailed
           /\ DOMAIN d.queue = 1..Len(d.queue) /\ Len(d.queue) \in Nat
           /\ DOMAIN e.queue = 1..(Len(d.queue) + 1)
           /\ \A i \in 1..Len(d.queue) : e.queue[i] = d.queue[i]
           /\ e.queue[Len(d.queue) + 1] = w
<1> DEFINE e == Enqueued(d, w)
<1>1. d.queue \in Seq(Write) BY DEF Document
<1>2. /\ e.queue = Append(d.queue, w) /\ SameBut(d, e) /\ e.chosen = d.chosen
      /\ e.saveFailed = d.saveFailed
  BY DEF Enqueued, Document, SameBut
<1> HIDE DEF e
<1>3. /\ DOMAIN e.queue = 1..(Len(d.queue) + 1)
      /\ \A i \in 1..Len(d.queue) : e.queue[i] = d.queue[i]
      /\ e.queue[Len(d.queue) + 1] = w
      /\ DOMAIN d.queue = 1..Len(d.queue) /\ Len(d.queue) \in Nat
  BY <1>1, <1>2, AppendFacts
<1> QED BY <1>2, <1>3 DEF e

LEMMA PoppedQueue ==
    ASSUME NEW d \in Document, d.queue # <<>>
    PROVE  LET e == Popped(d) IN
           /\ SameBut(d, e) /\ e.chosen = d.chosen /\ e.saveFailed = d.saveFailed
           /\ Head(d.queue) = d.queue[1] /\ 1 \in DOMAIN d.queue
           /\ DOMAIN e.queue \subseteq Nat \ {0} /\ DOMAIN d.queue \subseteq Nat
           /\ \A i \in DOMAIN e.queue : i + 1 \in DOMAIN d.queue
                                        /\ e.queue[i] = d.queue[i + 1]
<1> DEFINE e == Popped(d)
<1>1. d.queue \in Seq(Write) BY DEF Document
<1>2. /\ e.queue = Tail(d.queue) /\ SameBut(d, e) /\ e.chosen = d.chosen
      /\ e.saveFailed = d.saveFailed
  BY DEF Popped, Document, SameBut
<1> HIDE DEF e
<1>3. /\ Head(d.queue) = d.queue[1] /\ 1 \in DOMAIN d.queue
      /\ \A i \in DOMAIN e.queue : /\ i \in Nat /\ i >= 1
                                   /\ i + 1 \in DOMAIN d.queue
                                   /\ e.queue[i] = d.queue[i + 1]
      /\ DOMAIN d.queue \subseteq Nat
  BY <1>1, <1>2, TailFacts
<1> QED BY <1>2, <1>3 DEF e

LEMMA AdvancedQueue ==
    ASSUME NEW d \in Document, DocumentIsConsistent(d)
    PROVE  LET e == GenerationAdvanced(d) IN
           /\ e \in Document /\ SameBut(d, e)
           /\ e.chosen = d.chosen /\ e.saveFailed = d.saveFailed
           /\ DOMAIN e.queue = DOMAIN d.queue
           /\ \A i \in DOMAIN e.queue : /\ e.queue[i].tag = d.queue[i].tag
                                        /\ e.queue[i].version = d.queue[i].version
<1> DEFINE e == GenerationAdvanced(d)
<1>1. SameBut(d, e) /\ e.chosen = d.chosen /\ e.saveFailed = d.saveFailed
  BY DEF GenerationAdvanced, Document, SameBut
<1> HIDE DEF e
<1>2. /\ e \in Document /\ DOMAIN e.queue = DOMAIN d.queue
      /\ \A i \in DOMAIN e.queue : /\ e.queue[i].tag = d.queue[i].tag
                                   /\ e.queue[i].version = d.queue[i].version
  BY AdvancedIsConsistent DEF e
<1> QED BY <1>1, <1>2 DEF e

\* No restore is queued.
Unrestored(d) == \A i \in DOMAIN d.queue : d.queue[i].tag \notin {"barrier", "restore"}

LEMMA UnrestoredIsPending ==
    ASSUME NEW d, Unrestored(d)
    PROVE  RestoreIsPending(d)
  BY DEF Unrestored, RestoreIsPending

LEMMA PlainIsUnrestored ==
    ASSUME NEW d, Plain(d)
    PROVE  Unrestored(d)
  BY DEF Plain, Unrestored

\* Writes that were queued, or that restore nothing, leave a restore pending.
LEMMA PendingCarriesOver ==
    ASSUME NEW d, NEW e, RestoreIsPending(d), e.chosen = d.chosen, e.mem = d.mem,
           \A i \in DOMAIN e.queue :
                \/ e.queue[i].tag \notin {"barrier", "restore"}
                \/ \E k \in DOMAIN d.queue : /\ e.queue[i].tag = d.queue[k].tag
                                             /\ e.queue[i].version = d.queue[k].version
    PROVE  RestoreIsPending(e)
  BY DEF RestoreIsPending

LEMMA EnqueuedIsPending ==
    ASSUME NEW d \in Document, NEW w \in Write,
           \/ RestoreIsPending(d) /\ w.tag \notin {"barrier", "restore"}
           \/ /\ Unrestored(d) /\ d.chosen # None
              /\ w.tag = "restore" => w.version = d.mem
    PROVE  RestoreIsPending(Enqueued(d, w))
<1> DEFINE e == Enqueued(d, w)
           n == Len(d.queue)
<1>1. /\ e.chosen = d.chosen /\ e.mem = d.mem /\ n \in Nat
      /\ DOMAIN d.queue = 1..n /\ DOMAIN e.queue = 1..(n + 1)
      /\ \A i \in 1..n : e.queue[i] = d.queue[i]
      /\ e.queue[n + 1] = w
  BY EnqueuedQueue DEF SameBut
<1> HIDE DEF e, n
<1>2. \A i \in DOMAIN e.queue : (i \in DOMAIN d.queue /\ e.queue[i] = d.queue[i])
                                \/ e.queue[i] = w
  BY <1>1
<1>3. RestoreIsPending(e) BY <1>1, <1>2 DEF RestoreIsPending, Unrestored
<1> QED BY <1>3 DEF e

LEMMA PoppedIsPending ==
    ASSUME NEW d \in Document, d.queue # <<>>, RestoreIsPending(d)
    PROVE  RestoreIsPending(Popped(d))
<1> DEFINE e == Popped(d)
<1>1. /\ e.chosen = d.chosen /\ e.mem = d.mem
      /\ \A i \in DOMAIN e.queue : i + 1 \in DOMAIN d.queue
                                   /\ e.queue[i] = d.queue[i + 1]
  BY PoppedQueue DEF SameBut
<1> HIDE DEF e
<1>2. RestoreIsPending(e) BY <1>1, PendingCarriesOver
<1> QED BY <1>2 DEF e

LEMMA QuietIsUnrestored ==
    ASSUME NEW d, DocumentIsConsistent(d), ~(d.at = "open" /\ d.exit = "no" /\ d.drafting)
    PROVE  Unrestored(d)
  BY DEF DocumentIsConsistent, Unrestored

LEMMA FailedIsPending ==
    ASSUME NEW d \in Document, DocumentIsConsistent(d), d.queue # <<>>, RestoreIsPending(d)
    PROVE  RestoreIsPending(AfterFailure(Popped(d), Head(d.queue).tag))
<1> DEFINE b == Popped(d)
           tag == Head(d.queue).tag
           e == AfterFailure(b, tag)
<1>1. b \in Document /\ RestoreIsPending(b) /\ (tag # "snapshot" => Plain(b))
  BY PoppedDocument, PoppedIsPending, PoppedIsConsistent
<1> HIDE DEF b, tag
<1>2. e.queue = b.queue /\ e.mem = b.mem /\ (tag = "snapshot" => e.chosen = b.chosen)
  BY <1>1 DEF AfterFailure, Document
<1> HIDE DEF e
<1>3. CASE tag = "snapshot" BY <1>1, <1>2, <1>3 DEF RestoreIsPending, e, b, tag
<1>4. CASE tag # "snapshot"
  <2>1. Plain(e) BY <1>1, <1>2, <1>4 DEF Plain
  <2> QED BY <2>1, PlainIsUnrestored, UnrestoredIsPending DEF e, b, tag
<1> QED BY <1>3, <1>4

LEMMA SavedIsPending ==
    ASSUME NEW d \in Document, DocumentIsConsistent(d), d.queue # <<>>,
           RestoreIsPending(d), Head(d.queue).tag \in Saves
    PROVE  RestoreIsPending(AfterSave(Popped(d), Head(d.queue)))
<1> DEFINE b == Popped(d)
           w == Head(d.queue)
           e == AfterSave(b, w)
<1>1. /\ b \in Document /\ DocumentIsConsistent(b) /\ b.mem = d.mem /\ b.chosen = d.chosen
      /\ RestoreIsPending(b) /\ (w.tag # "snapshot" => Plain(b))
      /\ w = d.queue[1] /\ 1 \in DOMAIN d.queue /\ w.tag \in Saves
  BY PoppedDocument, PoppedIsPending, PoppedIsConsistent DEF SameBut
<1>2. d.mem # None /\ (w.tag = "barrier" => d.chosen # None)
  BY <1>1 DEF DocumentIsConsistent, RestoreIsPending
<1> HIDE DEF b, w
<1>3. CASE w.tag = "snapshot"
  <2>1. e.queue = b.queue /\ e.mem = b.mem /\ e.chosen = b.chosen
    BY <1>1, <1>3 DEF AfterSave, Document
  <2> HIDE DEF e
  <2>2. RestoreIsPending(e) BY <1>1, <2>1 DEF RestoreIsPending
  <2> QED BY <2>2 DEF e, b, w
<1>4. CASE w.tag \in {"final", "entry"}
  <2>1. e.queue = b.queue BY <1>1, <1>4 DEF AfterSave, Document
  <2> HIDE DEF e
  <2>2. Plain(e) BY <1>1, <1>4, <2>1 DEF Plain
  <2>3. RestoreIsPending(e) BY <2>2, PlainIsUnrestored, UnrestoredIsPending
  <2> QED BY <2>3 DEF e, b, w
<1>5. CASE w.tag = "barrier"
  <2> DEFINE g == GenerationAdvanced(b)
             r == NewWrite("restore", b.mem)
  <2>1. /\ g \in Document /\ g.mem = b.mem /\ g.chosen = b.chosen /\ Plain(g)
    BY <1>1, <1>5, AdvancedQueue DEF Plain, SameBut
  <2>2. r \in Write /\ r.tag = "restore" /\ r.version = b.mem
    <3>1. b.mem \in Versions BY <1>1, <1>2 DEF Document
    <3> QED BY <3>1, NewWriteType DEF Tags
  <2>3. e = Enqueued(g, r) BY <1>5 DEF AfterSave
  <2> HIDE DEF g, r, e
  <2>4. Unrestored(g) BY <2>1, PlainIsUnrestored
  <2>5. RestoreIsPending(e)
    BY <1>1, <1>2, <1>5, <2>1, <2>2, <2>3, <2>4, EnqueuedIsPending
  <2> QED BY <2>5 DEF e, b, w
<1> QED BY <1>1, <1>3, <1>4, <1>5 DEF Saves

\* A transaction on drafts leaves plain snapshots behind.
LEMMA DraftedIsPending ==
    ASSUME EditingInvariant, NEW t \in Tabs, CommitDraft(t) \/ CommitRestore(t)
    PROVE  RestoreIsPending(doc'[t])
<1> DEFINE b == Popped(doc[t])
<1>1. doc[t].queue # <<>> /\ doc[t] \in Document /\ DocumentIsConsistent(doc[t])
  BY DocumentFacts DEF CommitDraft, CommitRestore, Running
<1>2. b \in Document /\ Plain(b)
  <2>1. Head(doc[t].queue).tag # "snapshot"
    BY DEF CommitDraft, CommitRestore, Head1, DraftSaves
  <2> QED BY <1>1, <2>1, PoppedDocument, PoppedIsConsistent
<1>3. doc'[t].queue = b.queue
  <2>1. CASE CommitDraft(t)
    <3>1. doc'[t] = AfterDraft(b, Head1(t))
      BY <2>1, DocumentFacts DEF CommitDraft, Becomes
    <3> HIDE DEF b
    <3> QED BY <1>2, <3>1 DEF AfterDraft, Document
  <2>2. CASE CommitRestore(t)
    <3>1. doc'[t] = [b EXCEPT !.mem = tick + 1, !.drafting = FALSE, !.chosen = None,
                              !.drafted = IF @ = doc[t].mem THEN tick + 1 ELSE @]
      BY <2>2, DocumentFacts DEF CommitRestore, Becomes
    <3> HIDE DEF b
    <3> QED BY <1>2, <3>1 DEF Document
  <2> QED BY <2>1, <2>2
<1> HIDE DEF b
<1>4. Plain(doc'[t]) BY <1>2, <1>3 DEF Plain
<1> QED BY <1>4, PlainIsUnrestored, UnrestoredIsPending

\* Asking for a write.
LEMMA RequestedIsPending ==
    ASSUME EditingInvariant, NEW t \in Tabs, RestoreIsPending(doc[t]),
           Edit(t) \/ Flush(t) \/ ManualSave(t) \/ AutoSave(t) \/ Restore(t)
    PROVE  RestoreIsPending(doc'[t])
<1>1. /\ doc[t] \in Document /\ DocumentIsConsistent(doc[t]) BY DocumentFacts
<1>2. CASE Edit(t)
  <2> DEFINE d == [doc[t] EXCEPT !.mem = tick + 1, !.saveFailed = FALSE]
             w == NewWrite("snapshot", tick + 1)
  <2>1. tick + 1 \in Versions /\ doc[t].chosen = None
    BY <1>2, DocumentFacts, LimitAssumption DEF Edit, Versions
  <2>2. d \in Document /\ d.queue = doc[t].queue
    <3>1. tick + 1 \in Versions BY <2>1
    <3>5. d \in Document BY <1>1, <3>1 DEF Document
    <3>2. d.queue = doc[t].queue BY <1>1 DEF Document
    <3> QED BY <3>2, <3>5
  <2>3. w \in Write /\ w.tag = "snapshot" BY <2>1, NewWriteType DEF Tags, Saves
  <2>4. doc'[t] = Enqueued(d, w)
    BY <1>1, <1>2, DocumentFacts DEF Edit, Becomes, SnapshotEnqueued, Document
  <2> HIDE DEF d, w
  <2>5. Unrestored(d) BY <2>1, <2>2 DEF RestoreIsPending, Unrestored
  <2>6. RestoreIsPending(d) BY <2>5, UnrestoredIsPending
  <2> QED BY <2>2, <2>3, <2>4, <2>6, EnqueuedIsPending
<1>3. CASE Flush(t)
  <2> DEFINE d == [doc[t] EXCEPT !.saveFailed = FALSE]
             w == NewWrite("snapshot", doc[t].mem)
  <2>1. doc[t].mem \in Versions BY <1>1, <1>3 DEF Flush, Document
  <2>2. /\ d \in Document /\ d.queue = doc[t].queue /\ d.mem = doc[t].mem
        /\ d.chosen = doc[t].chosen
    BY <1>1 DEF Document
  <2>3. w \in Write /\ w.tag = "snapshot" BY <2>1, NewWriteType DEF Tags, Saves
  <2>4. doc'[t] = Enqueued(d, w)
    BY <1>1, <1>3, DocumentFacts DEF Flush, Becomes, SnapshotEnqueued, Document
  <2> HIDE DEF d, w
  <2>5. RestoreIsPending(d) BY <2>2 DEF RestoreIsPending
  <2> QED BY <2>2, <2>3, <2>4, <2>5, EnqueuedIsPending
<1>4. ASSUME ManualSave(t) \/ AutoSave(t) \/ Restore(t)
      PROVE  Plain(doc[t]) /\ doc[t].mem \in Versions
  <2>1. doc[t].at = "open" /\ doc[t].exit = "no" /\ ~doc[t].drafting
    BY <1>4 DEF ManualSave, AutoSave, Restore, Editable
  <2>2. doc[t].mem # None BY <1>1, <2>1 DEF DocumentIsConsistent
  <2> QED BY <1>1, <2>1, <2>2, QuietQueueIsPlain DEF Document
<1>5. CASE ManualSave(t) \/ AutoSave(t)
  <2> DEFINE d == [doc[t] EXCEPT !.drafting = TRUE]
  <2>1. PICK tag \in {"manual", "auto"} : doc'[t] = Enqueued(d, NewWrite(tag, doc[t].mem))
    BY <1>5, DocumentFacts DEF ManualSave, AutoSave, Becomes
  <2>2. d \in Document /\ d.queue = doc[t].queue BY <1>1 DEF Document
  <2> HIDE DEF d
  <2>3. Plain(d) BY <1>4, <1>5, <2>2 DEF Plain
  <2>4. RestoreIsPending(d) BY <2>3, PlainIsUnrestored, UnrestoredIsPending
  <2>5. NewWrite(tag, doc[t].mem) \in Write /\ NewWrite(tag, doc[t].mem).tag = tag
    BY <1>4, <1>5, NewWriteType DEF Tags, DraftSaves
  <2> QED BY <2>1, <2>2, <2>4, <2>5, EnqueuedIsPending
<1>6. CASE Restore(t)
  <2> DEFINE w == NewWrite("barrier", doc[t].mem)
  <2>1. PICK c \in drafts[doc[t].project] :
          doc'[t] = Enqueued([doc[t] EXCEPT !.drafting = TRUE, !.chosen = c], w)
    BY <1>6, DocumentFacts DEF Restore, Becomes
  <2>2. c \in Draft
    <3>1. doc[t].project \in Projects
      BY <1>1, <1>6, DocumentFacts DEF Restore, Editable, DocumentIsCovered, Document
    <3> QED BY <3>1, DocumentFacts DEF SharedTypes
  <2> DEFINE d == [doc[t] EXCEPT !.drafting = TRUE, !.chosen = c]
  <2>3. d \in Document /\ d.queue = doc[t].queue /\ d.chosen # None
    BY <1>1, <2>2, NoneAssumption DEF Document
  <2>4. w \in Write /\ w.tag = "barrier" BY <1>4, <1>6, NewWriteType DEF Tags, Saves
  <2>5. doc'[t] = Enqueued(d, w) BY <2>1
  <2> HIDE DEF d, w
  <2>6. Plain(d) BY <1>4, <1>6, <2>3 DEF Plain
  <2>7. Unrestored(d) BY <2>6, PlainIsUnrestored
  <2> QED BY <2>3, <2>4, <2>5, <2>7, EnqueuedIsPending
<1> QED BY <1>2, <1>3, <1>5, <1>6

AllArePending == \A t \in Tabs : RestoreIsPending(doc[t])

LEMMA NextKeepsPending ==
    EditingInvariant /\ EditingInvariant' /\ AllArePending /\ [Next]_vars => AllArePending'
<1> SUFFICES ASSUME EditingInvariant, EditingInvariant', AllArePending, [Next]_vars,
                    NEW s \in Tabs
             PROVE  RestoreIsPending(doc'[s])
  BY DEF AllArePending
<1>1. RestoreIsPending(doc[s]) BY DEF AllArePending
<1>2. ASSUME doc'[s] = doc[s] PROVE RestoreIsPending(doc'[s]) BY <1>1, <1>2
<1>3. ASSUME ~(doc'[s].at = "open" /\ doc'[s].exit = "no" /\ doc'[s].drafting)
      PROVE  RestoreIsPending(doc'[s])
  <2>1. DocumentIsConsistent(doc'[s]) BY DEF EditingInvariant
  <2> QED BY <1>3, <2>1, QuietIsUnrestored, UnrestoredIsPending
<1>4. doc \in [Tabs -> Document] /\ doc[s] \in Document /\ DocumentIsConsistent(doc[s])
  BY DocumentFacts
<1>5. CASE UNCHANGED vars BY <1>2, <1>5 DEF vars
<1>6. ASSUME NEW t \in Tabs,
             \/ StartPage(t) \/ Refresh(t) \/ OpenRefused(t) \/ EnterEditor(t)
             \/ \E p \in Projects, fresh \in BOOLEAN : RequestOpen(t, p, fresh)
             \/ Cleaning(t)
             \/ \E p \in Projects : DeleteProject(t, p)
             \/ DeleteAll(t)
             \/ AcquireWriter(t) \/ WriterRefused(t)
             \/ BeginCheckpoint(t) \/ BeginFails(t)
             \/ LoadProject(t) \/ EntryRefused(t)
      PROVE  RestoreIsPending(doc'[s])
  <2>1. doc'[s] = doc[s] \/ doc'[s].at # "open"
    <3>1. CASE s # t
      BY <1>4, <1>6, <3>1
      DEF StartPage, Refresh, OpenRefused, EnterEditor, RequestOpen, Cleaning,
          AcquireAbandoned, SkipOwned, RollBack, RollBackFails, DeleteProject, DeleteAll,
          AcquireWriter, WriterRefused, BeginCheckpoint, BeginFails, LoadProject,
          EntryRefused, Fails
    <3>2. CASE s = t
      <4>1. CASE LoadProject(t)
        <5>1. PICK v : doc'[t] = Enqueued([doc[t] EXCEPT !.at = "entering", !.mem = v],
                                          NewWrite("entry", v))
          BY <1>4, <3>2, <4>1 DEF LoadProject
        <5> QED BY <1>4, <3>2, <5>1 DEF Enqueued, Document
      <4>2. CASE EnterEditor(t)
        <5>1. doc'[t] = [Off EXCEPT !.at = "gate", !.project = doc[t].target]
          BY <1>4, <3>2, <4>2 DEF EnterEditor
        <5> QED BY <3>2, <5>1 DEF Off
      <4>3. CASE AcquireWriter(t) \/ WriterRefused(t) \/ BeginCheckpoint(t) \/ BeginFails(t)
                 \/ EntryRefused(t)
        BY <1>4, <3>2, <4>3
        DEF AcquireWriter, WriterRefused, BeginCheckpoint, BeginFails, EntryRefused, Fails,
            Document
      <4>4. CASE StartPage(t)
        BY <1>4, <3>2, <4>4 DEF StartPage, Document
      <4>5. CASE Refresh(t) \/ OpenRefused(t) \/ DeleteAll(t)
        BY <1>4, <3>2, <4>5 DEF Refresh, OpenRefused, DeleteAll, Settled, Document
      <4>6. ASSUME NEW p \in Projects,
                   \/ \E fresh \in BOOLEAN : RequestOpen(t, p, fresh)
                   \/ AcquireAbandoned(t, p) \/ SkipOwned(t, p)
                   \/ RollBack(t, p) \/ RollBackFails(t, p) \/ DeleteProject(t, p)
            PROVE  doc'[t].at = "start"
        <5>1. doc[t].at = "start"
          BY <4>6
          DEF RequestOpen, AcquireAbandoned, SkipOwned, RollBack, RollBackFails,
              DeleteProject, Settled
        <5>2. CASE \E fresh \in BOOLEAN : RequestOpen(t, p, fresh)
          BY <1>4, <3>2, <5>1, <5>2 DEF RequestOpen, Document
        <5>3. CASE AcquireAbandoned(t, p) \/ SkipOwned(t, p) \/ DeleteProject(t, p)
          BY <1>4, <3>2, <5>1, <5>3 DEF AcquireAbandoned, SkipOwned, DeleteProject, Document
        <5>4. CASE RollBack(t, p) \/ RollBackFails(t, p)
          BY <1>4, <3>2, <5>1, <5>4 DEF RollBack, RollBackFails, Document
        <5> QED BY <4>6, <5>2, <5>3, <5>4
      <4> QED BY <1>6, <3>2, <4>1, <4>2, <4>3, <4>4, <4>5, <4>6 DEF Cleaning
    <3> QED BY <3>1, <3>2
  <2> QED BY <1>2, <1>3, <2>1
<1>7. ASSUME NEW t \in Tabs,
             Edit(t) \/ Flush(t) \/ ManualSave(t) \/ AutoSave(t) \/ Restore(t)
      PROVE  RestoreIsPending(doc'[s])
  <2>1. s # t => doc'[s] = doc[s]
    BY <1>4, <1>7 DEF Edit, Flush, ManualSave, AutoSave, Restore, Becomes
  <2> QED BY <1>1, <1>2, <1>7, <2>1, RequestedIsPending
<1>8. ASSUME NEW t \in Tabs, Writing(t) PROVE RestoreIsPending(doc'[s])
  <2>1. s # t => doc'[s] = doc[s]
    BY <1>4, <1>8
    DEF Writing, StartWrite, RejectStale, WriteFails, CommitSave, CommitDraft,
        CommitRestore, Becomes
  <2>2. ASSUME s = t PROVE RestoreIsPending(doc'[s])
    <3>1. CASE StartWrite(t)
      <4>1. /\ doc'[s].queue = doc[s].queue /\ doc'[s].mem = doc[s].mem
            /\ doc'[s].chosen = doc[s].chosen
        BY <1>4, <2>2, <3>1 DEF StartWrite, Document
      <4> QED BY <1>1, <4>1 DEF RestoreIsPending
    <3>2. CASE RejectStale(t) \/ WriteFails(t)
      <4>1. /\ doc[s].queue # <<>>
            /\ doc'[s] = AfterFailure(Popped(doc[s]), Head(doc[s].queue).tag)
        BY <1>4, <2>2, <3>2 DEF RejectStale, WriteFails, Waiting, Running, Becomes, Head1
      <4> QED BY <1>1, <1>4, <4>1, FailedIsPending
    <3>3. CASE CommitSave(t)
      <4>1. /\ doc[s].queue # <<>> /\ Head(doc[s].queue).tag \in Saves
            /\ doc'[s] = AfterSave(Popped(doc[s]), Head(doc[s].queue))
        BY <1>4, <2>2, <3>3 DEF CommitSave, Running, Becomes, Head1
      <4> QED BY <1>1, <1>4, <4>1, SavedIsPending
    <3> QED BY <1>8, <2>2, <3>1, <3>2, <3>3, DraftedIsPending DEF Writing
  <2> QED BY <1>2, <2>1, <2>2
<1>9. ASSUME NEW t \in Tabs,
             \/ SaveAndExit(t) \/ DiscardAndExit(t) \/ ExitIdle(t) \/ ExitSeals(t)
             \/ ExitDrained(t) \/ CommitCheckpoint(t) \/ DiscardSession(t)
             \/ Leave(t) \/ Close(t) \/ Reload(t)
      PROVE  RestoreIsPending(doc'[s])
  <2>1. s # t => doc'[s] = doc[s]
    BY <1>4, <1>9
    DEF SaveAndExit, DiscardAndExit, ExitIdle, ExitSeals, ExitDrained, CommitCheckpoint,
        DiscardSession, Leave, Close, Reload, Becomes
  <2>2. ASSUME s = t PROVE ~(doc'[s].at = "open" /\ doc'[s].exit = "no")
    <3>1. CASE SaveAndExit(t)
      <4>1. doc'[t] = SnapshotEnqueued([doc[t] EXCEPT !.exit = "flush"], "final")
        BY <1>4, <3>1 DEF SaveAndExit, Becomes
      <4>2. doc'[t].exit = "flush"
        BY <1>4, <2>2, <4>1 DEF SnapshotEnqueued, Enqueued, Document
      <4> QED BY <2>2, <4>2
    <3>2. CASE ExitIdle(t)
      <4>1. doc'[t] = Enqueued([doc[t] EXCEPT !.exit = "seal"], NewWrite("seal", doc[t].mem))
        BY <1>4, <3>2 DEF ExitIdle, Becomes
      <4>2. doc'[t].exit = "seal" BY <1>4, <2>2, <4>1 DEF Enqueued, Document
      <4> QED BY <2>2, <4>2
    <3>5. CASE DiscardAndExit(t)
      <4>1. doc'[t].exit = "drain" BY <1>4, <2>2, <3>5 DEF DiscardAndExit, Document
      <4> QED BY <2>2, <4>1
    <3>6. CASE ExitSeals(t) \/ ExitDrained(t)
      <4>1. \/ doc'[t] = GenerationAdvanced([doc[t] EXCEPT !.completed = TRUE,
                                                            !.exit = "commit"])
            \/ doc'[t] = GenerationAdvanced([doc[t] EXCEPT !.exit = "discard"])
        BY <1>4, <3>6 DEF ExitSeals, ExitDrained, Becomes
      <4>2. doc'[t].exit \in {"commit", "discard"}
        BY <1>4, <2>2, <4>1 DEF GenerationAdvanced, Document
      <4> QED BY <2>2, <4>2
    <3>3. CASE CommitCheckpoint(t) \/ DiscardSession(t)
      <4>1. doc'[t].at = "left"
        BY <1>4, <2>2, <3>3 DEF CommitCheckpoint, DiscardSession, Document
      <4> QED BY <2>2, <4>1
    <3>4. CASE Leave(t) \/ Close(t) \/ Reload(t)
      <4>1. doc'[t] = Off \/ doc'[t] = [Off EXCEPT !.at = "gate", !.project = session[t].project]
        BY <1>4, <3>4 DEF Leave, Close, Reload, Becomes
      <4>2. /\ Off.at = "off"
            /\ \A q : [Off EXCEPT !.at = "gate", !.project = q].at = "gate"
        BY DEF Off
      <4>3. doc'[t].at \in {"off", "gate"} BY <4>1, <4>2
      <4> QED BY <2>2, <4>3
    <3> QED BY <1>9, <3>1, <3>2, <3>3, <3>4, <3>5, <3>6
  <2> QED BY <1>2, <1>3, <2>1, <2>2
<1>10. ASSUME NEW t \in Tabs, ExitFails(t) PROVE RestoreIsPending(doc'[s])
  <2>1. /\ doc'[s].queue = doc[s].queue /\ doc'[s].mem = doc[s].mem
        /\ doc'[s].chosen = doc[s].chosen
    BY <1>4, <1>10 DEF ExitFails, Document
  <2> QED BY <1>1, <2>1 DEF RestoreIsPending
<1> QED BY <1>5, <1>6, <1>7, <1>8, <1>9, <1>10 DEF Next, Exiting

-----------------------------------------------------------------------------
(* What holds of drafts *)

LEMMA DraftInvariantParts ==
    DraftInvariant <=> EditingInvariant /\ AllDraftsAreKept /\ AllArePending
  BY DEF DraftInvariant, LastSaveIsListed, BaselineTracksSavedDrafts, AllDraftsAreKept,
         DraftsAreKept, AllArePending

\* The inductive invariant of the drafts holds: the limits and the ids of every
\* list and baseline, the explicit drafts they share, and the restore under way.
THEOREM DraftInvariantHolds == Spec => []DraftInvariant
<1>1. Init => AllDraftsAreKept /\ AllArePending
  <2> SUFFICES ASSUME Init PROVE AllDraftsAreKept /\ AllArePending
    OBVIOUS
  <2>1. DraftsFit({})
    <3>1. Manual({}) = {} BY DEF Manual
    <3> QED BY <3>1, FS_EmptySet, LimitAssumption DEF DraftsFit
  <2>2. \A p \in Projects : /\ drafts[p] = {} /\ checkpoint[p] = None
                            /\ explicit[p] \in {None, 0}
    BY DEF Init
  <2>3. RestoreIsPending(Off)
    BY OffIsDocument, PlainIsUnrestored, UnrestoredIsPending
  <2> QED BY <2>1, <2>2, <2>3 DEF AllDraftsAreKept, DraftsAreKept, AllArePending, Init
<1>2. EditingInvariant /\ EditingInvariant' /\ AllDraftsAreKept /\ AllArePending
        /\ [Next]_vars => AllDraftsAreKept' /\ AllArePending'
  BY NextKeepsDrafts, NextKeepsPending
<1> QED BY <1>1, <1>2, DraftInvariantParts, EditingInvariantHolds, PTL DEF Spec

\* Trimming never removes the draft of the last explicit save.
THEOREM LastSavesAreListed == Spec => []LastSaveIsListed
<1>1. DraftInvariant => LastSaveIsListed BY DEF DraftInvariant
<1> QED BY <1>1, DraftInvariantHolds, PTL

\* The rollback snapshot has exactly the explicit drafts that are on disk.
THEOREM BaselinesTrackSavedDrafts == Spec => []BaselineTracksSavedDrafts
<1>1. DraftInvariant => BaselineTracksSavedDrafts BY DEF DraftInvariant
<1> QED BY <1>1, DraftInvariantHolds, PTL

\* Only a restore replaces what is shown while a draft has been chosen.
LEMMA OnlyRestoringReplaces ==
    ASSUME EditingInvariant, Next, NEW t \in Tabs,
           doc[t].chosen # None, doc'[t].at = "open", doc'[t].mem # doc[t].mem
    PROVE  CommitRestore(t)
<1>1. /\ doc \in [Tabs -> Document] /\ doc[t] \in Document /\ DocumentIsConsistent(doc[t])
  BY DocumentFacts
<1>2. ASSUME NEW s \in Tabs,
             \/ StartPage(s) \/ Refresh(s) \/ OpenRefused(s)
             \/ \E p \in Projects, fresh \in BOOLEAN : RequestOpen(s, p, fresh)
             \/ Cleaning(s)
             \/ \E p \in Projects : DeleteProject(s, p)
             \/ DeleteAll(s)
             \/ AcquireWriter(s) \/ WriterRefused(s)
             \/ BeginCheckpoint(s) \/ BeginFails(s) \/ EntryRefused(s)
             \/ DiscardAndExit(s) \/ CommitCheckpoint(s) \/ DiscardSession(s)
             \/ ExitFails(s) \/ StartWrite(s)
      PROVE  FALSE
  <2>1. CASE s # t
    <3>1. doc'[t] = doc[t]
      BY <1>1, <1>2, <2>1
      DEF StartPage, Refresh, OpenRefused, RequestOpen, Cleaning, AcquireAbandoned,
          SkipOwned, RollBack, RollBackFails, DeleteProject, DeleteAll, AcquireWriter,
          WriterRefused, BeginCheckpoint, BeginFails, EntryRefused, Fails,
          DiscardAndExit, CommitCheckpoint, DiscardSession, ExitFails, StartWrite
    <3> QED BY <3>1
  <2>2. CASE s = t
    <3>1. CASE \/ AcquireWriter(t) \/ WriterRefused(t) \/ BeginCheckpoint(t)
               \/ BeginFails(t) \/ EntryRefused(t)
      <4>1. doc'[t].mem = doc[t].mem
        BY <1>1, <3>1
        DEF AcquireWriter, WriterRefused, BeginCheckpoint, BeginFails, EntryRefused, Fails,
            Document
      <4> QED BY <4>1
    <3>2. CASE StartPage(t) \/ Refresh(t) \/ OpenRefused(t) \/ DeleteAll(t)
      <4>1. doc'[t].mem = doc[t].mem
        BY <1>1, <3>2 DEF StartPage, Refresh, OpenRefused, DeleteAll, Document
      <4> QED BY <4>1
    <3>3. CASE DiscardAndExit(t) \/ ExitFails(t) \/ StartWrite(t)
      <4>1. doc'[t].mem = doc[t].mem
        BY <1>1, <3>3 DEF DiscardAndExit, ExitFails, StartWrite, Document
      <4> QED BY <4>1
    <3>4. CASE CommitCheckpoint(t) \/ DiscardSession(t)
      <4>1. doc'[t].mem = doc[t].mem
        BY <1>1, <3>4 DEF CommitCheckpoint, DiscardSession, Document
      <4> QED BY <4>1
    <3>5. ASSUME NEW p \in Projects,
                 \/ \E fresh \in BOOLEAN : RequestOpen(t, p, fresh)
                 \/ AcquireAbandoned(t, p) \/ SkipOwned(t, p)
                 \/ RollBack(t, p) \/ RollBackFails(t, p) \/ DeleteProject(t, p)
          PROVE  FALSE
      <4>1. CASE \E fresh \in BOOLEAN : RequestOpen(t, p, fresh)
        <5>1. doc'[t].mem = doc[t].mem BY <1>1, <4>1 DEF RequestOpen, Document
        <5> QED BY <5>1
      <4>2. CASE AcquireAbandoned(t, p) \/ SkipOwned(t, p) \/ DeleteProject(t, p)
        <5>1. doc'[t].mem = doc[t].mem
          BY <1>1, <4>2 DEF AcquireAbandoned, SkipOwned, DeleteProject, Document
        <5> QED BY <5>1
      <4>3. CASE RollBack(t, p) \/ RollBackFails(t, p)
        <5>1. doc'[t].mem = doc[t].mem
          BY <1>1, <4>3 DEF RollBack, RollBackFails, Document
        <5> QED BY <5>1
      <4> QED BY <3>5, <4>1, <4>2, <4>3
    <3> QED BY <1>2, <2>2, <3>1, <3>2, <3>3, <3>4, <3>5 DEF Cleaning
  <2> QED BY <2>1, <2>2
<1>3. ASSUME NEW s \in Tabs, NEW e, doc' = [doc EXCEPT ![s] = e],
             e.mem = doc[s].mem \/ e.at # "open"
      PROVE  FALSE
  BY <1>1, <1>3
<1>4. ASSUME NEW s \in Tabs, LoadProject(s) PROVE FALSE
  <2>1. PICK v : doc' = [doc EXCEPT ![s] =
                    Enqueued([doc[s] EXCEPT !.at = "entering", !.mem = v],
                             NewWrite("entry", v))]
    BY <1>1, <1>4 DEF LoadProject
  <2>2. doc[s] \in Document BY <1>1
  <2>3. Enqueued([doc[s] EXCEPT !.at = "entering", !.mem = v],
                 NewWrite("entry", v)).at = "entering"
    BY <2>2 DEF Enqueued, Document
  <2> QED BY <1>3, <2>1, <2>3
<1>5. ASSUME NEW s \in Tabs, EnterEditor(s) \/ Leave(s) \/ Close(s) \/ Reload(s)
      PROVE  FALSE
  <2>1. /\ Off.at = "off"
        /\ \A q : [Off EXCEPT !.at = "gate", !.project = q].at = "gate"
    BY DEF Off
  <2>2. \/ doc' = [doc EXCEPT ![s] = Off]
        \/ \E q : doc' = [doc EXCEPT ![s] = [Off EXCEPT !.at = "gate", !.project = q]]
    BY <1>5 DEF EnterEditor, Leave, Close, Reload, Becomes
  <2> QED BY <1>3, <2>1, <2>2
<1>6. ASSUME NEW s \in Tabs, Edit(s) PROVE FALSE
  BY <1>1, <1>6 DEF Edit, Becomes
<1>7. ASSUME NEW s \in Tabs, Flush(s) \/ ManualSave(s) \/ AutoSave(s) \/ Restore(s)
                             \/ SaveAndExit(s) \/ ExitIdle(s)
      PROVE  FALSE
  <2>1. doc[s] \in Document BY <1>1
  <2>2. ASSUME NEW d, NEW w, doc' = [doc EXCEPT ![s] = Enqueued(d, w)],
               d.mem = doc[s].mem, "mem" \in DOMAIN d
        PROVE  FALSE
    <3>1. Enqueued(d, w).mem = d.mem BY <2>2 DEF Enqueued
    <3> QED BY <1>3, <2>2, <3>1
  <2>3. CASE Flush(s)
    <3> DEFINE d == [doc[s] EXCEPT !.saveFailed = FALSE]
    <3>1. d.mem = doc[s].mem /\ "mem" \in DOMAIN d BY <2>1 DEF Document
    <3>2. doc' = [doc EXCEPT ![s] = Enqueued(d, NewWrite("snapshot", doc[s].mem))]
      BY <2>3, <3>1 DEF Flush, SnapshotEnqueued, Becomes
    <3> HIDE DEF d
    <3> QED BY <2>2, <3>1, <3>2
  <2>4. CASE SaveAndExit(s)
    <3> DEFINE d == [[doc[s] EXCEPT !.exit = "flush"] EXCEPT !.saveFailed = FALSE]
    <3>1. /\ d.mem = doc[s].mem /\ "mem" \in DOMAIN d
          /\ [doc[s] EXCEPT !.exit = "flush"].mem = doc[s].mem
      BY <2>1 DEF Document
    <3>2. doc' = [doc EXCEPT ![s] = Enqueued(d, NewWrite("final", doc[s].mem))]
      BY <2>4, <3>1 DEF SaveAndExit, SnapshotEnqueued, Becomes
    <3> HIDE DEF d
    <3> QED BY <2>2, <3>1, <3>2
  <2>5. CASE ManualSave(s) \/ AutoSave(s)
    <3> DEFINE d == [doc[s] EXCEPT !.drafting = TRUE]
    <3>1. d.mem = doc[s].mem /\ "mem" \in DOMAIN d BY <2>1 DEF Document
    <3>2. \E w : doc' = [doc EXCEPT ![s] = Enqueued(d, w)]
      BY <2>5 DEF ManualSave, AutoSave, Becomes
    <3> HIDE DEF d
    <3> QED BY <2>2, <3>1, <3>2
  <2>6. CASE ExitIdle(s)
    <3> DEFINE d == [doc[s] EXCEPT !.exit = "seal"]
    <3>1. d.mem = doc[s].mem /\ "mem" \in DOMAIN d BY <2>1 DEF Document
    <3>2. \E w : doc' = [doc EXCEPT ![s] = Enqueued(d, w)]
      BY <2>6 DEF ExitIdle, Becomes
    <3> HIDE DEF d
    <3> QED BY <2>2, <3>1, <3>2
  <2>7. CASE Restore(s)
    <3>1. PICK c : doc' = [doc EXCEPT ![s] =
                      Enqueued([doc[s] EXCEPT !.drafting = TRUE, !.chosen = c],
                               NewWrite("barrier", doc[s].mem))]
      BY <2>7 DEF Restore, Becomes
    <3> DEFINE d == [doc[s] EXCEPT !.drafting = TRUE, !.chosen = c]
    <3>2. d.mem = doc[s].mem /\ "mem" \in DOMAIN d BY <2>1 DEF Document
    <3>3. doc' = [doc EXCEPT ![s] = Enqueued(d, NewWrite("barrier", doc[s].mem))] BY <3>1
    <3> HIDE DEF d
    <3> QED BY <2>2, <3>2, <3>3
  <2> QED BY <1>7, <2>3, <2>4, <2>5, <2>6, <2>7
<1>8. ASSUME NEW s \in Tabs, ExitSeals(s) \/ ExitDrained(s) PROVE FALSE
  <2>1. doc[s] \in Document BY <1>1
  <2>2. ASSUME NEW d, doc' = [doc EXCEPT ![s] = GenerationAdvanced(d)],
               d.mem = doc[s].mem, "mem" \in DOMAIN d
        PROVE  FALSE
    <3>1. GenerationAdvanced(d).mem = d.mem BY <2>2 DEF GenerationAdvanced
    <3> QED BY <1>3, <2>2, <3>1
  <2>3. CASE ExitSeals(s)
    <3> DEFINE d == [doc[s] EXCEPT !.completed = TRUE, !.exit = "commit"]
    <3>1. d.mem = doc[s].mem /\ "mem" \in DOMAIN d BY <2>1 DEF Document
    <3>2. doc' = [doc EXCEPT ![s] = GenerationAdvanced(d)]
      BY <2>3 DEF ExitSeals, Becomes
    <3> HIDE DEF d
    <3> QED BY <2>2, <3>1, <3>2
  <2>4. CASE ExitDrained(s)
    <3> DEFINE d == [doc[s] EXCEPT !.exit = "discard"]
    <3>1. d.mem = doc[s].mem /\ "mem" \in DOMAIN d BY <2>1 DEF Document
    <3>2. doc' = [doc EXCEPT ![s] = GenerationAdvanced(d)]
      BY <2>4 DEF ExitDrained, Becomes
    <3> HIDE DEF d
    <3> QED BY <2>2, <3>1, <3>2
  <2> QED BY <1>8, <2>3, <2>4
<1>9. ASSUME NEW s \in Tabs, RejectStale(s) \/ WriteFails(s) \/ CommitSave(s) \/ CommitDraft(s)
      PROVE  FALSE
  <2> DEFINE b == Popped(doc[s])
             w == Head1(s)
  <2>1. doc[s].queue # <<>> /\ doc[s] \in Document /\ DocumentIsConsistent(doc[s])
    BY <1>1, <1>9, DocumentFacts
    DEF RejectStale, WriteFails, CommitSave, CommitDraft, Waiting, Running
  <2>2. b \in Document /\ b.mem = doc[s].mem /\ DocumentIsConsistent(b)
    BY <2>1, PoppedDocument DEF SameBut
  <2>3. \/ doc' = [doc EXCEPT ![s] = AfterFailure(b, w.tag)]
        \/ w.tag \in Saves /\ doc' = [doc EXCEPT ![s] = AfterSave(b, w)]
        \/ doc' = [doc EXCEPT ![s] = AfterDraft(b, w)]
    BY <1>9 DEF RejectStale, WriteFails, CommitSave, CommitDraft, Becomes
  <2> HIDE DEF b, w
  <2>4. AfterFailure(b, w.tag).mem = b.mem /\ AfterDraft(b, w).mem = b.mem
    BY <2>2 DEF AfterFailure, AfterDraft, Document
  <2>5. w.tag \in Saves => AfterSave(b, w).mem = b.mem
    <3>1. CASE w.tag \in {"snapshot", "final", "entry"}
      BY <2>2, <3>1 DEF AfterSave, Document
    <3>2. CASE w.tag = "barrier"
      <4>1. AfterSave(b, w) = Enqueued(GenerationAdvanced(b), NewWrite("restore", b.mem))
        BY <3>2 DEF AfterSave
      <4>2. GenerationAdvanced(b) \in Document /\ GenerationAdvanced(b).mem = b.mem
        BY <2>2, AdvancedQueue DEF SameBut
      <4> QED BY <4>1, <4>2 DEF Enqueued, Document
    <3> QED BY <3>1, <3>2 DEF Saves
  <2> QED BY <1>3, <2>2, <2>3, <2>4, <2>5
<1>10. ASSUME NEW s \in Tabs, CommitRestore(s) PROVE s = t
  BY <1>1, <1>10 DEF CommitRestore, Becomes
<1> QED BY <1>2, <1>4, <1>5, <1>6, <1>7, <1>8, <1>9, <1>10 DEF Next, Writing, Exiting

\* A restore can be undone, wherever two temporary drafts are kept: what it
\* replaces and what it brings back are both drafts when it is done.
THEOREM RestoresCanBeUndone == TemporaryLimit >= 2 => (Spec => RestoreCanBeUndone)
<1> SUFFICES ASSUME TemporaryLimit >= 2 PROVE Spec => RestoreCanBeUndone
  OBVIOUS
<1> DEFINE Undoable ==
        \A t \in Tabs :
          (doc[t].chosen # None /\ doc'[t].at = "open" /\ doc'[t].mem # doc[t].mem)
              => LET kept == drafts'[doc[t].project] IN
                 /\ doc[t].chosen \in kept
                 /\ \E d \in kept : d.reason = "pre-restore" /\ d.version = doc[t].mem
<1>1. DraftInvariant /\ [Next]_vars => [Undoable]_vars
  <2> SUFFICES ASSUME DraftInvariant, Next, NEW t \in Tabs,
                      doc[t].chosen # None, doc'[t].at = "open", doc'[t].mem # doc[t].mem
               PROVE  /\ doc[t].chosen \in drafts'[doc[t].project]
                      /\ \E d \in drafts'[doc[t].project] :
                           d.reason = "pre-restore" /\ d.version = doc[t].mem
    OBVIOUS
  <2>1. EditingInvariant /\ AllDraftsAreKept /\ AllArePending BY DraftInvariantParts
  <2>2. CommitRestore(t) BY <2>1, OnlyRestoringReplaces
  <2>3. PICK p \in Projects, pre \in Draft :
          /\ p = doc[t].project /\ doc[t].chosen \in drafts[p]
          /\ pre.reason = "pre-restore" /\ pre.version = Head1(t).version
          /\ Adds(p, pre, {pre.id, doc[t].chosen.id})
    BY <2>1, <2>2, RestoringAdds
  <2>4. Head1(t).version = doc[t].mem
    <3>1. doc[t].queue # <<>> BY <2>2 DEF CommitRestore, Running
    <3>2. doc[t].queue[1] = Head1(t) /\ 1 \in DOMAIN doc[t].queue /\ Head1(t).tag = "restore"
      BY <2>1, <2>2, <3>1, HeadFacts DEF CommitRestore
    <3> QED BY <2>1, <3>2 DEF AllArePending, RestoreIsPending
  <2> DEFINE c == doc[t].chosen
             all == drafts[p] \cup {pre}
             x == {pre.id, c.id}
  <2>5. /\ drafts \in [Projects -> SUBSET Draft] /\ drafts' = [drafts EXCEPT ![p] = Retained(all, x)]
        /\ \A e \in drafts[p] : e.id # pre.id
    BY <2>1, <2>3, DocumentFacts DEF Adds, SharedTypes
  <2>6. all \in SUBSET Draft /\ UniqueIds(all) /\ c \in all /\ pre \in all
    BY <2>1, <2>3, <2>5 DEF AllDraftsAreKept, DraftsAreKept, DraftsFit, UniqueIds
  <2>7. x = {pre.id, c.id} /\ pre.reason # "manual" /\ drafts'[p] = Retained(all, x)
    BY <2>3, <2>5
  <2> HIDE DEF c, all, x
  <2>8. pre \in Retained(all, x) /\ c \in Retained(all, x) BY <2>6, <2>7, BothAreKept
  <2> QED BY <2>3, <2>4, <2>7, <2>8 DEF c
<1>2. RestoreCanBeUndone <=> [][Undoable]_vars BY DEF RestoreCanBeUndone
<1> HIDE DEF Undoable
<1> QED BY <1>1, <1>2, DraftInvariantHolds, PTL DEF Spec

-----------------------------------------------------------------------------
(* The order of writes *)

InOrder(d, n) ==
    /\ d.mem # None => d.mem <= n
    /\ \A i, j \in DOMAIN d.queue :
            i <= j => d.queue[i].version <= d.queue[j].version
    /\ \A i \in DOMAIN d.queue :
        /\ d.queue[i].tag \notin {"barrier", "restore"}
        /\ d.queue[i].version <= d.mem
        /\ (\A j \in DOMAIN d.queue : i < j => d.queue[j].tag \notin Snapshots)
                => d.queue[i].version = d.mem

Behind(d, v) ==
    v # None => v <= d.mem /\ \A i \in DOMAIN d.queue : v <= d.queue[i].version

Truthful(d, v) ==
    (~d.saveFailed /\ \A i \in DOMAIN d.queue : d.queue[i].tag \notin Snapshots) => v = d.mem

\* What the invariant of the writes says of a document, its project and the clock.
Written(d, v, n) ==
    /\ InOrder(d, n)
    /\ Begun(d) /\ d.mem # None => Behind(d, v)
    /\ d.at = "open" => Truthful(d, v)

AllWritten == \A t \in Tabs : Written(doc[t], stored[doc[t].project], tick)

StampsArePast == \A p \in Projects : /\ stored[p] # None => stored[p] <= tick
                                     /\ explicit[p] # None => explicit[p] <= tick

LEMMA WriteInvariantParts ==
    WriteInvariant <=> EditingInvariant /\ StampsArePast /\ AllWritten
<1>1. \A t \in Tabs : WritesAreInOrder(doc[t]) <=> InOrder(doc[t], tick)
  BY DEF WritesAreInOrder, InOrder
<1>2. \A t \in Tabs : DiskIsBehind(doc[t])
        <=> (Begun(doc[t]) /\ doc[t].mem # None => Behind(doc[t], stored[doc[t].project]))
  BY DEF DiskIsBehind, Behind
<1>3. StatusIsTruthful
        <=> \A t \in Tabs : doc[t].at = "open" => Truthful(doc[t], stored[doc[t].project])
  BY DEF StatusIsTruthful, Truthful, Snapshots
<1> QED BY <1>1, <1>2, <1>3 DEF WriteInvariant, StampsArePast, AllWritten, Written

LEMMA QueueTypes ==
    ASSUME NEW d \in Document
    PROVE  /\ \A i \in DOMAIN d.queue : d.queue[i].version \in Int /\ d.queue[i].tag \in Tags
           /\ d.mem # None => d.mem \in Int
<1>1. d.queue \in Seq(Write) BY DEF Document
<1>2. \A i \in DOMAIN d.queue : d.queue[i] \in Write BY <1>1
<1> QED BY <1>2 DEF Document, Write, Versions

\* A document that shows nothing.
LEMMA BlankIsWritten ==
    ASSUME NEW d, d.queue = <<>>, d.mem = None, d.at # "open", NEW v, NEW n
    PROVE  Written(d, v, n)
<1>1. DOMAIN d.queue = {} BY DEF Written
<1> QED BY <1>1 DEF Written, InOrder

\* A document that goes on with the same queue.
SameWrites(d, e) ==
    /\ e.mem = d.mem /\ DOMAIN e.queue = DOMAIN d.queue
    /\ \A i \in DOMAIN e.queue : /\ e.queue[i].tag = d.queue[i].tag
                                 /\ e.queue[i].version = d.queue[i].version

LEMMA GoingOnIsWritten ==
    ASSUME NEW d, NEW e, NEW v, NEW n, Written(d, v, n), SameWrites(d, e),
           e.saveFailed = d.saveFailed, Begun(e) => Begun(d), e.at = "open" => d.at = "open"
    PROVE  Written(e, v, n)
  BY DEF Written, InOrder, Behind, Truthful, SameWrites

\* A document that has left no longer depends on the disk.
LEMMA LeftIsWritten ==
    ASSUME NEW d, NEW e, NEW v, NEW n, Written(d, v, n), SameWrites(d, e), e.at = "left",
           NEW u
    PROVE  Written(e, u, n)
  BY DEF Written, InOrder, SameWrites, Begun

\* The clock goes on.
LEMMA LaterIsWritten ==
    ASSUME NEW d \in Document, NEW v, NEW m \in Int, NEW n \in Int, m <= n, Written(d, v, m)
    PROVE  Written(d, v, n)
  BY QueueTypes DEF Written, InOrder

\* One more write of what is on the screen, which may be news.
LEMMA EnqueuedIsWritten ==
    ASSUME NEW d \in Document, NEW v \in Versions \cup {None}, NEW n \in Int,
           Written(d, v, n), NEW w \in Write, NEW b \in Document, b.queue = d.queue,
           b.mem = w.version, d.mem # None => d.mem <= b.mem, b.mem <= n, b.mem # None,
           Begun(b) => Begun(d) /\ (d.mem # None \/ v = None \/ v = b.mem),
           d.mem = None => d.queue = <<>>,
           w.tag \notin {"barrier", "restore"},
           \/ w.tag \in Snapshots
           \/ d.mem = None /\ b.at # "open"
           \/ b.mem = d.mem /\ b.saveFailed = d.saveFailed /\ (b.at = "open" => d.at = "open")
    PROVE  Written(Enqueued(b, w), v, n)
<1> DEFINE e == Enqueued(b, w)
           k == Len(b.queue)
<1>1. /\ SameBut(b, e) /\ e.saveFailed = b.saveFailed /\ k \in Nat
      /\ DOMAIN d.queue = 1..k /\ DOMAIN e.queue = 1..(k + 1)
      /\ \A i \in 1..k : e.queue[i] = d.queue[i]
      /\ e.queue[k + 1] = w
  BY EnqueuedQueue
<1>2. /\ e.mem = b.mem /\ e.at = b.at /\ (Begun(e) => Begun(b)) BY <1>1 DEF SameBut, Begun
<1>3. /\ \A i \in 1..k : d.queue[i].version \in Int /\ d.queue[i].tag \in Tags
      /\ d.mem # None => d.mem \in Int
      /\ b.mem \in Int /\ (v # None => v \in Int)
  BY <1>1, QueueTypes DEF Versions
<1>4. d.mem = None => k = 0 BY <1>1
<1> HIDE DEF e, k
<1>5. \A i \in 1..k : d.queue[i].version <= d.mem /\ d.mem # None
  BY <1>1, <1>4 DEF Written, InOrder
<1>6. InOrder(e, n)
  <2>1. \A i, j \in 1..(k + 1) : i <= j => e.queue[i].version <= e.queue[j].version
    <3> SUFFICES ASSUME NEW i \in 1..(k + 1), NEW j \in 1..(k + 1), i <= j
                 PROVE  e.queue[i].version <= e.queue[j].version
      OBVIOUS
    <3>1. CASE j \in 1..k
      <4>1. i \in 1..k BY <1>1, <3>1
      <4> QED BY <1>1, <3>1, <4>1 DEF Written, InOrder
    <3>2. CASE j = k + 1 /\ i \in 1..k BY <1>1, <1>3, <1>5, <3>2
    <3>3. CASE j = k + 1 /\ i = k + 1 BY <1>1, <1>3, <3>3
    <3> QED BY <1>1, <3>1, <3>2, <3>3
  <2>2. \A i \in 1..(k + 1) : /\ e.queue[i].tag \notin {"barrier", "restore"}
                              /\ e.queue[i].version <= e.mem
    <3> SUFFICES ASSUME NEW i \in 1..(k + 1)
                 PROVE  /\ e.queue[i].tag \notin {"barrier", "restore"}
                        /\ e.queue[i].version <= e.mem
      OBVIOUS
    <3>1. CASE i \in 1..k
      <4>1. d.queue[i].version <= d.mem /\ d.mem <= b.mem BY <1>5, <3>1
      <4>2. e.queue[i].version <= e.mem BY <1>1, <1>2, <1>3, <1>5, <3>1, <4>1
      <4>3. e.queue[i].tag \notin {"barrier", "restore"}
        BY <1>1, <3>1 DEF Written, InOrder
      <4> QED BY <4>2, <4>3
    <3>2. CASE i = k + 1 BY <1>1, <1>2, <1>3, <3>2
    <3> QED BY <1>1, <3>1, <3>2
  <2>3. ASSUME NEW i \in 1..(k + 1),
               \A j \in 1..(k + 1) : i < j => e.queue[j].tag \notin Snapshots
        PROVE  e.queue[i].version = e.mem
    <3>1. CASE i = k + 1 BY <1>1, <1>2, <3>1
    <3>2. CASE i \in 1..k
      <4>1. k + 1 \in 1..(k + 1) /\ i < k + 1 BY <1>1, <3>2
      <4>2. w.tag \notin Snapshots BY <1>1, <2>3, <4>1
      <4>3. b.mem = d.mem BY <1>5, <3>2, <4>2
      <4>4. \A j \in 1..k : i < j => d.queue[j].tag \notin Snapshots
        <5> SUFFICES ASSUME NEW j \in 1..k, i < j PROVE d.queue[j].tag \notin Snapshots
          OBVIOUS
        <5>1. j \in 1..(k + 1) /\ e.queue[j] = d.queue[j] BY <1>1
        <5> QED BY <2>3, <5>1
      <4> QED BY <1>1, <1>2, <3>2, <4>3, <4>4 DEF Written, InOrder
    <3> QED BY <1>1, <3>1, <3>2
  <2> QED BY <1>1, <1>2, <2>1, <2>2, <2>3 DEF InOrder
<1>7. ASSUME Begun(e) PROVE Behind(e, v)
  <2> SUFFICES ASSUME v # None PROVE v <= e.mem /\ \A i \in 1..(k + 1) : v <= e.queue[i].version
    BY <1>1 DEF Behind
  <2>1. Begun(d) /\ (d.mem # None \/ v = b.mem) BY <1>2, <1>7
  <2>2. v <= b.mem /\ \A i \in 1..k : v <= d.queue[i].version
    <3>1. CASE d.mem # None
      <4>1. v <= d.mem /\ \A i \in 1..k : v <= d.queue[i].version
        BY <1>1, <2>1, <3>1 DEF Written, Behind
      <4> QED BY <1>3, <3>1, <4>1
    <3>2. CASE d.mem = None BY <1>3, <1>4, <2>1, <3>2
    <3> QED BY <3>1, <3>2
  <2>3. \A i \in 1..(k + 1) : i \in 1..k \/ i = k + 1 BY <1>1
  <2> QED BY <1>1, <1>2, <2>2, <2>3
<1>8. ASSUME e.at = "open" PROVE Truthful(e, v)
  <2> SUFFICES ASSUME ~e.saveFailed, \A i \in 1..(k + 1) : e.queue[i].tag \notin Snapshots
               PROVE  v = e.mem
    BY <1>1 DEF Truthful
  <2>1. k + 1 \in 1..(k + 1) BY <1>1
  <2>2. b.mem = d.mem /\ b.saveFailed = d.saveFailed /\ d.at = "open"
    BY <1>1, <1>2, <1>8, <2>1
  <2>3. \A i \in 1..k : i \in 1..(k + 1) /\ e.queue[i] = d.queue[i] BY <1>1
  <2> QED BY <1>1, <1>2, <2>2, <2>3 DEF Written, Truthful
<1>9. Written(e, v, n) BY <1>6, <1>7, <1>8 DEF Written
<1> QED BY <1>9 DEF e

\* A document whose first write is over. If the write was done, the disk has
\* its version; if not, the disk is as it was.
LEMMA PoppedIsWritten ==
    ASSUME NEW d \in Document, DocumentIsConsistent(d), d.queue # <<>>,
           NEW v \in Versions \cup {None}, NEW n \in Int, Written(d, v, n),
           NEW e, e.queue = Popped(d).queue, e.mem = d.mem, Begun(e) => Begun(d),
           NEW u \in Versions \cup {None},
           \/ u = Head(d.queue).version
           \/ /\ u = v
              /\ e.at = "open" =>
                    \/ e.saveFailed
                    \/ /\ e.saveFailed = d.saveFailed /\ d.at = "open"
                       /\ Head(d.queue).tag \notin Snapshots
    PROVE  Written(e, u, n) /\ (Begun(d) /\ v # None => v <= Head(d.queue).version)
<1> DEFINE w == Head(d.queue)
<1>1. /\ w = d.queue[1] /\ 1 \in DOMAIN d.queue
      /\ DOMAIN e.queue \subseteq Nat \ {0} /\ DOMAIN d.queue \subseteq Nat
      /\ \A i \in DOMAIN e.queue : i + 1 \in DOMAIN d.queue
                                   /\ e.queue[i] = d.queue[i + 1]
  BY PoppedQueue
<1>2. /\ \A i \in DOMAIN d.queue : d.queue[i].version \in Int
      /\ d.mem \in Int /\ d.mem # None
      /\ (v # None => v \in Int) /\ (u # None => u \in Int)
  BY QueueTypes DEF DocumentIsConsistent, Versions
<1>3. \A j \in DOMAIN d.queue : j > 1 => j - 1 \in DOMAIN e.queue /\ e.queue[j - 1] = d.queue[j]
  <2>1. d.queue \in Seq(Write) /\ e.queue = Tail(d.queue) BY DEF Document, Popped
  <2> QED BY <2>1
<1> HIDE DEF w
<1>4. InOrder(e, n)
  <2>1. e.mem # None => e.mem <= n BY DEF Written, InOrder
  <2>2. \A i, j \in DOMAIN e.queue : i <= j => e.queue[i].version <= e.queue[j].version
    <3> SUFFICES ASSUME NEW i \in DOMAIN e.queue, NEW j \in DOMAIN e.queue, i <= j
                 PROVE  e.queue[i].version <= e.queue[j].version
      OBVIOUS
    <3>1. i + 1 \in DOMAIN d.queue /\ j + 1 \in DOMAIN d.queue /\ i + 1 <= j + 1
      BY <1>1
    <3> QED BY <1>1, <3>1 DEF Written, InOrder
  <2>3. ASSUME NEW i \in DOMAIN e.queue
        PROVE  /\ e.queue[i].tag \notin {"barrier", "restore"}
               /\ e.queue[i].version <= e.mem
               /\ (\A j \in DOMAIN e.queue : i < j => e.queue[j].tag \notin Snapshots)
                       => e.queue[i].version = e.mem
    <3>1. i + 1 \in DOMAIN d.queue /\ e.queue[i] = d.queue[i + 1] /\ i \in Nat /\ i >= 1
      BY <1>1
    <3>2. ASSUME \A j \in DOMAIN e.queue : i < j => e.queue[j].tag \notin Snapshots
          PROVE  e.queue[i].version = e.mem
      <4>1. \A j \in DOMAIN d.queue : i + 1 < j => d.queue[j].tag \notin Snapshots
        <5> SUFFICES ASSUME NEW j \in DOMAIN d.queue, i + 1 < j
                     PROVE  d.queue[j].tag \notin Snapshots
          OBVIOUS
        <5>1. j \in Nat /\ j > 1 /\ i < j - 1 BY <1>1, <3>1
        <5>2. j - 1 \in DOMAIN e.queue /\ e.queue[j - 1] = d.queue[j] BY <1>3, <5>1
        <5> QED BY <3>2, <5>1, <5>2
      <4> QED BY <3>1, <4>1 DEF Written, InOrder
    <3> QED BY <3>1, <3>2 DEF Written, InOrder
  <2> QED BY <2>1, <2>2, <2>3 DEF InOrder
<1>5. Begun(d) /\ v # None => v <= w.version BY <1>1, <1>2 DEF Written, Behind
<1>6. ASSUME Begun(e) PROVE Behind(e, u)
  <2>1. CASE u = w.version
    <3>1. w.version <= d.mem BY <1>1 DEF Written, InOrder
    <3>2. \A i \in DOMAIN e.queue : w.version <= e.queue[i].version
      <4> SUFFICES ASSUME NEW i \in DOMAIN e.queue PROVE w.version <= e.queue[i].version
        OBVIOUS
      <4>1. i + 1 \in DOMAIN d.queue /\ 1 <= i + 1 BY <1>1
      <4> QED BY <1>1, <4>1 DEF Written, InOrder
    <3> QED BY <2>1, <3>1, <3>2 DEF Behind
  <2>2. CASE u = v BY <1>1, <1>2, <1>6, <2>2 DEF Written, Behind
  <2> QED BY <2>1, <2>2 DEF w
<1>7. ASSUME e.at = "open" PROVE Truthful(e, u)
  <2> SUFFICES ASSUME ~e.saveFailed,
                      \A i \in DOMAIN e.queue : e.queue[i].tag \notin Snapshots
               PROVE  u = e.mem
    BY DEF Truthful
  <2>1. \A j \in DOMAIN d.queue : 1 < j => d.queue[j].tag \notin Snapshots
    <3> SUFFICES ASSUME NEW j \in DOMAIN d.queue, 1 < j PROVE d.queue[j].tag \notin Snapshots
      OBVIOUS
    <3>1. j - 1 \in DOMAIN e.queue /\ e.queue[j - 1] = d.queue[j] BY <1>1, <1>3
    <3> QED BY <3>1
  <2>2. CASE u = w.version BY <1>1, <2>1, <2>2 DEF Written, InOrder
  <2>3. CASE u = v /\ e.saveFailed = d.saveFailed /\ d.at = "open" /\ w.tag \notin Snapshots
    <3>1. \A j \in DOMAIN d.queue : j = 1 \/ 1 < j
      <4>1. d.queue \in Seq(Write) BY DEF Document
      <4> QED BY <4>1
    <3>2. \A j \in DOMAIN d.queue : d.queue[j].tag \notin Snapshots
      BY <1>1, <2>1, <2>3, <3>1
    <3> QED BY <2>3, <3>2 DEF Written, Truthful
  <2> QED BY <1>7, <2>2, <2>3 DEF w
<1> QED BY <1>4, <1>5, <1>6, <1>7 DEF Written, w

WritesGoOn == StampsArePast' /\ AllWritten'

\* Only the document of the tab changes, and the disk only where no other tab
\* has the lease: whatever another editor relies on is as it was.
LEMMA WritesOfOneTab ==
    ASSUME EditingInvariant, AllWritten, NEW t \in Tabs,
           tick' \in Versions, tick <= tick',
           NEW P \in SUBSET Projects, \A p \in P : lock[p] \in {t, None},
           \A q \in Projects \ P : stored'[q] = stored[q],
           \A s \in Tabs \ {t} : doc'[s] = doc[s],
           Written(doc'[t], stored'[doc'[t].project], tick')
    PROVE  AllWritten'
<1> SUFFICES ASSUME NEW s \in Tabs \ {t}
             PROVE  Written(doc'[s], stored'[doc'[s].project], tick')
  BY DEF AllWritten
<1>1. /\ doc[s] \in Document /\ doc'[s] = doc[s] /\ DocumentIsCovered(s)
      /\ tick \in Int /\ tick' \in Int
  BY DocumentFacts DEF Versions
<1>2. Written(doc[s], stored[doc[s].project], tick') BY <1>1, LaterIsWritten DEF AllWritten
<1>3. CASE Begun(doc[s])
  <2>1. doc[s].project \in Projects /\ lock[doc[s].project] = s
    BY <1>1, <1>3 DEF DocumentIsCovered, Begun, Document
  <2>2. s # t /\ s # None BY NoneAssumption
  <2>3. doc[s].project \notin P BY <2>1, <2>2
  <2>4. stored'[doc'[s].project] = stored[doc[s].project] BY <1>1, <2>1, <2>3
  <2> QED BY <1>1, <1>2, <2>4
<1>4. CASE ~Begun(doc[s])
  <2>1. doc[s].at # "open" BY <1>4 DEF Begun
  <2> QED BY <1>1, <1>2, <1>4, <2>1 DEF Written
<1> QED BY <1>3, <1>4

\* The disk is as it was.
LEMMA QuietWrites ==
    ASSUME EditingInvariant, AllWritten, StampsArePast, NEW t \in Tabs,
           UNCHANGED <<stored, explicit>>, tick' \in Versions, tick <= tick',
           \A s \in Tabs \ {t} : doc'[s] = doc[s],
           Written(doc'[t], stored[doc'[t].project], tick')
    PROVE  WritesGoOn
<1>1. AllWritten'
  <2>1. {} \in SUBSET Projects /\ \A p \in {} : lock[p] \in {t, None} OBVIOUS
  <2>2. stored' = stored /\ \A q \in Projects \ {} : stored'[q] = stored[q] OBVIOUS
  <2> QED BY <2>1, <2>2, WritesOfOneTab
<1>2. /\ tick \in Int /\ tick' \in Int
      /\ \A p \in Projects : /\ stored[p] \in Versions \cup {None}
                             /\ explicit[p] \in Versions \cup {None}
  BY DocumentFacts DEF SharedTypes, Versions
<1>3. StampsArePast'
  <2> SUFFICES ASSUME NEW p \in Projects
               PROVE  /\ stored'[p] # None => stored'[p] <= tick'
                      /\ explicit'[p] # None => explicit'[p] <= tick'
    BY DEF StampsArePast
  <2>1. stored[p] # None => stored[p] \in Int BY <1>2 DEF Versions
  <2>2. explicit[p] # None => explicit[p] \in Int BY <1>2 DEF Versions
  <2> QED BY <1>2, <2>1, <2>2 DEF StampsArePast
<1> QED BY <1>1, <1>3 DEF WritesGoOn

\* One project of this tab is written; the clock stands still.
LEMMA OneProjectWritten ==
    ASSUME EditingInvariant, AllWritten, StampsArePast, NEW t \in Tabs,
           NEW p \in Projects, lock[p] \in {t, None}, UNCHANGED tick,
           \A q \in Projects \ {p} : stored'[q] = stored[q] /\ explicit'[q] = explicit[q],
           stored'[p] # None => stored'[p] <= tick,
           explicit'[p] # None => explicit'[p] <= tick,
           \A s \in Tabs \ {t} : doc'[s] = doc[s],
           Written(doc'[t], stored'[doc'[t].project], tick')
    PROVE  WritesGoOn
<1>1. tick' \in Versions /\ tick <= tick' BY DocumentFacts DEF Versions
<1>2. AllWritten'
  <2>1. {p} \in SUBSET Projects /\ \A q \in {p} : lock[q] \in {t, None} OBVIOUS
  <2>2. \A q \in Projects \ {p} : stored'[q] = stored[q] OBVIOUS
  <2> QED BY <1>1, <2>1, <2>2, WritesOfOneTab
<1>3. StampsArePast' BY DEF StampsArePast
<1> QED BY <1>2, <1>3 DEF WritesGoOn

\* Steps after which the tab shows no project, and that write nothing.
LEMMA BlankSteps ==
    ASSUME EditingInvariant, EditingInvariant', AllWritten, StampsArePast, NEW t \in Tabs,
           \/ StartPage(t) \/ Refresh(t) \/ OpenRefused(t) \/ EnterEditor(t)
           \/ \E p \in Projects, fresh \in BOOLEAN : RequestOpen(t, p, fresh)
           \/ \E p \in Projects :
                AcquireAbandoned(t, p) \/ SkipOwned(t, p) \/ RollBackFails(t, p)
           \/ AcquireWriter(t) \/ WriterRefused(t) \/ BeginCheckpoint(t)
           \/ BeginFails(t) \/ EntryRefused(t)
           \/ Leave(t) \/ Close(t) \/ Reload(t)
    PROVE  WritesGoOn
<1>1. doc \in [Tabs -> Document] /\ doc[t] \in Document /\ tick \in Versions
  BY DocumentFacts
<1>2. UNCHANGED <<stored, explicit, tick>>
  BY DEF StartPage, Refresh, OpenRefused, EnterEditor, RequestOpen, AcquireAbandoned,
         SkipOwned, RollBackFails, AcquireWriter, WriterRefused, BeginCheckpoint,
         BeginFails, EntryRefused, Leave, Close, Reload, Keep, Page, store
<1>3. \A s \in Tabs \ {t} : doc'[s] = doc[s]
  BY <1>1
  DEF StartPage, Refresh, OpenRefused, EnterEditor, RequestOpen, AcquireAbandoned,
      SkipOwned, RollBackFails, AcquireWriter, WriterRefused, BeginCheckpoint,
      BeginFails, EntryRefused, Leave, Close, Reload, Becomes, Fails
<1>4. doc'[t].queue = <<>> /\ doc'[t].mem = None /\ doc'[t].at # "open"
  <2>1. ASSUME doc'[t].at \in Early
        PROVE  doc'[t].queue = <<>> /\ doc'[t].mem = None /\ doc'[t].at # "open"
    BY <2>1 DEF EditingInvariant, TypeOK, DocumentIsConsistent, Early
  <2>2. CASE StartPage(t) \/ Refresh(t) \/ OpenRefused(t)
    <3>1. doc'[t].at = "start"
      BY <1>1, <2>2 DEF StartPage, Refresh, OpenRefused, Settled, Document
    <3> QED BY <2>1, <3>1 DEF Early
  <2>3. CASE EnterEditor(t) \/ Leave(t) \/ Close(t) \/ Reload(t)
    <3>1. /\ Off.at = "off"
          /\ \A q : [Off EXCEPT !.at = "gate", !.project = q].at = "gate"
      BY DEF Off
    <3>2. doc'[t] = Off \/ \E q : doc'[t] = [Off EXCEPT !.at = "gate", !.project = q]
      BY <1>1, <2>3 DEF EnterEditor, Leave, Close, Reload, Becomes
    <3>3. doc'[t].at \in {"off", "gate"} BY <3>1, <3>2
    <3> QED BY <2>1, <3>3 DEF Early
  <2>4. CASE WriterRefused(t) \/ BeginFails(t) \/ EntryRefused(t)
    <3>1. doc[t].at \in {"gate", "begin", "load"}
      BY <2>4 DEF WriterRefused, BeginFails, EntryRefused
    <3>2. doc'[t].queue = doc[t].queue /\ doc'[t].mem = doc[t].mem /\ doc'[t].at = "failed"
      BY <1>1, <2>4 DEF WriterRefused, BeginFails, EntryRefused, Fails, Document
    <3> QED BY <3>1, <3>2, EarlyIsEmpty DEF Early, Empty
  <2>5. CASE AcquireWriter(t) \/ BeginCheckpoint(t)
    <3>1. doc'[t].at \in {"begin", "load"}
      BY <1>1, <2>5 DEF AcquireWriter, BeginCheckpoint, Document
    <3> QED BY <2>1, <3>1 DEF Early
  <2>6. ASSUME NEW p \in Projects,
               \/ \E fresh \in BOOLEAN : RequestOpen(t, p, fresh)
               \/ AcquireAbandoned(t, p) \/ SkipOwned(t, p) \/ RollBackFails(t, p)
        PROVE  doc'[t].at \in Early
    <3>1. doc[t].at = "start"
      BY <2>6 DEF RequestOpen, AcquireAbandoned, SkipOwned, RollBackFails, Settled
    <3>2. CASE \E fresh \in BOOLEAN : RequestOpen(t, p, fresh)
      <4>1. PICK fresh \in BOOLEAN :
              doc' = [doc EXCEPT ![t].todo = Listed, ![t].target = p, ![t].fresh = fresh]
        BY <3>2 DEF RequestOpen
      <4>2. doc'[t].at = doc[t].at BY <1>1, <4>1 DEF Document
      <4> QED BY <3>1, <4>2 DEF Early
    <3>3. CASE AcquireAbandoned(t, p) \/ SkipOwned(t, p) \/ RollBackFails(t, p)
      BY <1>1, <3>1, <3>3 DEF AcquireAbandoned, SkipOwned, RollBackFails, Document, Early
    <3> QED BY <2>6, <3>2, <3>3
  <2> QED BY <2>1, <2>2, <2>3, <2>4, <2>5, <2>6
<1>5. Written(doc'[t], stored[doc'[t].project], tick') BY <1>4, BlankIsWritten
<1>6. tick' \in Versions /\ tick <= tick' BY <1>1, <1>2 DEF Versions
<1> QED BY <1>2, <1>3, <1>5, <1>6, QuietWrites

\* A start page gives a project back what was last saved, or deletes it.
LEMMA RollBackWrites ==
    ASSUME EditingInvariant, AllWritten, StampsArePast, NEW t \in Tabs,
           NEW p \in Projects, RollBack(t, p)
    PROVE  WritesGoOn
<1>1. /\ doc \in [Tabs -> Document] /\ doc[t] \in Document /\ SharedTypes
      /\ doc[t].at = "start" /\ lock[p] = t
  BY DocumentFacts DEF RollBack
<1>2. /\ explicit' = explicit /\ tick' = tick
      /\ stored' = [stored EXCEPT ![p] = stored'[p]] /\ stored'[p] \in {stored[p], explicit[p]}
  <2>1. CASE checkpoint[p] # None
    <3>1. DiscardCheckpoint(p) BY <2>1 DEF RollBack
    <3>2. SavedNow[p] = RolledBackProject(checkpoint[p], drafts[p]) /\ SavedNow = explicit
      BY <2>1, SavedNowIsExplicit DEF SavedNow
    <3> QED BY <1>1, <3>1, <3>2 DEF DiscardCheckpoint, RollBack, SharedTypes
  <2>2. CASE checkpoint[p] = None
    <3>1. UNCHANGED <<stored, explicit, tick>> BY <2>2 DEF RollBack, UnchangedStore, store
    <3> QED BY <1>1, <3>1 DEF SharedTypes
  <2> QED BY <2>1, <2>2
<1>3. \A s \in Tabs \ {t} : doc'[s] = doc[s] BY <1>1 DEF RollBack
<1>4. doc'[t].queue = <<>> /\ doc'[t].mem = None /\ doc'[t].at # "open"
  <2>1. /\ doc'[t].queue = doc[t].queue /\ doc'[t].mem = doc[t].mem
        /\ doc'[t].at = doc[t].at
    BY <1>1 DEF RollBack, Document
  <2> QED BY <1>1, <2>1, EarlyIsEmpty DEF Early, Empty
<1>5. Written(doc'[t], stored'[doc'[t].project], tick') BY <1>4, BlankIsWritten
<1>6. \A q \in Projects \ {p} : stored'[q] = stored[q] /\ explicit'[q] = explicit[q]
  BY <1>1, <1>2 DEF SharedTypes
<1>7. /\ stored'[p] # None => stored'[p] <= tick
      /\ explicit'[p] # None => explicit'[p] <= tick
  BY <1>2 DEF StampsArePast
<1> QED BY <1>1, <1>2, <1>3, <1>5, <1>6, <1>7, OneProjectWritten

LEMMA DeletingWrites ==
    ASSUME EditingInvariant, AllWritten, StampsArePast, NEW t \in Tabs,
           (\E p \in Projects : DeleteProject(t, p)) \/ DeleteAll(t)
    PROVE  WritesGoOn
<1>1. /\ doc \in [Tabs -> Document] /\ doc[t] \in Document /\ tick \in Versions
      /\ doc[t].at = "start"
  BY DocumentFacts DEF DeleteProject, DeleteAll, Settled
<1>2. PICK P \in SUBSET Projects :
        /\ Forgotten(P) /\ \A p \in P : lock[p] \in {t, None}
  <2>1. ASSUME NEW p \in Projects, DeleteProject(t, p)
        PROVE  Forgotten({p}) /\ lock[p] = None /\ {p} \in SUBSET Projects
    BY <2>1 DEF DeleteProject
  <2>2. DeleteAll(t) => Forgotten(Projects) /\ \A p \in Projects : lock[p] = None
    BY DEF DeleteAll
  <2> QED BY <2>1, <2>2
<1>3. tick' = tick /\ tick' \in Versions /\ tick <= tick'
  <2>1. tick' = tick BY DEF DeleteProject, DeleteAll
  <2> QED BY <1>1, <2>1 DEF Versions
<1>4. /\ doc'[t].queue = doc[t].queue /\ doc'[t].mem = doc[t].mem /\ doc'[t].at = "start"
      /\ \A s \in Tabs \ {t} : doc'[s] = doc[s]
  <2>1. doc' = doc \/ \E todo : doc' = [doc EXCEPT ![t].todo = todo]
    BY DEF DeleteProject, DeleteAll
  <2> QED BY <1>1, <2>1 DEF Document
<1>5. Written(doc'[t], stored'[doc'[t].project], tick')
  BY <1>1, <1>4, EarlyIsEmpty, BlankIsWritten DEF Early, Empty
<1>6. \A q \in Projects : /\ stored'[q] \in {stored[q], None}
                          /\ explicit'[q] \in {explicit[q], None}
                          /\ q \notin P => stored'[q] = stored[q]
  BY <1>2 DEF Forgotten
<1>7. StampsArePast' BY <1>3, <1>6 DEF StampsArePast
<1>8. AllWritten' BY <1>2, <1>3, <1>4, <1>5, <1>6, WritesOfOneTab
<1> QED BY <1>7, <1>8 DEF WritesGoOn

\* A step that queues a write of what is on the screen.
LEMMA EnqueuingWrites ==
    ASSUME EditingInvariant, AllWritten, StampsArePast, NEW t \in Tabs,
           UNCHANGED <<stored, explicit>>, tick' \in Versions, tick <= tick',
           NEW b \in Document, NEW w \in Write, doc' = [doc EXCEPT ![t] = Enqueued(b, w)],
           b.project = doc[t].project, b.project \in Projects,
           b.queue = doc[t].queue, b.mem = w.version,
           doc[t].mem # None => doc[t].mem <= b.mem, b.mem <= tick',
           Begun(b) => /\ Begun(doc[t])
                       /\ \/ doc[t].mem # None
                          \/ stored[doc[t].project] \in {None, b.mem},
           w.tag \notin {"barrier", "restore"},
           \/ w.tag \in Snapshots
           \/ doc[t].mem = None /\ b.at # "open"
           \/ /\ b.mem = doc[t].mem /\ b.saveFailed = doc[t].saveFailed
              /\ b.at = "open" => doc[t].at = "open"
    PROVE  WritesGoOn
<1>1. /\ doc \in [Tabs -> Document] /\ doc[t] \in Document /\ DocumentIsConsistent(doc[t])
      /\ tick \in Int /\ tick' \in Int /\ SharedTypes
  BY DocumentFacts DEF Versions
<1> DEFINE v == stored[doc[t].project]
           e == Enqueued(b, w)
<1>2. v \in Versions \cup {None} BY <1>1 DEF SharedTypes
<1>3. Written(doc[t], v, tick') BY <1>1, LaterIsWritten DEF AllWritten
<1>4. b.mem # None
  <2>1. w.version \in Versions BY DEF Write
  <2> QED BY <2>1, NoneAssumption
<1>5. doc[t].mem = None => doc[t].queue = <<>> BY <1>1 DEF DocumentIsConsistent
<1>6. Begun(b) => Begun(doc[t]) /\ (doc[t].mem # None \/ v = None \/ v = b.mem) OBVIOUS
<1> HIDE DEF v
<1>7. Written(e, v, tick') BY <1>1, <1>2, <1>3, <1>4, <1>5, <1>6, EnqueuedIsWritten
<1>8. e.project = doc[t].project BY EnqueuedQueue DEF SameBut
<1>9. doc'[t] = e /\ \A s \in Tabs \ {t} : doc'[s] = doc[s] BY <1>1
<1> HIDE DEF e
<1>10. Written(doc'[t], stored[doc'[t].project], tick') BY <1>7, <1>8, <1>9 DEF v
<1> QED BY <1>9, <1>10, QuietWrites

LEMMA LoadingWrites ==
    ASSUME EditingInvariant, AllWritten, StampsArePast, NEW t \in Tabs, LoadProject(t)
    PROVE  WritesGoOn
<1>1. /\ doc[t].at = "load" /\ doc[t] \in Document /\ Empty(doc[t])
      /\ doc[t].project \in Projects /\ tick \in Versions
      /\ UNCHANGED <<stored, explicit>> /\ SharedTypes
  BY OpeningFacts DEF LoadProject, store
<1>2. PICK p \in Projects : p = doc[t].project BY <1>1
<1>3. PICK v \in Versions :
        /\ doc' = [doc EXCEPT ![t] =
                Enqueued([doc[t] EXCEPT !.at = "entering", !.mem = v], NewWrite("entry", v))]
        /\ tick' \in Versions /\ tick <= tick' /\ v <= tick' /\ stored[p] \in {None, v}
  <2>1. CASE stored[p] # None /\ UNCHANGED tick
    <3>1. stored[p] \in Versions /\ stored[p] <= tick
      BY <1>1, <1>2, <2>1 DEF SharedTypes, StampsArePast
    <3>2. tick' \in Versions /\ tick <= tick' BY <1>1, <2>1 DEF Versions
    <3> QED BY <1>2, <2>1, <3>1, <3>2 DEF LoadProject
  <2>2. CASE stored[p] = None /\ tick < VersionLimit /\ tick' = tick + 1
    <3>1. tick + 1 \in Versions /\ tick <= tick' /\ tick + 1 <= tick'
      BY <1>1, <2>2, LimitAssumption DEF Versions
    <3> QED BY <1>2, <2>2, <3>1 DEF LoadProject
  <2> QED BY <1>2, <2>1, <2>2 DEF LoadProject
<1> DEFINE b == [doc[t] EXCEPT !.at = "entering", !.mem = v]
           w == NewWrite("entry", v)
<1>4. b \in Document BY <1>1 DEF Document
<1>5. /\ b.at = "entering" /\ b.mem = v /\ b.queue = doc[t].queue
      /\ b.project = doc[t].project
  BY <1>1 DEF Document
<1>6. w \in Write /\ w.tag = "entry" /\ w.version = v
  BY NewWriteType DEF Tags, Saves
<1>7. Begun(doc[t]) /\ doc[t].mem = None BY <1>1 DEF Begun, Empty
<1>8. doc' = [doc EXCEPT ![t] = Enqueued(b, w)] BY <1>3
<1> HIDE DEF b, w
<1>9. b.project \in Projects /\ b.mem <= tick' BY <1>1, <1>3, <1>5
<1>10. Begun(b) => /\ Begun(doc[t])
                   /\ \/ doc[t].mem # None
                      \/ stored[doc[t].project] \in {None, b.mem}
  BY <1>2, <1>3, <1>5, <1>7
<1>11. w.tag \notin {"barrier", "restore"} /\ doc[t].mem = None /\ b.at # "open"
  BY <1>5, <1>6, <1>7
<1> QED BY <1>1, <1>3, <1>4, <1>5, <1>6, <1>8, <1>9, <1>10, <1>11, EnqueuingWrites

\* An edit, a flush, a draft and the writes of an exit.
LEMMA RequestingWrites ==
    ASSUME EditingInvariant, AllWritten, StampsArePast, NEW t \in Tabs,
           \/ Edit(t) \/ Flush(t) \/ ManualSave(t) \/ AutoSave(t)
           \/ SaveAndExit(t) \/ ExitIdle(t)
    PROVE  WritesGoOn
<1>1. /\ doc \in [Tabs -> Document] /\ doc[t] \in Document /\ DocumentIsConsistent(doc[t])
      /\ tick \in Versions /\ doc[t].mem # None /\ doc[t].mem \in Versions
  <2>1. Flush(t) \/ doc[t].at = "open"
    BY DocumentFacts
    DEF Edit, ManualSave, AutoSave, SaveAndExit, ExitIdle, Editable, DocumentIsConsistent
  <2>2. doc[t].mem # None BY <2>1, DocumentFacts DEF Flush, DocumentIsConsistent
  <2> QED BY <2>2, DocumentFacts DEF Document
<1>2. doc[t].project \in Projects
  <2>1. doc[t].at \notin {"off", "start"} BY <1>1 DEF DocumentIsConsistent
  <2> QED BY <2>1, DocumentFacts DEF DocumentIsCovered, Document
<1>3. /\ UNCHANGED <<stored, explicit>>
      /\ tick' \in Versions /\ tick <= tick'
      /\ ~Edit(t) => tick' = tick
      /\ Edit(t) => tick' = tick + 1
  <2>1. CASE Edit(t)
    BY <1>1, <2>1, LimitAssumption DEF Edit, Versions, store
  <2>2. CASE ~Edit(t)
    <3>1. UNCHANGED <<stored, explicit, tick>>
      BY <2>2 DEF Flush, ManualSave, AutoSave, SaveAndExit, ExitIdle, Page, store
    <3> QED BY <1>1, <2>2, <3>1 DEF Versions
  <2> QED BY <2>1, <2>2
<1>4. doc[t].mem <= tick
  <2>1. InOrder(doc[t], tick) BY DEF AllWritten, Written
  <2> QED BY <1>1, <2>1 DEF InOrder
<1>5. PICK b \in Document, tag \in {"snapshot", "final", "manual", "auto", "seal"} :
        /\ doc' = [doc EXCEPT ![t] = Enqueued(b, NewWrite(tag, b.mem))]
        /\ b.project = doc[t].project /\ b.queue = doc[t].queue /\ b.at = doc[t].at
        /\ \/ b.mem = doc[t].mem
           \/ Edit(t) /\ b.mem = tick + 1
        /\ \/ tag \in Snapshots
           \/ b.mem = doc[t].mem /\ b.saveFailed = doc[t].saveFailed
  <2>1. CASE Edit(t)
    <3> DEFINE b == [doc[t] EXCEPT !.mem = tick + 1, !.saveFailed = FALSE]
    <3>1. tick + 1 \in Versions BY <1>3, <2>1
    <3>2. b \in Document BY <1>1, <3>1 DEF Document
    <3>3. /\ b.project = doc[t].project /\ b.queue = doc[t].queue /\ b.at = doc[t].at
          /\ b.mem = tick + 1
      BY <1>1 DEF Document
    <3>4. doc' = [doc EXCEPT ![t] = Enqueued(b, NewWrite("snapshot", b.mem))]
      BY <1>1, <2>1, <3>3 DEF Edit, Becomes, SnapshotEnqueued, Document
    <3> HIDE DEF b
    <3> QED BY <2>1, <3>2, <3>3, <3>4 DEF Snapshots
  <2>2. CASE Flush(t)
    <3> DEFINE b == [doc[t] EXCEPT !.saveFailed = FALSE]
    <3>2. b \in Document BY <1>1 DEF Document
    <3>3. /\ b.project = doc[t].project /\ b.queue = doc[t].queue /\ b.at = doc[t].at
          /\ b.mem = doc[t].mem
      BY <1>1 DEF Document
    <3>4. doc' = [doc EXCEPT ![t] = Enqueued(b, NewWrite("snapshot", b.mem))]
      BY <2>2, <3>3 DEF Flush, Becomes, SnapshotEnqueued
    <3> HIDE DEF b
    <3> QED BY <3>2, <3>3, <3>4 DEF Snapshots
  <2>3. CASE SaveAndExit(t)
    <3> DEFINE c == [doc[t] EXCEPT !.exit = "flush"]
               b == [c EXCEPT !.saveFailed = FALSE]
    <3>1. c \in Document /\ c.mem = doc[t].mem BY <1>1 DEF Document
    <3>2. b \in Document
      <4> HIDE DEF c
      <4> QED BY <3>1 DEF Document
    <3>3. /\ b.project = doc[t].project /\ b.queue = doc[t].queue /\ b.at = doc[t].at
          /\ b.mem = doc[t].mem
      BY <1>1 DEF Document
    <3>4. doc' = [doc EXCEPT ![t] = Enqueued(b, NewWrite("final", b.mem))]
      BY <2>3, <3>1, <3>3 DEF SaveAndExit, Becomes, SnapshotEnqueued
    <3> HIDE DEF b
    <3> QED BY <3>2, <3>3, <3>4 DEF Snapshots
  <2>4. CASE ManualSave(t) \/ AutoSave(t)
    <3> DEFINE b == [doc[t] EXCEPT !.drafting = TRUE]
    <3>2. b \in Document BY <1>1 DEF Document
    <3>3. /\ b.project = doc[t].project /\ b.queue = doc[t].queue /\ b.at = doc[t].at
          /\ b.mem = doc[t].mem /\ b.saveFailed = doc[t].saveFailed
      BY <1>1 DEF Document
    <3>4. \E tag \in {"manual", "auto"} :
            doc' = [doc EXCEPT ![t] = Enqueued(b, NewWrite(tag, b.mem))]
      BY <2>4, <3>3 DEF ManualSave, AutoSave, Becomes
    <3> HIDE DEF b
    <3> QED BY <3>2, <3>3, <3>4
  <2>5. CASE ExitIdle(t)
    <3> DEFINE b == [doc[t] EXCEPT !.exit = "seal"]
    <3>2. b \in Document BY <1>1 DEF Document
    <3>3. /\ b.project = doc[t].project /\ b.queue = doc[t].queue /\ b.at = doc[t].at
          /\ b.mem = doc[t].mem /\ b.saveFailed = doc[t].saveFailed
      BY <1>1 DEF Document
    <3>4. doc' = [doc EXCEPT ![t] = Enqueued(b, NewWrite("seal", b.mem))]
      BY <2>5, <3>3 DEF ExitIdle, Becomes
    <3> HIDE DEF b
    <3> QED BY <3>2, <3>3, <3>4
  <2> QED BY <2>1, <2>2, <2>3, <2>4, <2>5
<1> DEFINE w == NewWrite(tag, b.mem)
<1>6. b.mem \in Versions /\ doc[t].mem <= b.mem /\ b.mem <= tick'
  <2>1. CASE b.mem = doc[t].mem BY <1>1, <1>3, <1>4, <2>1 DEF Versions
  <2>2. CASE Edit(t) /\ b.mem = tick + 1 BY <1>1, <1>3, <1>4, <2>2 DEF Versions
  <2> QED BY <1>5, <2>1, <2>2
<1>7. w \in Write /\ w.tag = tag /\ w.version = b.mem
  BY <1>6, NewWriteType DEF Tags, Saves, DraftSaves
<1>8. Begun(b) => Begun(doc[t])
  BY <1>1, <1>5 DEF Begun
<1>9. b.project \in Projects BY <1>2, <1>5
<1>10. doc' = [doc EXCEPT ![t] = Enqueued(b, w)] BY <1>5
<1> HIDE DEF w
<1>11. Begun(b) => /\ Begun(doc[t])
                   /\ \/ doc[t].mem # None
                      \/ stored[doc[t].project] \in {None, b.mem}
  BY <1>1, <1>8
<1>12. /\ w.tag \notin {"barrier", "restore"}
       /\ \/ w.tag \in Snapshots
          \/ doc[t].mem = None /\ b.at # "open"
          \/ /\ b.mem = doc[t].mem /\ b.saveFailed = doc[t].saveFailed
             /\ b.at = "open" => doc[t].at = "open"
  BY <1>5, <1>7
<1>13. UNCHANGED <<stored, explicit>> /\ tick' \in Versions /\ tick <= tick' BY <1>3
<1>14. b.project = doc[t].project /\ b.queue = doc[t].queue BY <1>5
<1> QED BY <1>6, <1>7, <1>9, <1>10, <1>11, <1>12, <1>13, <1>14, EnqueuingWrites

\* Steps that leave the queue and what it says as it is.
LEMMA GoingOnWrites ==
    ASSUME EditingInvariant, AllWritten, StampsArePast, NEW t \in Tabs,
           StartWrite(t) \/ DiscardAndExit(t) \/ ExitSeals(t) \/ ExitDrained(t) \/ ExitFails(t)
    PROVE  WritesGoOn
<1>1. /\ doc \in [Tabs -> Document] /\ doc[t] \in Document /\ DocumentIsConsistent(doc[t])
      /\ tick \in Versions
  BY DocumentFacts
<1>2. UNCHANGED <<stored, explicit, tick>>
  BY DEF StartWrite, DiscardAndExit, ExitSeals, ExitDrained, ExitFails, Page, store
<1>3. \A s \in Tabs \ {t} : doc'[s] = doc[s]
  BY <1>1 DEF StartWrite, DiscardAndExit, ExitSeals, ExitDrained, ExitFails, Becomes
<1> DEFINE Goes(d, e) == /\ SameWrites(d, e) /\ e.saveFailed = d.saveFailed
                         /\ e.at = d.at /\ e.project = d.project
<1>4. ASSUME NEW b \in Document, Goes(doc[t], b), doc'[t] = GenerationAdvanced(b)
      PROVE  Goes(doc[t], doc'[t])
  <2>1. b.queue \in Seq(Write) BY DEF Document
  <2>2. LET e == GenerationAdvanced(b) IN
        /\ SameBut(b, e) /\ e.saveFailed = b.saveFailed
        /\ e.queue = [i \in DOMAIN b.queue |->
                        IF i = 1 /\ b.running THEN b.queue[i]
                        ELSE [b.queue[i] EXCEPT !.stale = TRUE]]
    BY DEF GenerationAdvanced, SameBut, Document
  <2> DEFINE e == GenerationAdvanced(b)
  <2>3. DOMAIN e.queue = DOMAIN b.queue BY <2>2
  <2>4. ASSUME NEW i \in DOMAIN b.queue
        PROVE  e.queue[i].tag = b.queue[i].tag /\ e.queue[i].version = b.queue[i].version
    <3>1. b.queue[i] \in Write BY <2>1
    <3>2. e.queue[i] = b.queue[i] \/ e.queue[i] = [b.queue[i] EXCEPT !.stale = TRUE]
      BY <2>2
    <3> HIDE DEF e
    <3> QED BY <3>1, <3>2 DEF Write
  <2>5. SameBut(b, e) /\ e.saveFailed = b.saveFailed BY <2>2
  <2> HIDE DEF e
  <2>6. Goes(doc[t], e) BY <1>4, <2>3, <2>4, <2>5 DEF SameWrites, SameBut
  <2> QED BY <1>4, <2>6 DEF e
<1>5. Goes(doc[t], doc'[t])
  <2>1. CASE StartWrite(t)
    BY <1>1, <2>1 DEF StartWrite, SameWrites, Document
  <2>2. CASE DiscardAndExit(t)
    BY <1>1, <2>2 DEF DiscardAndExit, SameWrites, Document
  <2>3. CASE ExitFails(t)
    BY <1>1, <2>3 DEF ExitFails, SameWrites, Document
  <2>4. CASE ExitSeals(t)
    <3> DEFINE b == [doc[t] EXCEPT !.completed = TRUE, !.exit = "commit"]
    <3>1. b \in Document BY <1>1 DEF Document
    <3>2. Goes(doc[t], b) BY <1>1 DEF SameWrites, Document
    <3>3. doc'[t] = GenerationAdvanced(b) BY <1>1, <2>4 DEF ExitSeals, Becomes
    <3> HIDE DEF b, Goes
    <3> QED BY <1>4, <3>1, <3>2, <3>3
  <2>5. CASE ExitDrained(t)
    <3> DEFINE b == [doc[t] EXCEPT !.exit = "discard"]
    <3>1. b \in Document BY <1>1 DEF Document
    <3>2. Goes(doc[t], b) BY <1>1 DEF SameWrites, Document
    <3>3. doc'[t] = GenerationAdvanced(b) BY <1>1, <2>5 DEF ExitDrained, Becomes
    <3> HIDE DEF b, Goes
    <3> QED BY <1>4, <3>1, <3>2, <3>3
  <2> QED BY <2>1, <2>2, <2>3, <2>4, <2>5
<1>6. Begun(doc'[t]) => Begun(doc[t]) BY <1>5 DEF Begun, SameWrites
<1>7. Written(doc[t], stored[doc'[t].project], tick') BY <1>2, <1>5 DEF AllWritten
<1>8. Written(doc'[t], stored[doc'[t].project], tick')
  BY <1>5, <1>6, <1>7, GoingOnIsWritten
<1>9. tick' \in Versions /\ tick <= tick' BY <1>1, <1>2 DEF Versions
<1> QED BY <1>2, <1>3, <1>8, <1>9, QuietWrites

\* The transaction that ends the edit.
LEMMA EndingWrites ==
    ASSUME EditingInvariant, AllWritten, StampsArePast, NEW t \in Tabs,
           CommitCheckpoint(t) \/ DiscardSession(t)
    PROVE  WritesGoOn
<1>1. /\ doc \in [Tabs -> Document] /\ doc[t] \in Document /\ DocumentIsConsistent(doc[t])
      /\ DocumentIsCovered(t) /\ tick \in Versions /\ SharedTypes
      /\ doc[t].exit \in {"commit", "discard"} /\ Owns(t)
  BY DocumentFacts DEF CommitCheckpoint, DiscardSession
<1>2. doc[t].at = "open" /\ doc[t].mem # None BY <1>1 DEF DocumentIsConsistent
<1>3. PICK p \in Projects : p = doc[t].project
  BY <1>1, <1>2 DEF DocumentIsCovered, Document
<1>4. lock[p] = t /\ checkpoint[p] # None
  BY <1>1, <1>2, <1>3 DEF DocumentIsCovered, Begun, Owns
<1>5. tick' = tick /\ \A s \in Tabs \ {t} : doc'[s] = doc[s]
  BY <1>1 DEF CommitCheckpoint, DiscardSession
<1>6. /\ \A q \in Projects \ {p} : stored'[q] = stored[q] /\ explicit'[q] = explicit[q]
      /\ stored'[p] # None => stored'[p] <= tick
      /\ explicit'[p] # None => explicit'[p] <= tick
  <2>1. CASE CommitCheckpoint(t)
    <3>1. doc[t].final = doc[t].mem
      BY <1>1, <2>1 DEF CommitCheckpoint, DocumentIsConsistent
    <3>2. doc[t].mem <= tick
      <4>1. InOrder(doc[t], tick) BY DEF AllWritten, Written
      <4> QED BY <1>2, <4>1 DEF InOrder
    <3>3. /\ stored' = [stored EXCEPT ![p] = doc[t].mem]
          /\ explicit' = [explicit EXCEPT ![p] = doc[t].mem]
      BY <1>3, <2>1, <3>1 DEF CommitCheckpoint
    <3> QED BY <1>1, <3>2, <3>3 DEF SharedTypes
  <2>2. CASE DiscardSession(t)
    <3>1. SavedNow[p] = RolledBackProject(checkpoint[p], drafts[p]) /\ SavedNow = explicit
      BY <1>4, SavedNowIsExplicit DEF SavedNow
    <3>2. stored' = [stored EXCEPT ![p] = explicit[p]] /\ explicit' = explicit
      BY <1>3, <2>2, <3>1 DEF DiscardSession, DiscardCheckpoint
    <3> QED BY <1>1, <3>2 DEF SharedTypes, StampsArePast
  <2> QED BY <2>1, <2>2
<1>7. SameWrites(doc[t], doc'[t]) /\ doc'[t].at = "left"
  BY <1>1 DEF CommitCheckpoint, DiscardSession, SameWrites, Document
<1>8. Written(doc'[t], stored'[doc'[t].project], tick')
  BY <1>5, <1>7, LeftIsWritten DEF AllWritten
<1> QED BY <1>4, <1>5, <1>6, <1>8, OneProjectWritten

\* What is known of the document whose first write is over.
LEMMA RunningFacts ==
    ASSUME EditingInvariant, AllWritten, NEW t \in Tabs, doc[t].queue # <<>>
    PROVE  /\ doc \in [Tabs -> Document] /\ doc[t] \in Document
           /\ DocumentIsConsistent(doc[t]) /\ doc[t].project \in Projects
           /\ lock[doc[t].project] = t /\ tick \in Versions
           /\ stored[doc[t].project] \in Versions \cup {None}
           /\ Written(doc[t], stored[doc[t].project], tick)
           /\ Head1(t).version \in Versions /\ Head1(t).version <= tick
           /\ Head1(t).tag \in Tags \ {"barrier", "restore"}
<1>1. /\ doc \in [Tabs -> Document] /\ doc[t] \in Document /\ tick \in Versions
      /\ DocumentIsConsistent(doc[t]) /\ doc[t].project \in Projects
      /\ lock[doc[t].project] = t /\ doc[t].mem # None
      /\ Head1(t) \in Write /\ doc[t].queue[1] = Head1(t) /\ 1 \in DOMAIN doc[t].queue
  BY HeadFacts, DocumentFacts
<1>2. stored[doc[t].project] \in Versions \cup {None}
  BY <1>1, DocumentFacts DEF SharedTypes
<1>3. InOrder(doc[t], tick) BY DEF AllWritten, Written
<1>4. /\ Head1(t).version <= doc[t].mem /\ doc[t].mem <= tick
      /\ Head1(t).tag \notin {"barrier", "restore"}
  BY <1>1, <1>3 DEF InOrder
<1>5. Head1(t).version \in Versions /\ doc[t].mem \in Versions /\ Head1(t).tag \in Tags
  BY <1>1 DEF Write, Document
<1>6. Head1(t).version <= tick BY <1>1, <1>4, <1>5 DEF Versions
<1> QED BY <1>1, <1>2, <1>4, <1>5, <1>6 DEF AllWritten

\* A write that is rejected, or whose transaction aborts.
LEMMA FailingWrites ==
    ASSUME EditingInvariant, AllWritten, StampsArePast, NEW t \in Tabs,
           RejectStale(t) \/ WriteFails(t)
    PROVE  WritesGoOn
<1> DEFINE tag == Head(doc[t].queue).tag
           b == Popped(doc[t])
           e == AfterFailure(b, tag)
<1>1. doc[t].queue # <<>> BY DEF RejectStale, WriteFails, Waiting, Running
<1>2. /\ doc \in [Tabs -> Document] /\ doc[t] \in Document
      /\ DocumentIsConsistent(doc[t]) /\ tick \in Versions
      /\ stored[doc[t].project] \in Versions \cup {None}
      /\ Written(doc[t], stored[doc[t].project], tick)
      /\ tag \in Tags
  BY <1>1, RunningFacts DEF Head1
<1>3. doc' = [doc EXCEPT ![t] = e] /\ UNCHANGED <<stored, explicit, tick>>
  BY DEF RejectStale, WriteFails, Becomes, Head1, Page, store
<1>4. /\ e.project = doc[t].project /\ e.queue = b.queue /\ e.mem = doc[t].mem
      /\ e.at = doc[t].at \/ (doc[t].at = "entering" /\ e.at = "failed")
  BY <1>1, <1>2, FailedDocument
<1>5. b \in Document /\ b.saveFailed = doc[t].saveFailed
  BY <1>1, <1>2, PoppedDocument, PoppedQueue
<1>6. e.saveFailed \/ (e.saveFailed = doc[t].saveFailed /\ tag \notin Snapshots)
  <2> HIDE DEF b
  <2> QED BY <1>5 DEF AfterFailure, Snapshots, Document
<1> HIDE DEF e
<1>7. Begun(e) => Begun(doc[t]) BY <1>4 DEF Begun
<1>8. e.at = "open" => doc[t].at = "open" BY <1>4
<1>9. tick \in Int /\ tick' \in Versions /\ tick <= tick' BY <1>2, <1>3 DEF Versions
<1>10. Written(e, stored[doc[t].project], tick)
  <2>1. e.queue = Popped(doc[t]).queue BY <1>4
  <2>2. e.at = "open" => \/ e.saveFailed
                         \/ /\ e.saveFailed = doc[t].saveFailed /\ doc[t].at = "open"
                            /\ Head(doc[t].queue).tag \notin Snapshots
    BY <1>6, <1>8
  <2> QED BY <1>1, <1>2, <1>4, <1>7, <1>9, <2>1, <2>2, PoppedIsWritten
<1>11. /\ doc'[t] = e /\ \A s \in Tabs \ {t} : doc'[s] = doc[s] BY <1>2, <1>3
<1>12. Written(doc'[t], stored[doc'[t].project], tick') BY <1>3, <1>4, <1>10, <1>11
<1> QED BY <1>3, <1>9, <1>11, <1>12, QuietWrites

\* A write that is done: the disk has what it says, and does not go back.
LEMMA DoneWrites ==
    ASSUME EditingInvariant, AllWritten, StampsArePast, NEW t \in Tabs,
           CommitSave(t) \/ CommitDraft(t)
    PROVE  /\ WritesGoOn
           /\ stored' = [stored EXCEPT ![doc[t].project] = Head1(t).version]
           /\ (Begun(doc[t]) /\ stored[doc[t].project] # None)
                => stored[doc[t].project] <= Head1(t).version
<1> DEFINE w == Head(doc[t].queue)
           b == Popped(doc[t])
           e == IF w.tag \in Saves THEN AfterSave(b, w) ELSE AfterDraft(b, w)
<1>1. doc[t].queue # <<>> BY DEF CommitSave, CommitDraft, Running
<1>2. /\ doc \in [Tabs -> Document] /\ doc[t] \in Document
      /\ DocumentIsConsistent(doc[t]) /\ tick \in Versions
      /\ stored[doc[t].project] \in Versions \cup {None}
      /\ Written(doc[t], stored[doc[t].project], tick)
      /\ w = Head1(t) /\ w.version \in Versions /\ w.version <= tick
      /\ w.tag \in Tags \ {"barrier", "restore"}
  BY <1>1, RunningFacts DEF Head1
<1>3. PICK p \in Projects : p = doc[t].project /\ lock[p] = t
  BY <1>1, RunningFacts
<1>4. /\ doc' = [doc EXCEPT ![t] = e]
      /\ stored' = [stored EXCEPT ![p] = w.version]
      /\ explicit' = explicit \/ explicit' = [explicit EXCEPT ![p] = w.version]
      /\ tick' = tick
  <2>1. CASE CommitSave(t)
    <3>1. w.tag \in Saves BY <1>2, <2>1 DEF CommitSave
    <3> QED BY <1>2, <1>3, <2>1, <3>1 DEF CommitSave, Becomes
  <2>2. CASE CommitDraft(t)
    <3>1. w.tag \notin Saves BY <1>2, <2>2 DEF CommitDraft, Saves, DraftSaves
    <3> QED BY <1>2, <1>3, <2>2, <3>1 DEF CommitDraft, Becomes
  <2> QED BY <2>1, <2>2
<1>5. b \in Document /\ SameBut(doc[t], b)
  BY <1>1, <1>2, PoppedDocument
<1>6. w.tag = "entry" => doc[t].at = "entering"
  <2>1. w = doc[t].queue[1] /\ 1 \in DOMAIN doc[t].queue BY <1>1, <1>2, PoppedQueue
  <2> QED BY <1>2, <2>1 DEF DocumentIsConsistent
<1>7. /\ e.project = b.project /\ e.queue = b.queue /\ e.mem = b.mem
      /\ e.at = b.at \/ (w.tag = "entry" /\ e.at = "open")
  <2> HIDE DEF b, w
  <2>1. CASE w.tag \in {"snapshot", "final", "entry"}
    BY <1>5, <2>1 DEF AfterSave, Saves, Document
  <2>2. CASE w.tag \in DraftSaves
    BY <1>5, <2>2 DEF AfterDraft, Saves, DraftSaves, Document
  <2> QED BY <1>2, <2>1, <2>2 DEF Tags, Saves
<1> HIDE DEF e
<1>8. Begun(e) => Begun(doc[t]) BY <1>5, <1>6, <1>7 DEF Begun, SameBut
<1>9. /\ Written(e, w.version, tick)
      /\ (Begun(doc[t]) /\ stored[doc[t].project] # None)
            => stored[doc[t].project] <= w.version
  <2>1. /\ e.queue = Popped(doc[t]).queue /\ e.mem = doc[t].mem
        /\ w.version \in Versions \cup {None} /\ tick \in Int
    BY <1>2, <1>5, <1>7 DEF SameBut, Versions
  <2> QED BY <1>1, <1>2, <1>8, <2>1, PoppedIsWritten
<1>10. /\ doc'[t] = e /\ \A s \in Tabs \ {t} : doc'[s] = doc[s] BY <1>2, <1>4
<1>11. /\ stored'[p] = w.version /\ explicit'[p] \in {explicit[p], w.version}
       /\ \A q \in Projects \ {p} : stored'[q] = stored[q] /\ explicit'[q] = explicit[q]
  BY <1>4, DocumentFacts DEF SharedTypes
<1>12. Written(doc'[t], stored'[doc'[t].project], tick')
  BY <1>3, <1>4, <1>5, <1>7, <1>9, <1>10, <1>11 DEF SameBut
<1>13. /\ stored'[p] # None => stored'[p] <= tick
       /\ explicit'[p] # None => explicit'[p] <= tick
  BY <1>2, <1>11 DEF StampsArePast
<1>14. WritesGoOn
  BY <1>3, <1>4, <1>10, <1>11, <1>12, <1>13, OneProjectWritten
<1> QED BY <1>2, <1>3, <1>4, <1>9, <1>14

\* Where nothing is restored, no restore is ever queued.
LEMMA NothingIsRestored ==
    ASSUME EditingInvariant, AllWritten, NEW t \in Tabs
    PROVE  ~CommitRestore(t)
<1> SUFFICES ASSUME CommitRestore(t) PROVE FALSE
  OBVIOUS
<1>1. doc[t].queue # <<>> /\ Head1(t).tag = "restore" BY DEF CommitRestore, Running
<1>2. Head1(t).tag \notin {"barrier", "restore"} BY <1>1, RunningFacts
<1> QED BY <1>1, <1>2

LEMMA NextKeepsWrites ==
    ASSUME ~Restores, EditingInvariant, EditingInvariant', AllWritten, StampsArePast,
           [Next]_vars
    PROVE  WritesGoOn
<1>1. CASE UNCHANGED vars
  <2>1. UNCHANGED <<stored, explicit, doc, tick>> BY <1>1 DEF vars
  <2> QED BY <2>1 DEF WritesGoOn, AllWritten, StampsArePast
<1>2. ASSUME NEW t \in Tabs,
             \/ StartPage(t) \/ Refresh(t) \/ OpenRefused(t) \/ EnterEditor(t)
             \/ \E p \in Projects, fresh \in BOOLEAN : RequestOpen(t, p, fresh)
             \/ \E p \in Projects :
                  AcquireAbandoned(t, p) \/ SkipOwned(t, p) \/ RollBackFails(t, p)
             \/ AcquireWriter(t) \/ WriterRefused(t) \/ BeginCheckpoint(t)
             \/ BeginFails(t) \/ EntryRefused(t)
             \/ Leave(t) \/ Close(t) \/ Reload(t)
      PROVE  WritesGoOn
  BY <1>2, BlankSteps
<1>3. ASSUME NEW t \in Tabs,
             \/ \E p \in Projects : RollBack(t, p) \/ DeleteProject(t, p)
             \/ DeleteAll(t)
      PROVE  WritesGoOn
  BY <1>3, RollBackWrites, DeletingWrites
<1>4. ASSUME NEW t \in Tabs,
             \/ LoadProject(t) \/ Edit(t) \/ Flush(t) \/ ManualSave(t) \/ AutoSave(t)
             \/ SaveAndExit(t) \/ ExitIdle(t)
      PROVE  WritesGoOn
  BY <1>4, LoadingWrites, RequestingWrites
<1>5. ASSUME NEW t \in Tabs,
             \/ StartWrite(t) \/ DiscardAndExit(t) \/ ExitSeals(t) \/ ExitDrained(t)
             \/ ExitFails(t) \/ CommitCheckpoint(t) \/ DiscardSession(t)
      PROVE  WritesGoOn
  BY <1>5, GoingOnWrites, EndingWrites
<1>6. ASSUME NEW t \in Tabs,
             RejectStale(t) \/ WriteFails(t) \/ CommitSave(t) \/ CommitDraft(t)
      PROVE  WritesGoOn
  BY <1>6, FailingWrites, DoneWrites
<1>7. ASSUME NEW t \in Tabs PROVE ~Restore(t) /\ ~CommitRestore(t)
  BY NothingIsRestored DEF Restore
<1> QED BY <1>1, <1>2, <1>3, <1>4, <1>5, <1>6, <1>7 DEF Next, Cleaning, Writing, Exiting

\* Where nothing is restored, every document's writes stay in order, and the
\* disk stays behind them.
THEOREM WriteInvariantHolds == ~Restores => (Spec => []WriteInvariant)
<1> SUFFICES ASSUME ~Restores PROVE Spec => []WriteInvariant
  OBVIOUS
<1>1. Init /\ EditingInvariant => WriteInvariant
  <2> SUFFICES ASSUME Init, EditingInvariant PROVE WriteInvariant
    OBVIOUS
  <2>1. StampsArePast
    <3>1. \A p \in Projects : stored[p] \in {None, 0} BY DEF Init
    <3>2. explicit = stored /\ tick = 0 BY DEF Init
    <3> QED BY <3>1, <3>2 DEF StampsArePast
  <2>2. AllWritten
    <3>1. ASSUME NEW t \in Tabs
          PROVE  doc[t].queue = <<>> /\ doc[t].mem = None /\ doc[t].at # "open"
      BY DEF Init, Off
    <3> QED BY <3>1, BlankIsWritten DEF AllWritten
  <2> QED BY <2>1, <2>2, WriteInvariantParts
<1>2. WriteInvariant /\ EditingInvariant' /\ [Next]_vars => WriteInvariant'
  <2> SUFFICES ASSUME WriteInvariant, EditingInvariant', [Next]_vars
               PROVE  WriteInvariant'
    OBVIOUS
  <2>1. EditingInvariant /\ StampsArePast /\ AllWritten BY WriteInvariantParts
  <2>2. StampsArePast' /\ AllWritten' BY <2>1, NextKeepsWrites DEF WritesGoOn
  <2>3. (WriteInvariant <=> EditingInvariant /\ StampsArePast /\ AllWritten)'
    BY WriteInvariantParts, PTL
  <2> QED BY <2>2, <2>3
<1> QED BY <1>1, <1>2, EditingInvariantHolds, PTL DEF Spec

\* What the editor says about the current state being saved is true, in every
\* interleaving of edits, flushes, failures, drafts, exits and other tabs.
THEOREM StatusStaysTruthful == ~Restores => (Spec => []StatusIsTruthful)
<1>1. WriteInvariant => StatusIsTruthful BY DEF WriteInvariant
<1> QED BY <1>1, WriteInvariantHolds, PTL

\* What a step does to the disk of a project that is being edited.
LEMMA OnlyWritesChangeTheDisk ==
    ASSUME EditingInvariant, [Next]_vars, NEW p \in Projects,
           checkpoint'[p] # None, stored'[p] # stored[p]
    PROVE  \E t \in Tabs : CommitSave(t) \/ CommitDraft(t) \/ CommitRestore(t)
<1>1. SharedTypes
  BY DEF SharedTypes, EditingInvariant, TypeOK
<1>2. CASE UNCHANGED vars BY <1>2 DEF vars
<1>3. ASSUME NEW t \in Tabs,
             \/ StartPage(t) \/ Refresh(t) \/ OpenRefused(t) \/ EnterEditor(t)
             \/ \E q \in Projects, fresh \in BOOLEAN : RequestOpen(t, q, fresh)
             \/ \E q \in Projects :
                  AcquireAbandoned(t, q) \/ SkipOwned(t, q) \/ RollBackFails(t, q)
             \/ AcquireWriter(t) \/ WriterRefused(t) \/ BeginCheckpoint(t)
             \/ BeginFails(t) \/ EntryRefused(t)
             \/ Leave(t) \/ Close(t) \/ Reload(t)
      PROVE  FALSE
  <2>1. stored' = stored
    BY <1>3
    DEF StartPage, Refresh, OpenRefused, EnterEditor, RequestOpen, AcquireAbandoned,
        SkipOwned, RollBackFails, AcquireWriter, WriterRefused, BeginCheckpoint,
        BeginFails, EntryRefused, Leave, Close, Reload, Keep, Page, store
  <2> QED BY <2>1
<1>4. ASSUME NEW t \in Tabs,
             \/ LoadProject(t) \/ Edit(t) \/ Flush(t) \/ ManualSave(t) \/ AutoSave(t)
             \/ Restore(t) \/ SaveAndExit(t) \/ DiscardAndExit(t)
             \/ StartWrite(t) \/ RejectStale(t) \/ WriteFails(t)
             \/ ExitIdle(t) \/ ExitSeals(t) \/ ExitDrained(t) \/ ExitFails(t)
      PROVE  FALSE
  <2>1. stored' = stored
    BY <1>4
    DEF LoadProject, Edit, Flush, ManualSave, AutoSave, Restore, SaveAndExit,
        DiscardAndExit, StartWrite, RejectStale, WriteFails, ExitIdle, ExitSeals,
        ExitDrained, ExitFails, Page, store
  <2> QED BY <2>1
<1>5. ASSUME NEW q \in Projects, DiscardCheckpoint(q) PROVE FALSE
  BY <1>1, <1>5 DEF DiscardCheckpoint, SharedTypes
<1>6. ASSUME NEW P \in SUBSET Projects, Forgotten(P) PROVE FALSE
  BY <1>6 DEF Forgotten
<1>7. ASSUME NEW t \in Tabs, NEW q \in Projects, RollBack(t, q) PROVE FALSE
  <2>1. DiscardCheckpoint(q) \/ stored' = stored
    BY <1>7 DEF RollBack, UnchangedStore, store
  <2> QED BY <1>5, <2>1
<1>8. ASSUME NEW t \in Tabs, (\E q \in Projects : DeleteProject(t, q)) \/ DeleteAll(t)
      PROVE  FALSE
  <2>1. \E P \in SUBSET Projects : Forgotten(P)
    BY <1>8 DEF DeleteProject, DeleteAll
  <2> QED BY <1>6, <2>1
<1>9. ASSUME NEW t \in Tabs, CommitCheckpoint(t) \/ DiscardSession(t) PROVE FALSE
  <2>1. doc[t].project \in Projects
    BY <1>9, DocumentFacts
    DEF CommitCheckpoint, DiscardSession, DocumentIsConsistent, DocumentIsCovered, Document
  <2>2. CASE CommitCheckpoint(t) BY <1>1, <2>1, <2>2 DEF CommitCheckpoint, SharedTypes
  <2>3. CASE DiscardSession(t) BY <1>5, <2>1, <2>3 DEF DiscardSession
  <2> QED BY <1>9, <2>2, <2>3
<1> QED BY <1>2, <1>3, <1>4, <1>7, <1>8, <1>9 DEF Next, Cleaning, Writing, Exiting

\* While an edit is under way and nothing is restored, the project on disk
\* never goes back to an earlier state.
THEOREM DurableStateOnlyAdvances == ~Restores => (Spec => DurableOnlyAdvances)
<1> SUFFICES ASSUME ~Restores PROVE Spec => DurableOnlyAdvances
  OBVIOUS
<1> DEFINE Advances ==
        \A p \in Projects :
          (/\ checkpoint[p] # None /\ checkpoint'[p] # None
           /\ stored[p] # None)
              => stored'[p] # None /\ stored'[p] >= stored[p]
<1>1. WriteInvariant /\ [Next]_vars => [Advances]_vars
  <2> SUFFICES ASSUME WriteInvariant, [Next]_vars, NEW p \in Projects,
                      checkpoint[p] # None, checkpoint'[p] # None, stored[p] # None
               PROVE  stored'[p] # None /\ stored'[p] >= stored[p]
    OBVIOUS
  <2>1. EditingInvariant /\ StampsArePast /\ AllWritten BY WriteInvariantParts
  <2>2. stored \in [Projects -> Versions \cup {None}] /\ stored[p] \in Versions
    BY <2>1 DEF EditingInvariant, TypeOK
  <2>3. CASE stored'[p] = stored[p] BY <2>2, <2>3 DEF Versions
  <2>4. CASE stored'[p] # stored[p]
    <3>1. PICK t \in Tabs : CommitSave(t) \/ CommitDraft(t)
      BY <2>1, <2>4, OnlyWritesChangeTheDisk, NothingIsRestored
    <3>2. /\ doc[t].queue # <<>>
          /\ stored' = [stored EXCEPT ![doc[t].project] = Head1(t).version]
          /\ (Begun(doc[t]) /\ stored[doc[t].project] # None)
               => stored[doc[t].project] <= Head1(t).version
      BY <2>1, <3>1, DoneWrites DEF CommitSave, CommitDraft, Running
    <3>3. Head1(t).version \in Versions BY <2>1, <3>2, RunningFacts
    <3>4. doc[t].project = p BY <2>2, <2>4, <3>2
    <3>5. Begun(doc[t])
      BY <2>1, <3>2, <3>4, HeadFacts DEF Begun, DocumentIsCovered
    <3> QED BY <2>2, <3>2, <3>3, <3>4, <3>5, NoneAssumption DEF Versions
  <2> QED BY <2>3, <2>4
<1>2. DurableOnlyAdvances <=> [][Advances]_vars BY DEF DurableOnlyAdvances
<1> HIDE DEF Advances
<1> QED BY <1>1, <1>2, WriteInvariantHolds, PTL DEF Spec
=============================================================================
