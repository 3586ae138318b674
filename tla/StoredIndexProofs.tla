-------------------------- MODULE StoredIndexProofs --------------------------
(***************************************************************************)
(* What the builds store and reuse is true, for any number of servers,     *)
(* files, edits and builds.                                                *)
(*                                                                         *)
(* The argument: a file that is written from now on gets a modification    *)
(* time that is not before the file system's clock, so a stamp before that *)
(* clock is never given again.  Every stored stamp is before the clock.    *)
(* While a build reads a file it is compared with the time at which the    *)
(* build stamped it, less the granularity.                                 *)
(***************************************************************************)
EXTENDS StoredIndex, TLAPS

BuildFields ==
    {"full", "project", "started", "seen", "refs", "inputs", "classpath", "artifacts",
     "todo", "at", "validity", "since", "charge", "entries", "facts", "budget", "index",
     "fresh", "reused"}

BuildOK(b) ==
    /\ DOMAIN b = BuildFields
    /\ DOMAIN b.index = Artifacts /\ DOMAIN b.fresh = Artifacts
    /\ b.since \in Nat /\ b.started \in Nat
    /\ b.todo \subseteq Artifacts /\ b.reused \subseteq Artifacts
    /\ b.todo \cap b.reused = {}

TimeOK(n, k) ==
    /\ n \in Nat /\ k \in Nat
    /\ k <= n /\ n < k + Granularity

FileOK(f, k) == f # None => f.modified \in Nat /\ f.modified <= k

(* A record that is stored, or will be, has a stamp that is not given any  *)
(* more and describes every file with that stamp.  `whole`: its job was    *)
(* not cancelled.                                                          *)
RowFields == {"validity", "entries", "facts", "charge", "used"}

RowTrue(row, f, k, whole) ==
    row # None =>
        /\ DOMAIN row = RowFields
        /\ row.validity \in Nat /\ row.validity < k
        /\ f # None /\ f.modified = row.validity =>
              /\ row.entries = f.content
              /\ row.charge = Entries[f.content]
              /\ whole => row.facts \in {f.content, Failed}

(* An archive b.at that is being read, f: what was read of it is true of   *)
(* it while it has its stamp, if it was settled when it was stamped.       *)
ReadTrue(b, step, f, whole) ==
    /\ step \in {"read", "facts", "encode"} => b.charge = Entries[f.content]
    /\ step \in {"facts", "encode"} => b.entries = f.content
    /\ step = "encode" /\ whole => b.facts \in {f.content, Failed}

Reading(b, step, files, n, k, whole) ==
    step \in InRead =>
        /\ b.at \in Artifacts /\ b.at \notin b.todo /\ b.at \notin b.reused
        /\ b.since <= n /\ n <= b.since + ReadTime
        /\ b.validity # None =>
              /\ b.validity \in Nat /\ b.validity <= k
              /\ b.artifacts[b.at] # None => b.artifacts[b.at] <= b.validity
              /\ files[b.at] # None => b.validity <= files[b.at].modified
              /\ /\ files[b.at] # None /\ files[b.at].modified = b.validity
                 /\ b.validity + Granularity <= b.since
                 => ReadTrue(b, step, files[b.at], whole)

(* The artifacts since they were stamped, and what was taken from a stored *)
(* record for one that has not changed since.                              *)
Indexing == InRead \cup {"scope", "next", "persist"}

Indexed(b, step, files, k) ==
    step \in Indexing => \A a \in Artifacts : b.artifacts[a] # None =>
        /\ b.artifacts[a] \in Nat /\ b.artifacts[a] <= k
        /\ files[a] # None => b.artifacts[a] <= files[a].modified
        /\ a \in b.reused =>
              /\ b.artifacts[a] < k
              /\ files[a] # None /\ files[a].modified <= b.artifacts[a]
                     => b.index[a] = files[a].content

(* What Maven has read of files that were settled when it started. *)
Resolving(s, b, step, files, n) ==
    /\ step \in {"resolve", "maven", "walk", "capture"} => b.inputs = None
    /\ step \in {"maven", "walk", "capture"} => b.started <= n
    /\ step = "maven" =>
          /\ b.seen = [f \in DOMAIN b.seen |-> b.seen[f]]
          /\ DOMAIN b.seen \subseteq Read
          /\ \A f \in DOMAIN b.seen :
                files[f] # None /\ files[f].modified + Granularity <= b.started
                    => b.seen[f] = files[f].content
    /\ step \in {"walk", "capture"} =>
          /\ b.classpath = Selection(s, b.classpath.seen)
          /\ b.classpath.seen = [f \in Read |-> b.classpath.seen[f]]
          /\ \A f \in Read :
                files[f] # None /\ files[f].modified + Granularity <= b.started
                    => /\ b.classpath.seen[f] = files[f].content
                       /\ step = "capture" /\ files[f].content \in Referencing => b.refs

Projected(b, step) ==
    /\ step # "idle" =>
          /\ DOMAIN b.project = Reactor
          /\ \A f \in Reactor : b.project[f] # None => b.project[f] \in Nat
    /\ step \notin InRead \cup {"next", "persist"} => b.reused = {}

(* A classpath with the stamps of the files it was resolved from: a stamp  *)
(* is not given any more, and a file that has it is what Maven read.       *)
Environment(inputs, classpath) ==
    IF \E f \in Read : classpath.seen[f] \in Referencing
    THEN inputs.refs => classpath.environment = inputs.environment
    ELSE classpath.environment = None

Selects(project, inputs, classpath, files, k, c) ==
    /\ classpath = [seen |-> classpath.seen, context |-> c,
                    environment |-> classpath.environment]
    /\ classpath.seen = [f \in Read |-> classpath.seen[f]]
    /\ Environment(inputs, classpath)
    /\ \A f \in Read :
          LET v == IF f \in Reactor THEN project[f] ELSE inputs.stamps[f] IN
          v # None =>
              /\ v \in Nat /\ v < k
              /\ files[f] # None /\ files[f].modified = v =>
                    /\ classpath.seen[f] = files[f].content
                    /\ files[f].content \in Referencing => inputs.refs

ServerInv(s, b, step, files, n, k, whole) ==
    /\ BuildOK(b)
    /\ Projected(b, step)
    /\ \A a \in Artifacts : RowTrue(b.fresh[a], files[a], k, whole)
    /\ Reading(b, step, files, n, k, whole)
    /\ Indexed(b, step, files, k)
    /\ Resolving(s, b, step, files, n)
    /\ b.inputs # None => Selects(b.project, b.inputs, b.classpath, files, k, Context[s])
    /\ step = "persist" => whole

RecordsInv(rows, files, k) == \A a \in Artifacts : RowTrue(rows[a], files[a], k, TRUE)

ManifestsInv(stored, files, k) ==
    \A c \in Contexts : stored[c] # None =>
        Selects(stored[c].project, stored[c].inputs, stored[c].classpath, files, k, c)

IInv ==
    /\ TimeOK(now, clock)
    /\ DOMAIN file = Files /\ \A f \in Files : FileOK(file[f], clock)
    /\ build = [s \in Servers |-> build[s]] /\ pc = [s \in Servers |-> pc[s]]
    /\ DOMAIN records = Artifacts /\ DOMAIN manifests = Contexts
    /\ RecordsInv(records, file, clock)
    /\ ManifestsInv(manifests, file, clock)
    /\ \A s \in Servers :
          ServerInv(s, build[s], pc[s], file, now, clock, s \notin cancelled)

-----------------------------------------------------------------------------
(* Steps of the clocks and of the user.  A file stays, goes, or is written *)
(* with the time of the file system's clock.                               *)
Later(f, g, k) == g = f \/ g = None \/ (g # None /\ g.modified = k)

LEMMA RowLater ==
    ASSUME NEW row, NEW f, NEW g, NEW k \in Nat, NEW l \in Nat, k <= l, NEW whole,
           RowTrue(row, f, k, whole), Later(f, g, k)
    PROVE  RowTrue(row, g, l, whole)
BY DEF RowTrue, Later

LEMMA SelectsLater ==
    ASSUME NEW project, NEW inputs, NEW classpath, NEW files, NEW later,
           NEW k \in Nat, NEW l \in Nat, k <= l, NEW c,
           \A f \in Read : Later(files[f], later[f], k),
           Selects(project, inputs, classpath, files, k, c)
    PROVE  Selects(project, inputs, classpath, later, l, c)
<1> DEFINE v(f) == IF f \in Reactor THEN project[f] ELSE inputs.stamps[f]
<1>1. ASSUME NEW f \in Read, v(f) # None
      PROVE  /\ v(f) \in Nat /\ v(f) < l
             /\ later[f] # None /\ later[f].modified = v(f) =>
                   /\ classpath.seen[f] = later[f].content
                   /\ later[f].content \in Referencing => inputs.refs
  <2>1. /\ v(f) \in Nat /\ v(f) < k
        /\ files[f] # None /\ files[f].modified = v(f) =>
              /\ classpath.seen[f] = files[f].content
              /\ files[f].content \in Referencing => inputs.refs
    BY <1>1 DEF Selects
  <2>2. Later(files[f], later[f], k)
    OBVIOUS
  <2> HIDE DEF v
  <2> QED
    BY <2>1, <2>2 DEF Later
<1> QED
  BY <1>1 DEF Selects

LEMMA ReadingLater ==
    ASSUME NEW b, NEW step, NEW files, NEW later, NEW n, NEW m, NEW k, NEW l, NEW whole,
           TimeOK(n, k), TimeOK(m, l), k <= l, n <= m, BuildOK(b),
           \A a \in Artifacts : Later(files[a], later[a], k) /\ FileOK(files[a], k),
           step \in InRead => m <= b.since + ReadTime,
           Reading(b, step, files, n, k, whole)
    PROVE  Reading(b, step, later, m, l, whole)
<1> SUFFICES ASSUME step \in InRead
             PROVE  Reading(b, step, later, m, l, whole)
  BY DEF Reading
<1> DEFINE f == files[b.at]
           g == later[b.at]
<1>1. /\ b.at \in Artifacts /\ b.at \notin b.todo /\ b.at \notin b.reused
      /\ b.since <= n
      /\ b.validity # None =>
            /\ b.validity \in Nat /\ b.validity <= k
            /\ b.artifacts[b.at] # None => b.artifacts[b.at] <= b.validity
            /\ f # None => b.validity <= f.modified
            /\ /\ f # None /\ f.modified = b.validity
               /\ b.validity + Granularity <= b.since
               => ReadTrue(b, step, f, whole)
  BY DEF Reading
<1>2. Later(f, g, k)
  BY <1>1
<1>3. /\ n \in Nat /\ m \in Nat /\ k \in Nat /\ l \in Nat /\ Granularity \in Nat
      /\ n < k + Granularity /\ b.since \in Nat
  BY TimeAssumption DEF TimeOK, BuildOK
<1> HIDE DEF f, g
<1>4. ASSUME b.validity # None, g # None
      PROVE  /\ b.validity <= g.modified
             /\ g.modified = b.validity /\ b.validity + Granularity <= b.since => g = f
  BY <1>1, <1>2, <1>3, <1>4 DEF Later
<1>5. b.validity # None =>
            /\ b.validity \in Nat /\ b.validity <= l
            /\ b.artifacts[b.at] # None => b.artifacts[b.at] <= b.validity
            /\ g # None => b.validity <= g.modified
            /\ /\ g # None /\ g.modified = b.validity
               /\ b.validity + Granularity <= b.since
               => ReadTrue(b, step, g, whole)
  BY <1>1, <1>3, <1>4
<1>6. b.since <= m
  BY <1>1, <1>3
<1> QED
  BY <1>1, <1>5, <1>6 DEF Reading, g

LEMMA IndexedLater ==
    ASSUME NEW b, NEW step, NEW files, NEW later, NEW k \in Nat, NEW l \in Nat, k <= l,
           \A a \in Artifacts : Later(files[a], later[a], k), Indexed(b, step, files, k)
    PROVE  Indexed(b, step, later, l)
<1> SUFFICES ASSUME step \in Indexing, NEW a \in Artifacts, b.artifacts[a] # None
             PROVE  /\ b.artifacts[a] \in Nat /\ b.artifacts[a] <= l
                    /\ later[a] # None => b.artifacts[a] <= later[a].modified
                    /\ a \in b.reused =>
                          /\ b.artifacts[a] < l
                          /\ later[a] # None /\ later[a].modified <= b.artifacts[a]
                                 => b.index[a] = later[a].content
  BY DEF Indexed
<1>1. /\ b.artifacts[a] \in Nat /\ b.artifacts[a] <= k
      /\ files[a] # None => b.artifacts[a] <= files[a].modified
      /\ a \in b.reused =>
            /\ b.artifacts[a] < k
            /\ files[a] # None /\ files[a].modified <= b.artifacts[a]
                   => b.index[a] = files[a].content
  BY DEF Indexed
<1>2. Later(files[a], later[a], k)
  OBVIOUS
<1> QED
  BY <1>1, <1>2 DEF Later

LEMMA ResolvingLater ==
    ASSUME NEW s, NEW b, NEW step, NEW files, NEW later, NEW n, NEW m, NEW k,
           TimeOK(n, k), m \in Nat, n <= m, BuildOK(b),
           \A f \in Read : Later(files[f], later[f], k), Resolving(s, b, step, files, n)
    PROVE  Resolving(s, b, step, later, m)
<1>1. /\ n \in Nat /\ m \in Nat /\ k \in Nat /\ Granularity \in Nat
      /\ n < k + Granularity /\ b.started \in Nat
  BY TimeAssumption DEF TimeOK, BuildOK
<1>2. step \in {"maven", "walk", "capture"} => b.started <= n
  BY DEF Resolving
<1>3. ASSUME NEW f \in Read, step \in {"maven", "walk", "capture"},
             later[f] # None, later[f].modified + Granularity <= b.started
      PROVE  later[f] = files[f]
  <2>1. Later(files[f], later[f], k)
    OBVIOUS
  <2> QED
    BY <1>1, <1>2, <1>3, <2>1 DEF Later
<1>4. step = "maven" =>
          /\ b.seen = [f \in DOMAIN b.seen |-> b.seen[f]]
          /\ DOMAIN b.seen \subseteq Read
          /\ \A f \in DOMAIN b.seen :
                later[f] # None /\ later[f].modified + Granularity <= b.started
                    => b.seen[f] = later[f].content
  BY <1>3 DEF Resolving
<1>5. step \in {"walk", "capture"} =>
          /\ b.classpath = Selection(s, b.classpath.seen)
          /\ b.classpath.seen = [f \in Read |-> b.classpath.seen[f]]
  BY DEF Resolving
<1>6. step \in {"walk", "capture"} =>
          \A f \in Read :
             later[f] # None /\ later[f].modified + Granularity <= b.started
                => /\ b.classpath.seen[f] = later[f].content
                   /\ step = "capture" /\ later[f].content \in Referencing => b.refs
  BY <1>3 DEF Resolving
<1>7. /\ step \in {"resolve", "maven", "walk", "capture"} => b.inputs = None
      /\ step \in {"maven", "walk", "capture"} => b.started <= m
  BY <1>1, <1>2 DEF Resolving
<1> QED
  BY <1>4, <1>5, <1>6, <1>7 DEF Resolving

LEMMA DiskStep ==
    ASSUME IInv, UNCHANGED <<store, build, pc, cancelled>>, TimeOK(now', clock'),
           clock <= clock', now <= now', DOMAIN file' = Files,
           \A f \in Files : Later(file[f], file'[f], clock) /\ FileOK(file'[f], clock'),
           \A s \in Servers : pc[s] \in InRead => now' <= build[s].since + ReadTime
    PROVE  IInv'
<1>1. now \in Nat /\ clock \in Nat /\ now' \in Nat /\ clock' \in Nat /\ TimeOK(now, clock)
  BY DEF IInv, TimeOK
<1>2. /\ \A f \in Read : Later(file[f], file'[f], clock)
      /\ \A a \in Artifacts : Later(file[a], file'[a], clock) /\ FileOK(file[a], clock)
  BY DEF IInv, Files, Read
<1>3. RecordsInv(records, file', clock')
  <2> SUFFICES ASSUME NEW a \in Artifacts
               PROVE  RowTrue(records[a], file'[a], clock', TRUE)
    BY DEF RecordsInv
  <2>1. RowTrue(records[a], file[a], clock, TRUE)
    BY DEF IInv, RecordsInv
  <2> QED
    BY <1>1, <1>2, <2>1, RowLater
<1>4. ManifestsInv(manifests, file', clock')
  <2> SUFFICES ASSUME NEW c \in Contexts, manifests[c] # None
               PROVE  Selects(manifests[c].project, manifests[c].inputs,
                              manifests[c].classpath, file', clock', c)
    BY DEF ManifestsInv
  <2>1. Selects(manifests[c].project, manifests[c].inputs, manifests[c].classpath,
                file, clock, c)
    BY DEF IInv, ManifestsInv
  <2> QED
    BY <1>1, <1>2, <2>1, SelectsLater
<1>5. ASSUME NEW s \in Servers
      PROVE  ServerInv(s, build[s], pc[s], file', now', clock', s \notin cancelled)
  <2> DEFINE b == build[s]
             step == pc[s]
             whole == s \notin cancelled
  <2>1. ServerInv(s, b, step, file, now, clock, whole)
    BY DEF IInv
  <2>2. step \in InRead => now' <= b.since + ReadTime
    OBVIOUS
  <2> HIDE DEF b, step, whole
  <2>3. \A a \in Artifacts : RowTrue(b.fresh[a], file'[a], clock', whole)
    <3> SUFFICES ASSUME NEW a \in Artifacts
                 PROVE  RowTrue(b.fresh[a], file'[a], clock', whole)
      OBVIOUS
    <3>1. RowTrue(b.fresh[a], file[a], clock, whole)
      BY <2>1 DEF ServerInv
    <3> QED
      BY <1>1, <1>2, <3>1, RowLater
  <2>4. Reading(b, step, file', now', clock', whole)
    <3>1. BuildOK(b) /\ Reading(b, step, file, now, clock, whole)
      BY <2>1 DEF ServerInv
    <3> QED
      BY <1>1, <1>2, <2>2, <3>1, ReadingLater
  <2>5. Indexed(b, step, file', clock')
    BY <1>1, <1>2, <2>1, IndexedLater DEF ServerInv
  <2>6. Resolving(s, b, step, file', now')
    BY <1>1, <1>2, <2>1, ResolvingLater DEF ServerInv
  <2>7. b.inputs # None =>
           Selects(b.project, b.inputs, b.classpath, file', clock', Context[s])
    BY <1>1, <1>2, <2>1, SelectsLater DEF ServerInv
  <2>8. BuildOK(b) /\ Projected(b, step) /\ (step = "persist" => whole)
    BY <2>1 DEF ServerInv
  <2>9. ServerInv(s, b, step, file', now', clock', whole)
    BY <2>3, <2>4, <2>5, <2>6, <2>7, <2>8 DEF ServerInv
  <2> QED
    BY <2>9 DEF b, step, whole
<1> QED
  BY <1>3, <1>4, <1>5 DEF IInv, store

LEMMA WorldSteps ==
    ASSUME IInv, Tick \/ \E f \in Files : Edit(f) \/ Delete(f)
    PROVE  IInv'
<1>1. /\ TimeOK(now, clock) /\ DOMAIN file = Files /\ Granularity \in Nat
      /\ \A f \in Files : FileOK(file[f], clock)
      /\ now \in Nat /\ clock \in Nat
  BY TimeAssumption DEF IInv, TimeOK
<1>2. ASSUME NEW s \in Servers, pc[s] \in InRead
      PROVE  now <= build[s].since + ReadTime /\ build[s].since \in Nat
  BY <1>2 DEF IInv, ServerInv, Reading, BuildOK
<1>3. CASE Tick
  <2>1. /\ UNCHANGED <<store, build, pc, cancelled>> /\ file' = file
        /\ now' = now + 1 /\ clock' \in {clock, now + 1} /\ now + 1 < clock' + Granularity
    BY <1>3 DEF Tick
  <2>2. TimeOK(now', clock') /\ clock <= clock' /\ now <= now'
    <3>1. clock' = clock \/ clock' = now + 1
      BY <2>1
    <3>2. now \in Nat /\ clock \in Nat /\ Granularity \in Nat /\ clock <= now
      BY <1>1 DEF TimeOK
    <3>3. now' \in Nat /\ clock' \in Nat
      BY <2>1, <3>1, <3>2
    <3>4. clock' <= now' /\ clock <= clock' /\ now <= now'
      BY <2>1, <3>1, <3>2
    <3>5. now' < clock' + Granularity
      BY <2>1
    <3> QED
      BY <3>3, <3>4, <3>5 DEF TimeOK
  <2>3. \A f \in Files : Later(file[f], file'[f], clock) /\ FileOK(file'[f], clock')
    BY <1>1, <2>1, <2>2 DEF Later, FileOK, TimeOK
  <2>4. \A s \in Servers : pc[s] \in InRead => now' <= build[s].since + ReadTime
    BY <1>1, <1>2, <1>3, <2>1, TimeAssumption DEF Tick
  <2> QED
    BY <1>1, <2>1, <2>2, <2>3, <2>4, DiskStep
<1>4. ASSUME NEW f \in Files, Edit(f) \/ Delete(f)
      PROVE  IInv'
  <2>1. /\ UNCHANGED <<store, build, pc, cancelled>> /\ now' = now /\ clock' = clock
        /\ \E g : file' = [file EXCEPT ![f] = g] /\ (g = None \/ g.modified = clock)
    BY <1>4 DEF Edit, Delete
  <2>2. /\ DOMAIN file' = Files
        /\ \A g \in Files : Later(file[g], file'[g], clock) /\ FileOK(file'[g], clock')
    BY <1>1, <2>1 DEF Later, FileOK
  <2> QED
    BY <1>1, <1>2, <2>1, <2>2, DiskStep
<1> QED
  BY <1>3, <1>4

-----------------------------------------------------------------------------
(* Steps of a server *)
LEMMA ServerStep ==
    ASSUME IInv, NEW s \in Servers, UNCHANGED disk, NEW b, NEW step,
           build' = [build EXCEPT ![s] = b], pc' = [pc EXCEPT ![s] = step],
           cancelled' \ {s} = cancelled \ {s},
           DOMAIN records' = Artifacts, DOMAIN manifests' = Contexts,
           RecordsInv(records', file, clock), ManifestsInv(manifests', file, clock),
           ServerInv(s, b, step, file, now, clock, s \notin cancelled')
    PROVE  IInv'
<1>1. ASSUME NEW t \in Servers
      PROVE  ServerInv(t, build'[t], pc'[t], file, now, clock, t \notin cancelled')
  <2>1. CASE t = s
    BY <2>1 DEF IInv
  <2>2. CASE t # s
    <3>1. build'[t] = build[t] /\ pc'[t] = pc[t] /\ (t \in cancelled' <=> t \in cancelled)
      BY <2>2 DEF IInv
    <3>2. ServerInv(t, build[t], pc[t], file, now, clock, t \notin cancelled)
      BY DEF IInv
    <3>3. (t \notin cancelled') = (t \notin cancelled)
      BY <3>1
    <3> QED
      BY <3>1, <3>2, <3>3
  <2> QED
    BY <2>1, <2>2
<1>2. /\ build' = [t \in Servers |-> build'[t]] /\ pc' = [t \in Servers |-> pc'[t]]
      /\ UNCHANGED <<now, clock, file>>
  BY DEF IInv, disk
<1> QED
  BY <1>1, <1>2 DEF IInv

LEMMA IdleServer ==
    ASSUME NEW s \in Servers, NEW files, NEW n, NEW k, NEW whole
    PROVE  ServerInv(s, NoBuild, "idle", files, n, k, whole)
<1>1. BuildOK(NoBuild) /\ Projected(NoBuild, "idle")
  BY DEF BuildOK, NoBuild, BuildFields, Projected
<1>2. NoBuild.inputs = None /\ \A a \in Artifacts : NoBuild.fresh[a] = None
  BY DEF NoBuild
<1> QED
  BY <1>1, <1>2 DEF ServerInv, RowTrue, Reading, Indexed, Resolving, InRead, Indexing

LEMMA EndStep ==
    ASSUME IInv, NEW s \in Servers, UNCHANGED disk, End(s),
           DOMAIN records' = Artifacts, DOMAIN manifests' = Contexts,
           RecordsInv(records', file, clock), ManifestsInv(manifests', file, clock)
    PROVE  IInv'
<1>1. ServerInv(s, NoBuild, "idle", file, now, clock, s \notin cancelled')
  BY IdleServer
<1>2. build' = [build EXCEPT ![s] = NoBuild] /\ pc' = [pc EXCEPT ![s] = "idle"]
      /\ cancelled' \ {s} = cancelled \ {s}
  BY DEF End, Set, Goto
<1> QED
  BY <1>1, <1>2, ServerStep

LEMMA PlainStep ==
    ASSUME IInv, NEW s \in Servers, UNCHANGED <<disk, store>>, NEW b, NEW step,
           build' = [build EXCEPT ![s] = b], pc' = [pc EXCEPT ![s] = step],
           cancelled' \ {s} = cancelled \ {s},
           ServerInv(s, b, step, file, now, clock, s \notin cancelled')
    PROVE  IInv'
<1>1. /\ DOMAIN records' = Artifacts /\ DOMAIN manifests' = Contexts
      /\ RecordsInv(records', file, clock) /\ ManifestsInv(manifests', file, clock)
  BY DEF IInv, store
<1> QED
  BY <1>1, ServerStep

LEMMA EndsStep ==
    ASSUME IInv, NEW s \in Servers, UNCHANGED <<disk, store>>, End(s)
    PROVE  IInv'
<1>1. ServerInv(s, NoBuild, "idle", file, now, clock, s \notin cancelled')
  BY IdleServer
<1>2. build' = [build EXCEPT ![s] = NoBuild] /\ pc' = [pc EXCEPT ![s] = "idle"]
      /\ cancelled' \ {s} = cancelled \ {s}
  BY DEF End, Set, Goto
<1> QED
  BY <1>1, <1>2, PlainStep

(* A build that does not index yet. *)
Before == {"resolve", "maven", "walk", "capture", "stamp"}

LEMMA BeforeServer ==
    ASSUME NEW s, NEW b, NEW d, NEW step \in Before, NEW next \in Before,
           NEW files, NEW n, NEW k, NEW whole,
           ServerInv(s, b, step, files, n, k, whole), DOMAIN d = BuildFields,
           d.index = b.index, d.fresh = b.fresh, d.since = b.since, d.started \in Nat,
           d.todo = b.todo, d.reused = b.reused, d.project = b.project,
           Resolving(s, d, next, files, n),
           d.inputs # None => Selects(d.project, d.inputs, d.classpath, files, k, Context[s])
    PROVE  ServerInv(s, d, next, files, n, k, whole)
<1>1. BuildOK(d)
  BY DEF ServerInv, BuildOK
<1>2. next \notin Indexing /\ next # "persist" /\ step # "idle" /\ next \notin InRead
      /\ step \notin InRead \cup {"next", "persist"}
  BY DEF Before, Indexing, InRead
<1>3. Projected(b, step)
  BY DEF ServerInv
<1>4. Projected(d, next)
  BY <1>2, <1>3 DEF Projected
<1>5. Reading(d, next, files, n, k, whole) /\ Indexed(d, next, files, k)
  BY <1>2 DEF Reading, Indexed
<1>6. \A a \in Artifacts : RowTrue(d.fresh[a], files[a], k, whole)
  BY DEF ServerInv
<1> QED
  BY <1>1, <1>2, <1>4, <1>5, <1>6 DEF ServerInv

LEMMA StampFacts ==
    ASSUME IInv, NEW S \in SUBSET Files
    PROVE  /\ DOMAIN Stamps(S) = S
           /\ \A f \in S : /\ Stamps(S)[f] = StampOf(f)
                           /\ StampOf(f) # None =>
                                 /\ StampOf(f) \in Nat /\ StampOf(f) <= clock
                                 /\ file[f] # None /\ file[f].modified = StampOf(f)
BY DEF Stamps, StampOf, IInv, FileOK

LEMMA StartStep ==
    ASSUME IInv, NEW s \in Servers, NEW full \in BOOLEAN, Start(s, full)
    PROVE  IInv'
<1> DEFINE b == [NoBuild EXCEPT !.full = full, !.project = Stamps(Reactor)]
<1>1. /\ UNCHANGED disk /\ build' = [build EXCEPT ![s] = b]
      /\ pc' = [pc EXCEPT ![s] = "resolve"] /\ cancelled' = cancelled /\ records' = records
      /\ manifests' = manifests \/ manifests' = [c \in Contexts |-> None]
  BY DEF Start, Set, Goto
<1>2. /\ DOMAIN records' = Artifacts /\ DOMAIN manifests' = Contexts
      /\ RecordsInv(records', file, clock) /\ ManifestsInv(manifests', file, clock)
  BY <1>1 DEF IInv, ManifestsInv
<1>3. ServerInv(s, b, "resolve", file, now, clock, s \notin cancelled')
  <2>1. /\ DOMAIN b = BuildFields /\ b.project = Stamps(Reactor) /\ b.inputs = None
        /\ b.reused = {} /\ b.todo = {} /\ b.since = 0 /\ b.started = 0
        /\ DOMAIN b.fresh = Artifacts /\ DOMAIN b.index = Artifacts
        /\ \A a \in Artifacts : b.fresh[a] = None
    BY DEF NoBuild, BuildFields
  <2> HIDE DEF b
  <2>2. Reactor \in SUBSET Files
    BY DEF Files
  <2>3. Projected(b, "resolve")
    BY <2>1, <2>2, StampFacts DEF Projected
  <2>4. BuildOK(b)
    BY <2>1 DEF BuildOK
  <2> QED
    BY <2>1, <2>3, <2>4 DEF ServerInv, RowTrue, Reading, Indexed, Resolving, InRead, Indexing
<1> HIDE DEF b
<1> QED
  BY <1>1, <1>2, <1>3, ServerStep

(* A stored classpath is taken over with the stamps it was stored with. *)
LEMMA ReuseStep ==
    ASSUME IInv, NEW s \in Servers, ReuseClasspath(s)
    PROVE  IInv'
<1> DEFINE m == manifests[Context[s]]
           b == build[s]
           d == [b EXCEPT !.classpath = m.classpath, !.inputs = m.inputs]
<1>1. /\ pc[s] = "resolve" /\ m # None /\ m.project = b.project
      /\ build' = [build EXCEPT ![s] = d] /\ pc' = [pc EXCEPT ![s] = "stamp"]
      /\ cancelled' = cancelled /\ UNCHANGED <<disk, store>>
  BY DEF ReuseClasspath, ReusableClasspath, Set, Goto
<1>2. ServerInv(s, b, "resolve", file, now, clock, s \notin cancelled)
  BY <1>1 DEF IInv
<1>3. Selects(m.project, m.inputs, m.classpath, file, clock, Context[s])
  BY <1>1 DEF IInv, ManifestsInv, Contexts
<1>4. DOMAIN b = BuildFields /\ b.started \in Nat
  BY <1>2 DEF ServerInv, BuildOK
<1> HIDE DEF b, m
<1>5. /\ DOMAIN d = BuildFields /\ d.classpath = m.classpath /\ d.inputs = m.inputs
      /\ d.index = b.index /\ d.fresh = b.fresh /\ d.since = b.since
      /\ d.started = b.started /\ d.todo = b.todo /\ d.reused = b.reused
      /\ d.project = b.project
  BY <1>4 DEF BuildFields
<1> HIDE DEF d
<1>6. Resolving(s, d, "stamp", file, now) /\ "resolve" \in Before /\ "stamp" \in Before
  BY DEF Resolving, Before
<1>7. d.inputs # None =>
         Selects(d.project, d.inputs, d.classpath, file, clock, Context[s])
  BY <1>1, <1>3, <1>5
<1>8. ServerInv(s, d, "stamp", file, now, clock, s \notin cancelled)
  BY <1>2, <1>4, <1>5, <1>6, <1>7, BeforeServer
<1> QED
  BY <1>1, <1>8, PlainStep

LEMMA StartMavenStep ==
    ASSUME IInv, NEW s \in Servers, StartMaven(s)
    PROVE  IInv'
<1> DEFINE b == build[s]
           d == [b EXCEPT !.started = now, !.seen = [f \in {} |-> 0]]
<1>1. /\ pc[s] = "resolve" /\ build' = [build EXCEPT ![s] = d]
      /\ pc' = [pc EXCEPT ![s] = "maven"] /\ cancelled' = cancelled
      /\ UNCHANGED <<disk, store>>
  BY DEF StartMaven, Set, Goto
<1>2. ServerInv(s, b, "resolve", file, now, clock, s \notin cancelled) /\ now \in Nat
  BY <1>1 DEF IInv, TimeOK
<1>3. DOMAIN b = BuildFields /\ b.inputs = None
  BY <1>2 DEF ServerInv, BuildOK, Resolving
<1> HIDE DEF b
<1>4. /\ DOMAIN d = BuildFields /\ d.started = now /\ d.inputs = b.inputs
      /\ d.index = b.index /\ d.fresh = b.fresh /\ d.since = b.since
      /\ d.todo = b.todo /\ d.reused = b.reused /\ d.project = b.project
      /\ d.seen = [f \in {} |-> 0]
  BY <1>3 DEF BuildFields
<1> HIDE DEF d
<1>5. DOMAIN d.seen = {} /\ d.seen = [f \in DOMAIN d.seen |-> d.seen[f]]
  BY <1>4
<1>6. Resolving(s, d, "maven", file, now) /\ "resolve" \in Before /\ "maven" \in Before
  BY <1>2, <1>3, <1>4, <1>5 DEF Resolving, Before
<1>7. ServerInv(s, d, "maven", file, now, clock, s \notin cancelled)
  BY <1>2, <1>3, <1>4, <1>6, BeforeServer
<1> QED
  BY <1>1, <1>7, PlainStep

LEMMA MavenReadsStep ==
    ASSUME IInv, NEW s \in Servers, MavenReads(s)
    PROVE  IInv'
<1> DEFINE b == build[s]
<1>1. PICK f \in Read \ DOMAIN b.seen :
         build' = [build EXCEPT ![s] =
            [b EXCEPT !.seen = [g \in DOMAIN b.seen \cup {f} |->
                                   IF g = f THEN ContentOf(f) ELSE b.seen[g]]]]
  BY DEF MavenReads, Set
<1> DEFINE seen == [g \in DOMAIN b.seen \cup {f} |->
                       IF g = f THEN ContentOf(f) ELSE b.seen[g]]
           d == [b EXCEPT !.seen = seen]
<1>2. /\ pc[s] = "maven" /\ build' = [build EXCEPT ![s] = d]
      /\ pc' = [pc EXCEPT ![s] = "maven"] /\ cancelled' = cancelled
      /\ UNCHANGED <<disk, store>>
  BY <1>1 DEF MavenReads, IInv
<1>3. ServerInv(s, b, "maven", file, now, clock, s \notin cancelled)
  BY <1>2 DEF IInv
<1>4. DOMAIN b = BuildFields /\ b.started \in Nat /\ Resolving(s, b, "maven", file, now)
  BY <1>3 DEF ServerInv, BuildOK
<1> HIDE DEF b
<1>5. /\ DOMAIN d = BuildFields /\ d.started = b.started /\ d.inputs = b.inputs
      /\ d.index = b.index /\ d.fresh = b.fresh /\ d.since = b.since
      /\ d.todo = b.todo /\ d.reused = b.reused /\ d.project = b.project
      /\ d.seen = seen
  BY <1>4 DEF BuildFields
<1> HIDE DEF d
<1>6. /\ b.inputs = None /\ b.started <= now /\ DOMAIN b.seen \subseteq Read
      /\ \A g \in DOMAIN b.seen :
            file[g] # None /\ file[g].modified + Granularity <= b.started
               => b.seen[g] = file[g].content
  BY <1>4 DEF Resolving
<1>7. /\ DOMAIN seen \subseteq Read /\ seen = [g \in DOMAIN seen |-> seen[g]]
      /\ \A g \in DOMAIN seen :
            file[g] # None /\ file[g].modified + Granularity <= b.started
               => seen[g] = file[g].content
  BY <1>6 DEF ContentOf
<1> HIDE DEF seen
<1>8. Resolving(s, d, "maven", file, now) /\ "maven" \in Before
  BY <1>5, <1>6, <1>7 DEF Resolving, Before
<1>9. d.inputs = None
  BY <1>5, <1>6
<1>10. ServerInv(s, d, "maven", file, now, clock, s \notin cancelled)
  BY <1>3, <1>4, <1>5, <1>8, <1>9, BeforeServer
<1> QED
  BY <1>2, <1>10, PlainStep

LEMMA MavenEndsStep ==
    ASSUME IInv, NEW s \in Servers, MavenEnds(s)
    PROVE  IInv'
<1> DEFINE b == build[s]
           d == [b EXCEPT !.classpath = Selection(s, b.seen), !.seen = None]
<1>1. /\ pc[s] = "maven" /\ DOMAIN b.seen = Read /\ build' = [build EXCEPT ![s] = d]
      /\ pc' = [pc EXCEPT ![s] = "walk"] /\ cancelled' = cancelled
      /\ UNCHANGED <<disk, store>>
  BY DEF MavenEnds, Set, Goto
<1>2. ServerInv(s, b, "maven", file, now, clock, s \notin cancelled)
  BY <1>1 DEF IInv
<1>3. DOMAIN b = BuildFields /\ b.started \in Nat /\ Resolving(s, b, "maven", file, now)
  BY <1>2 DEF ServerInv, BuildOK
<1> HIDE DEF b
<1>4. /\ DOMAIN d = BuildFields /\ d.started = b.started /\ d.inputs = b.inputs
      /\ d.index = b.index /\ d.fresh = b.fresh /\ d.since = b.since
      /\ d.todo = b.todo /\ d.reused = b.reused /\ d.project = b.project
      /\ d.classpath = Selection(s, b.seen)
  BY <1>3 DEF BuildFields
<1> HIDE DEF d
<1>5. /\ b.inputs = None /\ b.started <= now /\ b.seen = [f \in Read |-> b.seen[f]]
      /\ \A f \in Read :
            file[f] # None /\ file[f].modified + Granularity <= b.started
               => b.seen[f] = file[f].content
  BY <1>1, <1>3 DEF Resolving
<1>6. d.classpath.seen = b.seen
  BY <1>4 DEF Selection
<1>7. Resolving(s, d, "walk", file, now) /\ "maven" \in Before /\ "walk" \in Before
  BY <1>4, <1>5, <1>6 DEF Resolving, Before
<1>8. d.inputs = None
  BY <1>4, <1>5
<1>9. ServerInv(s, d, "walk", file, now, clock, s \notin cancelled)
  BY <1>2, <1>3, <1>4, <1>7, <1>8, BeforeServer
<1> QED
  BY <1>1, <1>9, PlainStep

LEMMA WalkStep ==
    ASSUME IInv, NEW s \in Servers, WalkModel(s)
    PROVE  IInv'
<1> DEFINE b == build[s]
           walked == \E f \in Read : ContentOf(f) \in Referencing
<1>1. /\ pc[s] = "walk" /\ cancelled' = cancelled /\ UNCHANGED <<disk, store>>
      /\ "walk" \in Before /\ "stamp" \in Before /\ "capture" \in Before
  BY DEF WalkModel, Before
<1>2. ServerInv(s, b, "walk", file, now, clock, s \notin cancelled)
  BY <1>1 DEF IInv
<1>3. DOMAIN b = BuildFields /\ b.started \in Nat /\ Resolving(s, b, "walk", file, now)
  BY <1>2 DEF ServerInv, BuildOK
<1>4. ASSUME build' = [build EXCEPT ![s] = [b EXCEPT !.inputs = None]],
             pc' = [pc EXCEPT ![s] = "stamp"]
      PROVE  IInv'
  <2> DEFINE d == [b EXCEPT !.inputs = None]
  <2> HIDE DEF b
  <2>1. /\ DOMAIN d = BuildFields /\ d.started = b.started /\ d.inputs = None
        /\ d.index = b.index /\ d.fresh = b.fresh /\ d.since = b.since
        /\ d.todo = b.todo /\ d.reused = b.reused /\ d.project = b.project
    BY <1>3 DEF BuildFields
  <2>2. build' = [build EXCEPT ![s] = d]
    BY <1>4 DEF b
  <2> HIDE DEF d
  <2>3. Resolving(s, d, "stamp", file, now)
    BY DEF Resolving
  <2>4. ServerInv(s, d, "stamp", file, now, clock, s \notin cancelled)
    BY <1>1, <1>2, <1>3, <2>1, <2>3, BeforeServer
  <2> QED
    BY <1>1, <1>4, <2>2, <2>4, PlainStep
<1>5. ASSUME build' = [build EXCEPT ![s] = [b EXCEPT !.refs = walked]],
             pc' = [pc EXCEPT ![s] = "capture"]
      PROVE  IInv'
  <2> DEFINE d == [b EXCEPT !.refs = walked]
  <2> HIDE DEF b
  <2>1. /\ DOMAIN d = BuildFields /\ d.started = b.started /\ d.inputs = b.inputs
        /\ d.index = b.index /\ d.fresh = b.fresh /\ d.since = b.since
        /\ d.todo = b.todo /\ d.reused = b.reused /\ d.project = b.project
        /\ d.classpath = b.classpath
    <3> HIDE DEF walked
    <3> QED
      BY <1>3 DEF BuildFields
  <2>2. \A f \in Read : file[f] # None /\ file[f].content \in Referencing => d.refs
    BY <1>3 DEF BuildFields, ContentOf
  <2>3. build' = [build EXCEPT ![s] = d]
    BY <1>5 DEF b
  <2> HIDE DEF d
  <2>4. Resolving(s, d, "capture", file, now)
    BY <1>3, <2>1, <2>2 DEF Resolving
  <2>5. d.inputs = None
    BY <1>3, <2>1 DEF Resolving
  <2>6. ServerInv(s, d, "capture", file, now, clock, s \notin cancelled)
    BY <1>1, <1>2, <1>3, <2>1, <2>4, <2>5, BeforeServer
  <2> QED
    BY <1>1, <1>5, <2>3, <2>6, PlainStep
<1> HIDE DEF walked
<1> QED
  BY <1>4, <1>5 DEF WalkModel, Set, Goto, walked

(* Inputs that were settled when Maven started describe what it read. *)
LEMMA CaptureStep ==
    ASSUME IInv, NEW s \in Servers, CaptureInputs(s)
    PROVE  IInv'
<1> DEFINE b == build[s]
           stamps == Stamps(Inputs)
           inputs == [stamps |-> stamps, refs |-> b.refs,
                      environment |-> ReferencedDigest(s, b.refs)]
           kept == IF DescribesWhatMavenRead(s, stamps) THEN inputs ELSE None
           d == [b EXCEPT !.refs = FALSE, !.inputs = kept]
<1>1. /\ pc[s] = "capture" /\ build' = [build EXCEPT ![s] = d]
      /\ pc' = [pc EXCEPT ![s] = "stamp"] /\ cancelled' = cancelled
      /\ UNCHANGED <<disk, store>>
  BY DEF CaptureInputs, Set, Goto
<1>2. ServerInv(s, b, "capture", file, now, clock, s \notin cancelled)
  BY <1>1 DEF IInv
<1>3. /\ DOMAIN b = BuildFields /\ b.started \in Nat /\ Projected(b, "capture")
      /\ Resolving(s, b, "capture", file, now)
  BY <1>2 DEF ServerInv, BuildOK
<1>4. ASSUME DescribesWhatMavenRead(s, stamps)
      PROVE  Selects(b.project, inputs, b.classpath, file, clock, Context[s])
  <2> DEFINE cp == b.classpath
             seen == cp.seen
  <2>1. /\ b.started <= now /\ cp = Selection(s, seen) /\ seen = [f \in Read |-> seen[f]]
        /\ \A f \in Read :
              file[f] # None /\ file[f].modified + Granularity <= b.started
                 => /\ seen[f] = file[f].content
                    /\ file[f].content \in Referencing => b.refs
    BY <1>3 DEF Resolving
  <2>2. inputs.stamps = stamps /\ inputs.environment = ReferencedDigest(s, b.refs)
    OBVIOUS
  <2>3. inputs.refs <=> b.refs
    OBVIOUS
  <2>4. cp = [seen |-> seen, context |-> Context[s], environment |-> cp.environment]
    BY <2>1 DEF Selection
  <2>5. Environment(inputs, cp)
    <3> DEFINE reads == \E f \in Read : seen[f] \in Referencing
    <3>1. cp.environment = IF reads THEN Variable[s] ELSE None
      <4> HIDE DEF cp
      <4> QED
        BY <2>1 DEF Selection, ReferencedDigest
    <3>2. /\ reads => cp.environment = Variable[s]
          /\ ~reads => cp.environment = None
      <4> HIDE DEF reads
      <4> QED
        BY <3>1
    <3>3. b.refs => inputs.environment = Variable[s]
      BY <2>2 DEF ReferencedDigest
    <3> HIDE DEF inputs
    <3>4. /\ reads => (inputs.refs => cp.environment = inputs.environment)
          /\ ~reads => cp.environment = None
      <4> HIDE DEF reads
      <4> QED
        BY <2>3, <3>2, <3>3
    <3> QED
      BY <3>4 DEF Environment
  <2>6. ASSUME NEW f \in Read, NEW v,
               v = IF f \in Reactor THEN b.project[f] ELSE stamps[f], v # None
        PROVE  /\ v \in Nat /\ v < clock
               /\ file[f] # None /\ file[f].modified = v =>
                     /\ seen[f] = file[f].content
                     /\ file[f].content \in Referencing => b.refs
    <3>1. /\ DOMAIN b.project = Reactor /\ DOMAIN stamps = Inputs
          /\ \A g \in Reactor : b.project[g] # None => b.project[g] \in Nat
          /\ \A g \in Inputs : stamps[g] # None => stamps[g] \in Nat
      BY <1>3, StampFacts DEF Projected, Files
    <3>2. v \in Nat /\ v <= b.started - SettledAge
      <4>1. CASE f \in Reactor
        BY <1>4, <2>6, <3>1, <4>1 DEF DescribesWhatMavenRead, WasSettledAt
      <4>2. CASE f \notin Reactor
        BY <1>4, <2>6, <3>1, <4>2 DEF DescribesWhatMavenRead, WasSettledAt, Read
      <4> QED
        BY <4>1, <4>2
    <3>3. /\ now \in Nat /\ clock \in Nat /\ now < clock + Granularity
          /\ Granularity \in Nat /\ SettledAge \in Nat /\ Granularity <= SettledAge
      BY TimeAssumption, SettledAssumption DEF IInv, TimeOK
    <3>4. v + Granularity <= b.started /\ v < clock
      BY <1>3, <2>1, <3>2, <3>3
    <3> QED
      BY <2>1, <3>2, <3>4
  <2> HIDE DEF inputs, stamps
  <2> QED
    BY <2>1, <2>2, <2>3, <2>4, <2>5, <2>6 DEF Selects
<1>5. kept # None => Selects(b.project, kept, b.classpath, file, clock, Context[s])
  <2> HIDE DEF inputs, stamps
  <2> QED
    BY <1>4
<1> HIDE DEF b, kept
<1>6. /\ DOMAIN d = BuildFields /\ d.started = b.started /\ d.inputs = kept
      /\ d.index = b.index /\ d.fresh = b.fresh /\ d.since = b.since
      /\ d.todo = b.todo /\ d.reused = b.reused /\ d.project = b.project
      /\ d.classpath = b.classpath
  BY <1>3 DEF BuildFields
<1> HIDE DEF d
<1>7. Resolving(s, d, "stamp", file, now) /\ "capture" \in Before /\ "stamp" \in Before
  BY DEF Resolving, Before
<1>8. d.inputs # None =>
         Selects(d.project, d.inputs, d.classpath, file, clock, Context[s])
  BY <1>5, <1>6
<1>9. ServerInv(s, d, "stamp", file, now, clock, s \notin cancelled)
  BY <1>2, <1>3, <1>6, <1>7, <1>8, BeforeServer
<1> QED
  BY <1>1, <1>9, PlainStep

-----------------------------------------------------------------------------
(* A build that indexes: what it resolved stays as it is. *)
Onward == Indexing \cup {"stamp"}

LEMMA IndexingServer ==
    ASSUME NEW s, NEW b, NEW d, NEW step \in Onward, NEW next \in Indexing,
           NEW files, NEW n, NEW k, NEW whole, NEW now_whole,
           ServerInv(s, b, step, files, n, k, whole), DOMAIN d = BuildFields,
           d.project = b.project, d.inputs = b.inputs, d.classpath = b.classpath,
           d.started = b.started, d.since \in Nat, DOMAIN d.index = Artifacts,
           DOMAIN d.fresh = Artifacts, d.todo \subseteq Artifacts,
           d.reused \subseteq Artifacts, d.todo \cap d.reused = {},
           next = "scope" => d.reused = {},
           \A a \in Artifacts : RowTrue(d.fresh[a], files[a], k, now_whole),
           Reading(d, next, files, n, k, now_whole), Indexed(d, next, files, k),
           next = "persist" => now_whole
    PROVE  ServerInv(s, d, next, files, n, k, now_whole)
<1>1. BuildOK(d)
  BY DEF ServerInv, BuildOK
<1>2. step # "idle" /\ next # "idle" /\ next \in InRead \cup {"scope", "next", "persist"}
      /\ next \notin {"resolve", "maven", "walk", "capture"}
  BY DEF Onward, Indexing, InRead
<1>3. Projected(b, step)
  BY DEF ServerInv
<1>4. Projected(d, next)
  BY <1>2, <1>3 DEF Projected
<1>5. Resolving(s, d, next, files, n)
  BY <1>2 DEF Resolving
<1>6. d.inputs # None => Selects(d.project, d.inputs, d.classpath, files, k, Context[s])
  BY DEF ServerInv
<1> QED
  BY <1>1, <1>4, <1>5, <1>6 DEF ServerInv

LEMMA StampStep ==
    ASSUME IInv, NEW s \in Servers, StampArtifacts(s)
    PROVE  IInv'
<1> DEFINE b == build[s]
           d == [b EXCEPT !.artifacts = Stamps(Artifacts)]
<1>1. /\ pc[s] = "stamp" /\ build' = [build EXCEPT ![s] = d]
      /\ pc' = [pc EXCEPT ![s] = "scope"] /\ cancelled' = cancelled
      /\ UNCHANGED <<disk, store>>
  BY DEF StampArtifacts, Set, Goto
<1>2. ServerInv(s, b, "stamp", file, now, clock, s \notin cancelled)
  BY <1>1 DEF IInv
<1>3. BuildOK(b) /\ b.reused = {}
      /\ \A a \in Artifacts : RowTrue(b.fresh[a], file[a], clock, s \notin cancelled)
  BY <1>2 DEF ServerInv, Projected, InRead
<1> HIDE DEF b
<1>4. /\ DOMAIN d = BuildFields /\ d.started = b.started /\ d.inputs = b.inputs
      /\ d.index = b.index /\ d.fresh = b.fresh /\ d.since = b.since
      /\ d.todo = b.todo /\ d.reused = b.reused /\ d.project = b.project
      /\ d.classpath = b.classpath /\ d.artifacts = Stamps(Artifacts)
  BY <1>3 DEF BuildOK, BuildFields
<1> HIDE DEF d
<1>5. Indexed(d, "scope", file, clock)
  <2>1. Artifacts \in SUBSET Files
    BY DEF Files
  <2> QED
    BY <1>3, <1>4, <2>1, StampFacts DEF Indexed, IInv, FileOK
<1>6. Reading(d, "scope", file, now, clock, s \notin cancelled)
  BY DEF Reading, InRead
<1>7. "stamp" \in Onward /\ "scope" \in Indexing
  BY DEF Onward, Indexing
<1>8. ServerInv(s, d, "scope", file, now, clock, s \notin cancelled)
  BY <1>2, <1>3, <1>4, <1>5, <1>6, <1>7, IndexingServer DEF BuildOK
<1> QED
  BY <1>1, <1>8, PlainStep

LEMMA ScopeStep ==
    ASSUME IInv, NEW s \in Servers, Scope(s)
    PROVE  IInv'
<1> DEFINE b == build[s]
           d == [b EXCEPT !.todo = Artifacts, !.budget = MaxIndexEntries]
<1>1. pc[s] = "scope" /\ UNCHANGED <<disk, store>>
  BY DEF Scope
<1>2. CASE End(s)
  BY <1>1, <1>2, EndsStep
<1>3. CASE /\ build' = [build EXCEPT ![s] = d] /\ pc' = [pc EXCEPT ![s] = "next"]
           /\ cancelled' = cancelled
  <2>1. ServerInv(s, b, "scope", file, now, clock, s \notin cancelled)
    BY <1>1 DEF IInv
  <2>2. /\ BuildOK(b) /\ b.reused = {} /\ Indexed(b, "scope", file, clock)
        /\ \A a \in Artifacts : RowTrue(b.fresh[a], file[a], clock, s \notin cancelled)
    BY <2>1 DEF ServerInv, Projected, InRead
  <2> HIDE DEF b
  <2>3. /\ DOMAIN d = BuildFields /\ d.started = b.started /\ d.inputs = b.inputs
        /\ d.index = b.index /\ d.fresh = b.fresh /\ d.since = b.since
        /\ d.todo = Artifacts /\ d.reused = b.reused /\ d.project = b.project
        /\ d.classpath = b.classpath /\ d.artifacts = b.artifacts
    BY <2>2 DEF BuildOK, BuildFields
  <2> HIDE DEF d
  <2>4. Indexed(d, "next", file, clock) /\ Reading(d, "next", file, now, clock, s \notin cancelled)
    BY <2>2, <2>3 DEF Indexed, Indexing, Reading, InRead
  <2>5. "scope" \in Onward /\ "next" \in Indexing
    BY DEF Onward, Indexing
  <2>6. ServerInv(s, d, "next", file, now, clock, s \notin cancelled)
    BY <2>1, <2>2, <2>3, <2>4, <2>5, IndexingServer DEF BuildOK
  <2> QED
    BY <1>1, <1>3, <2>6, PlainStep DEF b
<1> QED
  BY <1>2, <1>3 DEF Scope, Set, Goto

LEMMA CaptureValidityStep ==
    ASSUME IInv, NEW s \in Servers, CaptureValidity(s)
    PROVE  IInv'
<1> DEFINE b == build[s]
           whole == s \notin cancelled
<1>1. PICK a \in b.todo :
         Set(s, [b EXCEPT !.at = a, !.todo = @ \ {a},
                          !.validity = StampOf(a), !.since = now])
  BY Zenon DEF CaptureValidity
<1> DEFINE d == [b EXCEPT !.at = a, !.todo = @ \ {a}, !.validity = StampOf(a), !.since = now]
<1>2. /\ pc[s] = "next" /\ build' = [build EXCEPT ![s] = d]
      /\ pc' = [pc EXCEPT ![s] = "load"] /\ cancelled' = cancelled
      /\ UNCHANGED <<disk, store>>
  BY <1>1, Zenon DEF CaptureValidity, Goto, Set
<1>3. ServerInv(s, b, "next", file, now, clock, whole)
  BY <1>2 DEF IInv
<1>4. /\ BuildOK(b) /\ Indexed(b, "next", file, clock)
      /\ \A x \in Artifacts : RowTrue(b.fresh[x], file[x], clock, whole)
      /\ now \in Nat /\ clock \in Nat /\ ReadTime \in Nat
  BY <1>3, TimeAssumption DEF ServerInv, IInv, TimeOK
<1>5. a \in Artifacts /\ a \in Files /\ a \in b.todo
  BY <1>4 DEF BuildOK, Files
<1> HIDE DEF b, whole
<1>6. /\ DOMAIN d = BuildFields /\ d.started = b.started /\ d.inputs = b.inputs
      /\ d.index = b.index /\ d.fresh = b.fresh /\ d.since = now
      /\ d.todo = b.todo \ {a} /\ d.reused = b.reused /\ d.project = b.project
      /\ d.classpath = b.classpath /\ d.artifacts = b.artifacts /\ d.at = a
      /\ d.validity = StampOf(a)
  BY <1>4 DEF BuildOK, BuildFields
<1> HIDE DEF d
<1>7. Indexed(d, "load", file, clock)
  BY <1>4, <1>6 DEF Indexed, Indexing, InRead
<1>8. Reading(d, "load", file, now, clock, whole)
  <2>1. a \notin d.todo /\ a \notin d.reused
    BY <1>4, <1>5, <1>6 DEF BuildOK
  <2>2. StampOf(a) # None =>
           /\ StampOf(a) \in Nat /\ StampOf(a) <= clock
           /\ file[a] # None => StampOf(a) = file[a].modified
           /\ b.artifacts[a] # None => b.artifacts[a] <= StampOf(a)
    BY <1>4, <1>5 DEF IInv, FileOK, StampOf, Indexed, Indexing
  <2> QED
    BY <1>4, <1>5, <1>6, <2>1, <2>2 DEF Reading, ReadTrue
<1>9. "next" \in Onward /\ "load" \in Indexing
  BY DEF Onward, Indexing, InRead
<1>10. ServerInv(s, d, "load", file, now, clock, whole)
  BY <1>3, <1>4, <1>6, <1>7, <1>8, <1>9, IndexingServer DEF BuildOK
<1> QED
  BY <1>2, <1>10, PlainStep DEF whole

(* The build goes on with the same archive. *)
LEMMA ReadOn ==
    ASSUME IInv, NEW s \in Servers, pc[s] \in InRead, UNCHANGED <<disk, store>>,
           NEW d, NEW next \in InRead, build' = [build EXCEPT ![s] = d],
           pc' = [pc EXCEPT ![s] = next], cancelled' = cancelled,
           DOMAIN d = BuildFields,
           \A x \in {"project", "inputs", "classpath", "started", "since", "index", "fresh",
                     "todo", "reused", "artifacts", "at", "validity"} : d[x] = build[s][x],
           LET f == file[build[s].at]
           IN  f # None /\ f.modified = build[s].validity
                  /\ ReadTrue(build[s], pc[s], f, s \notin cancelled)
                  => ReadTrue(d, next, f, s \notin cancelled)
    PROVE  IInv'
<1> DEFINE b == build[s]
           step == pc[s]
           whole == s \notin cancelled
           f == file[b.at]
<1>1. ServerInv(s, b, step, file, now, clock, whole)
  BY DEF IInv
<1>2. /\ BuildOK(b) /\ Indexed(b, step, file, clock)
      /\ Reading(b, step, file, now, clock, whole)
      /\ \A x \in Artifacts : RowTrue(b.fresh[x], file[x], clock, whole)
  BY <1>1 DEF ServerInv
<1>3. /\ d.started = b.started /\ d.inputs = b.inputs /\ d.index = b.index
      /\ d.fresh = b.fresh /\ d.since = b.since /\ d.todo = b.todo
      /\ d.reused = b.reused /\ d.project = b.project /\ d.classpath = b.classpath
      /\ d.artifacts = b.artifacts /\ d.at = b.at /\ d.validity = b.validity
  OBVIOUS
<1>4. f # None /\ f.modified = b.validity /\ ReadTrue(b, step, f, whole)
         => ReadTrue(d, next, f, whole)
  OBVIOUS
<1>5. step \in Onward /\ step \in Indexing /\ next \in Indexing /\ next # "scope"
      /\ next # "persist" /\ step \in InRead
  BY DEF Onward, Indexing, InRead
<1> HIDE DEF b, step, whole
<1>6. Indexed(d, next, file, clock)
  BY <1>2, <1>3, <1>5 DEF Indexed
<1>7. Reading(d, next, file, now, clock, whole)
  BY <1>2, <1>3, <1>4, <1>5 DEF Reading
<1>8. ServerInv(s, d, next, file, now, clock, whole)
  BY <1>1, <1>2, <1>3, <1>5, <1>6, <1>7, IndexingServer DEF BuildOK
<1> QED
  BY <1>8, PlainStep DEF whole

(* The build goes on with the next archive. *)
LEMMA NextStep ==
    ASSUME IInv, NEW s \in Servers, pc[s] \in InRead, UNCHANGED <<disk, store>>,
           NEW c, NextArtifact(s, c), DOMAIN c = BuildFields,
           \A x \in {"project", "inputs", "classpath", "started", "todo", "artifacts"} :
              c[x] = build[s][x],
           DOMAIN c.index = Artifacts, DOMAIN c.fresh = Artifacts,
           c.reused \subseteq Artifacts, c.todo \cap c.reused = {},
           \A a \in Artifacts : RowTrue(c.fresh[a], file[a], clock, s \notin cancelled),
           Indexed(c, "next", file, clock)
    PROVE  IInv'
<1> DEFINE b == build[s]
           whole == s \notin cancelled
           d == [c EXCEPT !.at = None, !.validity = None, !.since = 0,
                          !.charge = 0, !.entries = None, !.facts = None]
<1>1. ServerInv(s, b, pc[s], file, now, clock, whole) /\ BuildOK(b)
  BY DEF IInv, ServerInv
<1>2. /\ build' = [build EXCEPT ![s] = d] /\ pc' = [pc EXCEPT ![s] = "next"]
      /\ cancelled' = cancelled
  BY DEF NextArtifact, Set, Goto
<1>3. /\ c.started = b.started /\ c.inputs = b.inputs /\ c.todo = b.todo
      /\ c.project = b.project /\ c.classpath = b.classpath
      /\ c.artifacts = b.artifacts
  OBVIOUS
<1> HIDE DEF b, whole
<1>4. /\ DOMAIN d = BuildFields /\ d.started = c.started /\ d.inputs = c.inputs
      /\ d.index = c.index /\ d.fresh = c.fresh /\ d.since = 0 /\ d.todo = c.todo
      /\ d.reused = c.reused /\ d.project = c.project /\ d.classpath = c.classpath
      /\ d.artifacts = c.artifacts
  BY DEF BuildFields
<1> HIDE DEF d
<1>5. "next" \in Indexing /\ pc[s] \in Onward /\ "next" \notin InRead
  BY DEF Indexing, Onward, InRead
<1>6. Indexed(d, "next", file, clock) /\ Reading(d, "next", file, now, clock, whole)
  BY <1>4, <1>5 DEF Indexed, Reading
<1>7. \A a \in Artifacts : RowTrue(d.fresh[a], file[a], clock, whole)
  BY <1>4 DEF whole
<1>8. ServerInv(s, d, "next", file, now, clock, whole)
  BY <1>1, <1>3, <1>4, <1>5, <1>6, <1>7, IndexingServer DEF BuildOK
<1> QED
  BY <1>2, <1>8, PlainStep DEF whole

(* A stored record is restored for the stamp it was stored with. *)
LEMMA RestoreStep ==
    ASSUME IInv, NEW s \in Servers, Restore(s)
    PROVE  IInv'
<1> DEFINE b == build[s]
           at == b.at
           row == records[at]
           whole == s \notin cancelled
           c == [b EXCEPT !.budget = @ - row.charge, !.index[at] = row.entries,
                          !.reused = @ \cup {at}]
<1>1. /\ pc[s] = "load" /\ UNCHANGED <<disk, store>>
      /\ row # None /\ b.validity # None /\ row.validity = b.validity
      /\ End(s) \/ NextArtifact(s, c)
  BY DEF Restore, Restorable
<1>2. CASE End(s)
  BY <1>1, <1>2, EndsStep
<1>3. CASE NextArtifact(s, c)
  <2>1. ServerInv(s, b, "load", file, now, clock, whole)
    BY <1>1 DEF IInv
  <2>2. /\ BuildOK(b) /\ Indexed(b, "load", file, clock)
        /\ Reading(b, "load", file, now, clock, whole)
        /\ \A x \in Artifacts : RowTrue(b.fresh[x], file[x], clock, whole)
    BY <2>1 DEF ServerInv
  <2>3. /\ at \in Artifacts /\ at \notin b.todo /\ at \notin b.reused
        /\ b.validity \in Nat
        /\ b.artifacts[at] # None => b.artifacts[at] <= b.validity
        /\ file[at] # None => b.validity <= file[at].modified
    BY <1>1, <2>2 DEF Reading, InRead
  <2>4. RowTrue(row, file[at], clock, TRUE) /\ FileOK(file[at], clock)
    BY <2>3 DEF IInv, RecordsInv, Files
  <2> HIDE DEF b, at, row, whole
  <2>5. /\ DOMAIN c = BuildFields /\ c.started = b.started /\ c.inputs = b.inputs
        /\ c.fresh = b.fresh /\ c.todo = b.todo /\ c.project = b.project
        /\ c.classpath = b.classpath /\ c.artifacts = b.artifacts
        /\ c.reused = b.reused \cup {at} /\ c.index = [b.index EXCEPT ![at] = row.entries]
    BY <2>2 DEF BuildOK, BuildFields
  <2>6. NextArtifact(s, c)
    BY <1>3
  <2> HIDE DEF c
  <2>7. Indexed(c, "next", file, clock)
    <3> SUFFICES ASSUME NEW a \in Artifacts, b.artifacts[a] # None
                 PROVE  /\ b.artifacts[a] \in Nat /\ b.artifacts[a] <= clock
                        /\ file[a] # None => b.artifacts[a] <= file[a].modified
                        /\ a \in c.reused =>
                              /\ b.artifacts[a] < clock
                              /\ file[a] # None /\ file[a].modified <= b.artifacts[a]
                                     => c.index[a] = file[a].content
      BY <2>5 DEF Indexed
    <3>1. /\ b.artifacts[a] \in Nat /\ b.artifacts[a] <= clock
          /\ file[a] # None => b.artifacts[a] <= file[a].modified
          /\ a \in b.reused =>
                /\ b.artifacts[a] < clock
                /\ file[a] # None /\ file[a].modified <= b.artifacts[a]
                       => b.index[a] = file[a].content
      BY <2>2 DEF Indexed, Indexing, InRead
    <3>2. CASE a # at
      <4>1. c.index[a] = b.index[a] /\ (a \in c.reused => a \in b.reused)
        BY <2>2, <2>5, <3>2 DEF BuildOK
      <4> QED
        BY <3>1, <4>1
    <3>3. CASE a = at
      <4>1. c.index[at] = row.entries
        BY <2>2, <2>3, <2>5 DEF BuildOK
      <4>2. /\ b.validity < clock /\ clock \in Nat
            /\ file[at] # None => file[at].modified \in Nat
            /\ file[at] # None /\ file[at].modified = b.validity
                   => row.entries = file[at].content
        BY <1>1, <2>4 DEF RowTrue, FileOK, IInv, TimeOK, row, b
      <4> QED
        BY <2>3, <3>1, <3>3, <4>1, <4>2
    <3> QED
      BY <3>2, <3>3
  <2>8. /\ \A x \in {"project", "inputs", "classpath", "started", "todo", "artifacts"} :
              c[x] = b[x]
        /\ DOMAIN c.index = Artifacts /\ DOMAIN c.fresh = Artifacts
        /\ c.reused \subseteq Artifacts /\ c.todo \cap c.reused = {}
        /\ \A a \in Artifacts : RowTrue(c.fresh[a], file[a], clock, whole)
    BY <2>2, <2>3, <2>5 DEF BuildOK
  <2>9. pc[s] \in InRead
    BY <1>1 DEF InRead
  <2> QED
    BY <1>1, <2>5, <2>6, <2>7, <2>8, <2>9, NextStep DEF b, whole
<1> QED
  BY <1>1, <1>2, <1>3

(* An archive that cannot be read is skipped. *)
LEMMA SkipStep ==
    ASSUME IInv, NEW s \in Servers, pc[s] \in InRead, UNCHANGED <<disk, store>>,
           NextArtifact(s, build[s])
    PROVE  IInv'
<1>1. /\ BuildOK(build[s]) /\ Indexed(build[s], pc[s], file, clock)
      /\ \A a \in Artifacts : RowTrue(build[s].fresh[a], file[a], clock, s \notin cancelled)
  BY DEF IInv, ServerInv
<1>2. Indexed(build[s], "next", file, clock)
  BY <1>1 DEF Indexed, Indexing
<1> QED
  BY <1>1, <1>2, NextStep DEF BuildOK

LEMMA ReadSteps ==
    ASSUME IInv, NEW s \in Servers,
           Miss(s) \/ Preflight(s) \/ ReadJarIndex(s) \/ CollectJarFacts(s)
    PROVE  IInv'
<1> DEFINE b == build[s]
           f == file[b.at]
           whole == s \notin cancelled
           kept == {"project", "inputs", "classpath", "started", "since", "index", "fresh",
                    "todo", "reused", "artifacts", "at", "validity"}
<1>1. /\ pc[s] \in {"load", "preflight", "read", "facts"} /\ pc[s] \in InRead
      /\ UNCHANGED <<disk, store>>
  BY DEF Miss, Preflight, ReadJarIndex, CollectJarFacts, InRead
<1>2. DOMAIN b = BuildFields
  BY DEF IInv, ServerInv, BuildOK
<1>3. {"preflight", "read", "facts", "encode"} \subseteq InRead
  BY DEF InRead
<1>4. CASE Miss(s)
  <2>1. /\ pc[s] = "load" /\ pc' = [pc EXCEPT ![s] = "preflight"] /\ cancelled' = cancelled
        /\ build' = [build EXCEPT ![s] = b]
    BY <1>4 DEF Miss, Goto, IInv
  <2>2. \A g, w : ReadTrue(b, "preflight", g, w)
    BY DEF ReadTrue
  <2> QED
    BY <1>1, <1>2, <1>3, <2>1, <2>2, ReadOn
<1>5. CASE Preflight(s)
  <2> DEFINE content == ContentOf(b.at)
             d == [b EXCEPT !.charge = Entries[content], !.budget = @ - Entries[content]]
  <2>1. \/ NextArtifact(s, b)
        \/ End(s)
        \/ /\ content # None /\ build' = [build EXCEPT ![s] = d]
           /\ pc' = [pc EXCEPT ![s] = "read"] /\ cancelled' = cancelled
    BY <1>5 DEF Preflight, Set, Goto
  <2>2. CASE /\ content # None /\ build' = [build EXCEPT ![s] = d]
             /\ pc' = [pc EXCEPT ![s] = "read"] /\ cancelled' = cancelled
    <3>1. f # None /\ content = f.content
      BY <2>2 DEF ContentOf
    <3>2. DOMAIN d = BuildFields /\ d.charge = Entries[content]
          /\ \A x \in kept : d[x] = b[x]
      <4> HIDE DEF content, b
      <4> QED
        BY <1>2 DEF BuildFields
    <3>3. ReadTrue(d, "read", f, whole)
      BY <3>1, <3>2 DEF ReadTrue
    <3> HIDE DEF d
    <3> QED
      BY <1>1, <1>3, <2>2, <3>2, <3>3, ReadOn
  <2> QED
    BY <1>1, <2>1, <2>2, SkipStep, EndsStep
<1>6. CASE ReadJarIndex(s)
  <2> DEFINE content == ContentOf(b.at)
             d == [b EXCEPT !.entries = content]
  <2>1. /\ pc[s] = "read"
        /\ \/ NextArtifact(s, b)
           \/ /\ content # None /\ build' = [build EXCEPT ![s] = d]
              /\ pc' = [pc EXCEPT ![s] = "facts"] /\ cancelled' = cancelled
    BY <1>6 DEF ReadJarIndex, Set, Goto
  <2>2. CASE /\ content # None /\ build' = [build EXCEPT ![s] = d]
             /\ pc' = [pc EXCEPT ![s] = "facts"] /\ cancelled' = cancelled
    <3>1. f # None /\ content = f.content
      BY <2>2 DEF ContentOf
    <3>2. DOMAIN d = BuildFields /\ d.charge = b.charge /\ d.entries = content
          /\ \A x \in kept : d[x] = b[x]
      <4> HIDE DEF content, b
      <4> QED
        BY <1>2 DEF BuildFields
    <3>3. ReadTrue(b, "read", f, whole) => ReadTrue(d, "facts", f, whole)
      BY <3>1, <3>2 DEF ReadTrue
    <3> HIDE DEF d
    <3> QED
      BY <1>1, <1>3, <2>1, <2>2, <3>2, <3>3, ReadOn
  <2> QED
    BY <1>1, <2>1, <2>2, SkipStep
<1>7. CASE CollectJarFacts(s)
  <2>1. pc[s] = "facts" /\ pc' = [pc EXCEPT ![s] = "encode"] /\ cancelled' = cancelled
    BY <1>7 DEF CollectJarFacts, Goto
  <2>2. PICK facts : /\ whole /\ f # None => facts \in {f.content, Failed}
                     /\ Set(s, [b EXCEPT !.facts = facts])
    BY <1>7 DEF CollectJarFacts, ContentOf
  <2> DEFINE d == [b EXCEPT !.facts = facts]
  <2>3. build' = [build EXCEPT ![s] = d]
    BY <2>2 DEF Set
  <2>4. DOMAIN d = BuildFields /\ d.charge = b.charge /\ d.entries = b.entries
        /\ d.facts = facts /\ \A x \in kept : d[x] = b[x]
    <3> HIDE DEF b
    <3> QED
      BY <1>2 DEF BuildFields
  <2> HIDE DEF d
  <2>5. f # None /\ ReadTrue(b, "facts", f, whole) => ReadTrue(d, "encode", f, whole)
    BY <2>2, <2>4 DEF ReadTrue
  <2> QED
    BY <1>1, <1>3, <2>1, <2>3, <2>4, <2>5, ReadOn
<1> QED
  BY <1>4, <1>5, <1>6, <1>7

(* A record whose stamp is settled when it is encoded was settled when the *)
(* archive was stamped, because reading took no longer than ReadTime.      *)
LEMMA EncodeStep ==
    ASSUME IInv, NEW s \in Servers, EncodeRecord(s)
    PROVE  IInv'
<1> DEFINE b == build[s]
           at == b.at
           f == file[at]
           whole == s \notin cancelled
           row == [validity |-> b.validity, entries |-> b.entries, facts |-> b.facts,
                   charge |-> b.charge, used |-> 0]
           new == IF Persistable(s) THEN row ELSE None
           c == [b EXCEPT !.index[at] = b.entries, !.fresh[at] = new]
<1>1. pc[s] = "encode" /\ UNCHANGED <<disk, store>> /\ NextArtifact(s, c)
  BY DEF EncodeRecord
<1>2. ServerInv(s, b, "encode", file, now, clock, whole)
  BY <1>1 DEF IInv
<1>3. /\ BuildOK(b) /\ Indexed(b, "encode", file, clock)
      /\ Reading(b, "encode", file, now, clock, whole)
      /\ \A x \in Artifacts : RowTrue(b.fresh[x], file[x], clock, whole)
  BY <1>2 DEF ServerInv
<1>4. /\ at \in Artifacts /\ at \notin b.todo /\ at \notin b.reused
      /\ now <= b.since + ReadTime /\ b.since \in Nat
      /\ b.validity # None =>
            /\ b.validity \in Nat
            /\ /\ f # None /\ f.modified = b.validity
               /\ b.validity + Granularity <= b.since
               => ReadTrue(b, "encode", f, whole)
  BY <1>3 DEF Reading, InRead, BuildOK
<1>5. RowTrue(new, f, clock, whole)
  <2>1. CASE Persistable(s)
    <3>1. /\ b.validity # None /\ b.validity \in Nat /\ b.validity <= now - SettledAge
      BY <1>4, <2>1 DEF Persistable
    <3>2. /\ now \in Nat /\ clock \in Nat /\ now < clock + Granularity
          /\ Granularity \in Nat /\ SettledAge \in Nat /\ ReadTime \in Nat
          /\ ReadTime + Granularity <= SettledAge
      BY TimeAssumption, SettledAssumption DEF IInv, TimeOK
    <3>3. b.validity < clock /\ b.validity + Granularity <= b.since
      BY <1>4, <3>1, <3>2
    <3>4. /\ DOMAIN row = RowFields /\ row.validity = b.validity
          /\ row.entries = b.entries /\ row.charge = b.charge /\ row.facts = b.facts
      BY DEF RowFields
    <3>5. f # None /\ f.modified = b.validity =>
             /\ b.entries = f.content /\ b.charge = Entries[f.content]
             /\ whole => b.facts \in {f.content, Failed}
      BY <1>4, <3>1, <3>3 DEF ReadTrue
    <3>6. new = row
      BY <2>1
    <3> HIDE DEF row, new, b, f, whole
    <3> QED
      BY <3>1, <3>3, <3>4, <3>5, <3>6 DEF RowTrue
  <2>2. CASE ~Persistable(s)
    BY <2>2 DEF RowTrue
  <2> QED
    BY <2>1, <2>2
<1> HIDE DEF b, at, f, whole, new
<1>6. /\ DOMAIN c = BuildFields /\ c.started = b.started /\ c.inputs = b.inputs
      /\ c.todo = b.todo /\ c.project = b.project /\ c.reused = b.reused
      /\ c.classpath = b.classpath /\ c.artifacts = b.artifacts
      /\ c.fresh = [b.fresh EXCEPT ![at] = new]
      /\ c.index = [b.index EXCEPT ![at] = b.entries]
  BY <1>3 DEF BuildOK, BuildFields
<1>7. NextArtifact(s, c)
  BY <1>1
<1> HIDE DEF c
<1>8. \A a \in Artifacts : RowTrue(c.fresh[a], file[a], clock, whole)
  BY <1>3, <1>4, <1>5, <1>6 DEF BuildOK, f
<1>9. Indexed(c, "next", file, clock)
  <2>1. \A a \in c.reused : c.index[a] = b.index[a]
    BY <1>3, <1>4, <1>6 DEF BuildOK
  <2> QED
    BY <1>3, <1>6, <2>1 DEF Indexed, Indexing, InRead
<1>10. /\ \A x \in {"project", "inputs", "classpath", "started", "todo", "artifacts"} :
             c[x] = b[x]
       /\ DOMAIN c.index = Artifacts /\ DOMAIN c.fresh = Artifacts
       /\ c.reused \subseteq Artifacts /\ c.todo \cap c.reused = {}
  BY <1>3, <1>6 DEF BuildOK
<1>11. pc[s] \in InRead
  BY <1>1 DEF InRead
<1> QED
  BY <1>1, <1>6, <1>7, <1>8, <1>9, <1>10, <1>11, NextStep DEF b, whole

LEMMA VerifyStep ==
    ASSUME IInv, NEW s \in Servers, Verify(s)
    PROVE  IInv'
<1> DEFINE b == build[s]
<1>1. pc[s] = "next" /\ s \notin cancelled /\ UNCHANGED <<disk, store>>
  BY DEF Verify
<1>2. CASE pc' = [pc EXCEPT ![s] = "persist"] /\ UNCHANGED <<build, cancelled>>
  <2>1. build' = [build EXCEPT ![s] = b]
    BY <1>2 DEF IInv
  <2>2. ServerInv(s, b, "next", file, now, clock, s \notin cancelled)
    BY <1>1 DEF IInv
  <2> HIDE DEF b
  <2>3. ServerInv(s, b, "persist", file, now, clock, s \notin cancelled)
    BY <1>1, <2>2 DEF ServerInv, Projected, Reading, Indexed, Indexing, InRead, Resolving
  <2> QED
    BY <1>1, <1>2, <2>1, <2>3, PlainStep
<1> QED
  BY <1>1, <1>2, EndsStep DEF Verify, Goto

(* A cancelled job owes nothing about facts it may have left unfinished. *)
LEMMA CancelStep ==
    ASSUME IInv, NEW s \in Servers, Cancel(s)
    PROVE  IInv'
<1> DEFINE b == build[s]
           step == pc[s]
<1>1. /\ step \in InRead \cup {"next"} /\ UNCHANGED <<disk, store, build, pc>>
      /\ cancelled' = cancelled \cup {s}
  BY DEF Cancel
<1>2. build' = [build EXCEPT ![s] = b] /\ pc' = [pc EXCEPT ![s] = step]
  BY <1>1 DEF IInv
<1>3. ServerInv(s, b, step, file, now, clock, s \notin cancelled)
  BY DEF IInv
<1> HIDE DEF b, step
<1>4. ServerInv(s, b, step, file, now, clock, FALSE)
  <2>1. step # "persist"
    BY <1>1 DEF InRead
  <2> QED
    BY <1>3, <2>1 DEF ServerInv, RowTrue, Reading, ReadTrue
<1>5. (s \notin cancelled') = FALSE
  BY <1>1
<1>6. ServerInv(s, b, step, file, now, clock, s \notin cancelled')
  BY <1>4, <1>5
<1> QED
  BY <1>1, <1>2, <1>6, PlainStep

(* What a transaction leaves in the database was there or comes from the   *)
(* build.                                                                  *)
LEMMA WriteStep ==
    ASSUME IInv, NEW s \in Servers, Write(s)
    PROVE  IInv'
<1> DEFINE b == build[s]
           m == IF ManifestOf(s) = None THEN manifests
                ELSE [manifests EXCEPT ![Context[s]] = ManifestOf(s)]
           r == [a \in Artifacts |->
                    IF b.fresh[a] # None THEN [b.fresh[a] EXCEPT !.used = now]
                    ELSE IF a \in b.reused /\ records[a] # None
                    THEN [records[a] EXCEPT !.used = now]
                    ELSE records[a]]
<1>1. /\ pc[s] = "persist" /\ End(s) /\ UNCHANGED disk
      /\ \E victims \in SUBSET RowsOf(r, m) :
            /\ records' = [a \in Artifacts |->
                              IF <<"record", a>> \in victims THEN None ELSE r[a]]
            /\ manifests' = [c \in Contexts |->
                              IF <<"classpath", c>> \in victims THEN None ELSE m[c]]
  <2> HIDE DEF r, m
  <2> QED
    BY DEF Write, r, m
<1>2. ServerInv(s, b, "persist", file, now, clock, s \notin cancelled) /\ s \notin cancelled
  BY <1>1 DEF IInv, ServerInv
<1>3. RecordsInv(r, file, clock)
  <2> SUFFICES ASSUME NEW a \in Artifacts
               PROVE  RowTrue(r[a], file[a], clock, TRUE)
    BY DEF RecordsInv
  <2>1. RowTrue(records[a], file[a], clock, TRUE) /\ RowTrue(b.fresh[a], file[a], clock, TRUE)
    BY <1>2 DEF IInv, RecordsInv, ServerInv
  <2>2. ASSUME NEW row, RowTrue(row, file[a], clock, TRUE), row # None
        PROVE  RowTrue([row EXCEPT !.used = now], file[a], clock, TRUE)
    BY <2>2 DEF RowTrue, RowFields
  <2> QED
    BY <2>1, <2>2
<1>4. ManifestsInv(m, file, clock) /\ DOMAIN m = Contexts
  <2>1. DOMAIN manifests = Contexts /\ ManifestsInv(manifests, file, clock)
    BY DEF IInv
  <2>2. CASE ManifestOf(s) # None
    <3> DEFINE x == ManifestOf(s)
    <3>1. /\ b.inputs # None /\ x.project = b.project /\ x.inputs = b.inputs
          /\ x.classpath = b.classpath
      BY <2>2 DEF ManifestOf
    <3>2. Selects(b.project, b.inputs, b.classpath, file, clock, Context[s])
      BY <1>2, <3>1 DEF ServerInv
    <3>3. Selects(x.project, x.inputs, x.classpath, file, clock, Context[s])
      BY <3>1, <3>2
    <3>4. m = [manifests EXCEPT ![Context[s]] = x]
      BY <2>2
    <3> HIDE DEF m, x
    <3> QED
      BY <2>1, <3>3, <3>4 DEF ManifestsInv
  <2> QED
    BY <2>1, <2>2
<1> HIDE DEF r, m
<1>5. RecordsInv(records', file, clock) /\ DOMAIN records' = Artifacts
  BY <1>1, <1>3 DEF RecordsInv, RowTrue
<1>6. ManifestsInv(manifests', file, clock) /\ DOMAIN manifests' = Contexts
  BY <1>1, <1>4 DEF ManifestsInv
<1> QED
  BY <1>1, <1>5, <1>6, EndStep

-----------------------------------------------------------------------------
LEMMA InitIInv ==
    Init => IInv
<1> SUFFICES ASSUME Init
             PROVE  IInv
  OBVIOUS
<1>1. /\ now = SettledAge /\ clock = SettledAge /\ SettledAge \in Nat
      /\ Granularity \in Nat /\ Granularity > 0
  BY TimeAssumption DEF Init
<1>2. TimeOK(now, clock)
  BY <1>1 DEF TimeOK
<1>3. DOMAIN file = Files /\ \A f \in Files : FileOK(file[f], clock)
  BY <1>1 DEF Init, FileOK
<1>4. /\ build = [s \in Servers |-> build[s]] /\ pc = [s \in Servers |-> pc[s]]
      /\ DOMAIN records = Artifacts /\ DOMAIN manifests = Contexts
      /\ RecordsInv(records, file, clock) /\ ManifestsInv(manifests, file, clock)
  BY DEF Init, RecordsInv, ManifestsInv, RowTrue
<1>5. \A s \in Servers : build[s] = NoBuild /\ pc[s] = "idle"
  BY DEF Init
<1>6. \A s \in Servers :
         ServerInv(s, build[s], pc[s], file, now, clock, s \notin cancelled)
  BY <1>5, IdleServer
<1> QED
  BY <1>2, <1>3, <1>4, <1>6 DEF IInv

LEMMA NextIInv ==
    IInv /\ [Next]_vars => IInv'
<1> SUFFICES ASSUME IInv, [Next]_vars
             PROVE  IInv'
  OBVIOUS
<1>1. CASE UNCHANGED vars
  BY <1>1 DEF IInv, vars
<1>2. CASE Tick \/ \E f \in Files : Edit(f) \/ Delete(f)
  BY <1>2, WorldSteps
<1>3. ASSUME NEW s \in Servers, Step(s)
      PROVE  IInv'
  <2>1. CASE MavenFails(s) \/ Checkpoint(s) \/ WriteFails(s)
    BY <2>1, EndsStep DEF MavenFails, Checkpoint, WriteFails
  <2>2. CASE \E full \in BOOLEAN : Start(s, full)
    BY <2>2, StartStep
  <2>3. CASE \/ ReuseClasspath(s) \/ StartMaven(s) \/ MavenReads(s) \/ MavenEnds(s)
             \/ WalkModel(s) \/ CaptureInputs(s)
    BY <2>3, ReuseStep, StartMavenStep, MavenReadsStep, MavenEndsStep, WalkStep, CaptureStep
  <2>4. CASE \/ StampArtifacts(s) \/ Scope(s) \/ CaptureValidity(s) \/ Restore(s)
             \/ Miss(s) \/ Preflight(s) \/ ReadJarIndex(s) \/ CollectJarFacts(s)
    BY <2>4, StampStep, ScopeStep, CaptureValidityStep, RestoreStep, ReadSteps
  <2>5. CASE EncodeRecord(s) \/ Verify(s) \/ Write(s) \/ Cancel(s)
    BY <2>5, EncodeStep, VerifyStep, WriteStep, CancelStep
  <2> QED
    BY <1>3, <2>1, <2>2, <2>3, <2>4, <2>5 DEF Step
<1> QED
  BY <1>1, <1>2, <1>3 DEF Next

(* The builds keep the inductive invariant, whatever the servers do at the *)
(* same time and whatever is edited meanwhile.                             *)
THEOREM InvariantHolds == Spec => []IInv
BY InitIInv, NextIInv, PTL DEF Spec

(* RecordsTrue for any files and edits: a stored record whose stamp the    *)
(* artifact still has describes it (is_settled, encode_record).            *)
THEOREM RecordsTrueHolds == Spec => []RecordsTrue
<1>1. IInv => RecordsTrue
  BY DEF IInv, RecordsInv, RowTrue, RecordsTrue
<1> QED
  BY <1>1, InvariantHolds, PTL

(* ReusedIsCurrent for any number of servers that write the database and   *)
(* any edits while a build runs (the comparison of stamps after the build).*)
THEOREM ReusedIsCurrentHolds == Spec => []ReusedIsCurrent
<1>1. IInv => ReusedIsCurrent
  <2> SUFFICES ASSUME IInv, NEW s \in Servers, pc[s] = "persist",
                      NEW a \in build[s].reused,
                      file[a] # None, file[a].modified = build[s].artifacts[a]
               PROVE  build[s].index[a] = file[a].content
    BY DEF ReusedIsCurrent
  <2>1. a \in Artifacts /\ Indexed(build[s], "persist", file, clock)
    BY DEF IInv, ServerInv, BuildOK
  <2>2. file[a].modified \in Nat
    BY <2>1 DEF IInv, FileOK, Files
  <2>3. build[s].artifacts[a] # None
    BY <2>2, FilesAssumption
  <2> QED
    BY <2>1, <2>2, <2>3 DEF Indexed, Indexing
<1> QED
  BY <1>1, InvariantHolds, PTL

(* ManifestsTrue for any inputs, environments and edits: a classpath that  *)
(* is reused is what Maven would select (resolve_classpath,                *)
(* capture_resolution_inputs, persist_build).                              *)
THEOREM ManifestsTrueHolds == Spec => []ManifestsTrue
<1>1. ASSUME IInv, NEW s \in Servers, NEW m, m = manifests[Context[s]], Reused(s, m),
             \A f \in Read : RecordedStamp(m, f) = None => m.classpath.seen[f] = None
      PROVE  m.classpath = SelectionNow(s)
  <2> DEFINE cp == m.classpath
             seen == cp.seen
             reads == \E f \in Read : seen[f] \in Referencing
  <2>1. Selects(m.project, m.inputs, cp, file, clock, Context[s])
    BY <1>1 DEF IInv, ManifestsInv, Reused, Contexts
  <2>2. /\ cp = [seen |-> seen, context |-> Context[s], environment |-> cp.environment]
        /\ seen = [f \in Read |-> seen[f]]
        /\ Environment(m.inputs, cp)
    BY <2>1 DEF Selects
  <2>3. ASSUME NEW f \in Read
        PROVE  /\ seen[f] = ContentOf(f)
               /\ ContentOf(f) \in Referencing => m.inputs.refs
    <3> DEFINE v == RecordedStamp(m, f)
    <3>1. v = StampOf(f)
      BY <1>1 DEF Reused, InputsCurrent, Stamps, RecordedStamp, Read
    <3>2. FileOK(file[f], clock)
      <4>1. f \in Files
        BY DEF Files, Read
      <4>2. \A g \in Files : FileOK(file[g], clock)
        BY <1>1 DEF IInv
      <4> QED
        BY <4>1, <4>2
    <3>3. CASE v = None
      <4>1. file[f] = None /\ seen[f] = None
        BY <1>1, <3>1, <3>2, <3>3, FilesAssumption DEF StampOf, FileOK
      <4> QED
        BY <4>1, FilesAssumption DEF ContentOf
    <3>4. CASE v # None
      <4>1. file[f] # None /\ file[f].modified = v
        BY <3>1, <3>4 DEF StampOf
      <4>2. seen[f] = file[f].content /\ (file[f].content \in Referencing => m.inputs.refs)
        BY <2>1, <3>4, <4>1 DEF Selects, RecordedStamp
      <4> QED
        BY <4>1, <4>2 DEF ContentOf
    <3> QED
      BY <3>3, <3>4
  <2>4. seen = [f \in Read |-> ContentOf(f)]
    BY <2>2, <2>3
  <2>5. reads => m.inputs.refs
    BY <2>3
  <2>6. m.inputs.refs => m.inputs.environment = Variable[s]
    BY <1>1 DEF Reused, InputsCurrent, ReferencedDigest
  <2>7. cp.environment = IF reads THEN Variable[s] ELSE None
    <3>1. IF reads THEN m.inputs.refs => cp.environment = m.inputs.environment
          ELSE cp.environment = None
      BY <2>2 DEF Environment
    <3> HIDE DEF reads
    <3> QED
      BY <2>5, <2>6, <3>1
  <2>8. Selection(s, seen) = [seen |-> seen, context |-> Context[s],
                              environment |-> IF reads THEN Variable[s] ELSE None]
    BY DEF Selection, ReferencedDigest
  <2>9. cp = Selection(s, seen)
    <3> HIDE DEF reads
    <3> QED
      BY <2>2, <2>7, <2>8
  <2> QED
    BY <2>4, <2>9 DEF SelectionNow
<1>2. IInv => ManifestsTrue
  BY <1>1 DEF ManifestsTrue
<1> QED
  BY <1>2, InvariantHolds, PTL
=============================================================================
