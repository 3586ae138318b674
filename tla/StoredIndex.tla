----------------------------- MODULE StoredIndex -----------------------------
(***************************************************************************)
(* What the builds of an index store on disk and reuse: the records of     *)
(* archives (src/index/persisted.rs, the build in src/index.rs) and the    *)
(* classpath manifests (src/index_cache.rs).                               *)
(*                                                                         *)
(* Both are reused when the files they came from still have the same       *)
(* stamps.  A stamp is a modification time from the file system's clock,   *)
(* which may lag behind the system clock by less than Granularity, so two  *)
(* edits can leave the same stamp.  The code answers with SETTLED_AGE:     *)
(* what is younger is not stored.  A file here is its content (a number)   *)
(* and its modification time; edits that keep the size are the hard case,  *)
(* so the size is left out of the stamp.  Servers are processes that share *)
(* one database; each runs one build at a time.                            *)
(***************************************************************************)
EXTENDS Integers, FiniteSets

CONSTANTS
    Servers,       \* server processes of the user
    Reactor,       \* POMs of the project, stamped by the runner's fingerprint
    Inputs,        \* other files that Maven reads to select the classpath
    Artifacts,     \* archives on the classpath, numbers, indexed in their order
    Context,       \* classpath context of each server
    Variable,      \* value each server has for a variable that POMs may reference
    Referencing,   \* contents of POMs that reference the variable
    Broken,        \* content that is no archive, or a POM that cannot be followed
    Entries,       \* number of entries of an artifact with a given content
    MaxJarEntries,    \* limit on the entries of one archive
    MaxIndexEntries,  \* limit on the entries of all archives
    MaxBytes,      \* rows that fit into the database
    SettledAge,    \* SETTLED_AGE
    Granularity,   \* of modification times
    ReadTime,      \* longest time from stamping an archive to encoding its record
    MaxTime, MaxEdits, MaxBuilds, MaxRunning, \* bounds of the model
    Failed,        \* facts of which some could not be read and were left out
    Partial,       \* facts whose reading was broken off by a cancellation
    None

Files == Reactor \cup Inputs \cup Artifacts
Read == Reactor \cup Inputs
Contexts == {Context[s] : s \in Servers}

ASSUME TimeAssumption ==
    /\ SettledAge \in Nat /\ ReadTime \in Nat /\ MaxTime \in Nat
    /\ Granularity \in Nat \ {0}
ASSUME FilesAssumption ==
    /\ Artifacts \subseteq Nat /\ Artifacts \cap Read = {}
    /\ None \notin Nat /\ None \notin Referencing
(* Of the environment: the time from stamping an archive to encoding its   *)
(* record, and one tick of the file system's clock, fit into SETTLED_AGE.  *)
ASSUME SettledAssumption == ReadTime + Granularity <= SettledAge
ASSUME LimitsAssumption == MaxIndexEntries \in Nat /\ MaxEdits \in Nat

VARIABLES
    now,        \* the system clock
    clock,      \* the file system's clock
    file,       \* content and modification time of each file; None when missing
    records,    \* stored record of each artifact, or None
    manifests,  \* stored classpath manifest of each context, or None
    build,      \* local variables of each server's build
    pc,         \* where each server is
    cancelled,  \* servers whose job was cancelled
    edits, builds  \* counters for the bounds

vars == <<now, clock, file, records, manifests, build, pc, cancelled, edits, builds>>
disk == <<now, clock, file, edits>>
store == <<records, manifests>>

-----------------------------------------------------------------------------
(* Files and stamps *)

(* A missing file has a stamp of its own, which is how its creation shows. *)
StampOf(f) == IF file[f] = None THEN None ELSE file[f].modified
ContentOf(f) == IF file[f] = None THEN None ELSE file[f].content
Stamps(S) == [f \in S |-> StampOf(f)]

(* Every stamped file that exists was old enough at a moment for a later   *)
(* change to have another stamp.                                           *)
WasSettledAt(stamps, moment) ==
    \A f \in DOMAIN stamps : stamps[f] # None => stamps[f] <= moment - SettledAge

-----------------------------------------------------------------------------
(* The local variables of a build that is not running. *)
NoBuild == [
    full |-> FALSE,       \* an explicit refresh: stored records are not used
    project |-> None,     \* stamps of the reactor in the runner's snapshot
    started |-> 0,        \* when Maven started
    seen |-> None,        \* what Maven read of each file so far
    refs |-> FALSE,       \* the POMs that were walked reference the variable
    inputs |-> None,      \* what a manifest would depend on, if it may be stored
    classpath |-> None,   \* what Maven or a manifest selected
    artifacts |-> None,   \* stamps of the artifacts, compared after the build
    todo |-> {},          \* artifacts still to be indexed
    at |-> None,          \* artifact being indexed
    validity |-> None,    \* stamp of the artifact being indexed
    since |-> 0,          \* when it was stamped
    charge |-> 0,         \* entries its preflight charged
    entries |-> None,     \* content its entry names were read from
    facts |-> None,       \* content its class facts were read from
    budget |-> 0,         \* entries the index may still have
    index |-> [a \in Artifacts |-> None],  \* content each record describes
    fresh |-> [a \in Artifacts |-> None],  \* new records that may be stored
    reused |-> {}]        \* artifacts whose stored record was used

Goto(s, step) == pc' = [pc EXCEPT ![s] = step]
Set(s, b) == build' = [build EXCEPT ![s] = b]

(* The build ends, whatever its outcome; its local variables go. *)
End(s) ==
    /\ Goto(s, "idle")
    /\ Set(s, NoBuild)
    /\ cancelled' = cancelled \ {s}

Init ==
    /\ now = SettledAge /\ clock = SettledAge
    /\ \E recent \in SUBSET Files :
         file = [f \in Files |->
                    [content |-> 0, modified |-> IF f \in recent THEN SettledAge ELSE 0]]
    /\ records = [a \in Artifacts |-> None]
    /\ manifests = [c \in Contexts |-> None]
    /\ build = [s \in Servers |-> NoBuild]
    /\ pc = [s \in Servers |-> "idle"]
    /\ cancelled = {}
    /\ edits = 0 /\ builds = 0

-----------------------------------------------------------------------------
(* Time and the user *)

InRead == {"load", "preflight", "read", "facts", "encode"}

(* The system clock advances; the file system's may follow or lag.  An     *)
(* archive that is being read is read within ReadTime.                     *)
Tick ==
    /\ now < MaxTime
    /\ \A s \in Servers : pc[s] \in InRead => now < build[s].since + ReadTime
    /\ now' = now + 1
    /\ clock' \in {clock, now + 1}
    /\ now + 1 < clock' + Granularity
    /\ UNCHANGED <<file, store, build, pc, cancelled, edits, builds>>

(* Every edit writes a new content or one that cannot be used. *)
Edit(f) ==
    /\ edits < MaxEdits
    /\ edits' = edits + 1
    /\ \E content \in {edits + 1, Broken} :
         file' = [file EXCEPT ![f] = [content |-> content, modified |-> clock]]
    /\ UNCHANGED <<now, clock, store, build, pc, cancelled, builds>>

Delete(f) ==
    /\ edits < MaxEdits /\ file[f] # None
    /\ edits' = edits + 1
    /\ file' = [file EXCEPT ![f] = None]
    /\ UNCHANGED <<now, clock, store, build, pc, cancelled, builds>>

-----------------------------------------------------------------------------
(* Resolving the classpath *)

(* A request that needs an index.  The runner's snapshot has the stamps of *)
(* the reactor; an explicit refresh first forgets every stored classpath.  *)
Start(s, full) ==
    /\ pc[s] = "idle" /\ builds < MaxBuilds
    /\ Cardinality({t \in Servers : pc[t] # "idle"}) < MaxRunning
    /\ builds' = builds + 1
    /\ Set(s, [NoBuild EXCEPT !.full = full, !.project = Stamps(Reactor)])
    /\ manifests' = IF full THEN [c \in Contexts |-> None] ELSE manifests
    /\ Goto(s, "resolve")
    /\ UNCHANGED <<disk, records, cancelled>>

(* The digest of the variables among references that this process has. *)
ReferencedDigest(s, refs) == IF refs THEN Variable[s] ELSE None

InputsCurrent(s, inputs) ==
    /\ inputs.stamps = Stamps(Inputs)
    /\ inputs.environment = ReferencedDigest(s, inputs.refs)

ReusableClasspath(s, m) ==
    /\ m # None
    /\ m.project = build[s].project
    /\ InputsCurrent(s, m.inputs)
    /\ \A a \in Artifacts : file[a] # None

ReuseClasspath(s) ==
    /\ pc[s] = "resolve"
    /\ LET m == manifests[Context[s]] IN
        /\ ReusableClasspath(s, m)
        /\ Set(s, [build[s] EXCEPT !.classpath = m.classpath, !.inputs = m.inputs])
    /\ Goto(s, "stamp")
    /\ UNCHANGED <<disk, store, cancelled, builds>>

StartMaven(s) ==
    /\ pc[s] = "resolve" /\ ~ReusableClasspath(s, manifests[Context[s]])
    /\ Set(s, [build[s] EXCEPT !.started = now, !.seen = [f \in {} |-> 0]])
    /\ Goto(s, "maven")
    /\ UNCHANGED <<disk, store, cancelled, builds>>

(* Maven reads its files one after the other. *)
MavenReads(s) ==
    /\ pc[s] = "maven"
    /\ \E f \in Read \ DOMAIN build[s].seen :
         Set(s, [build[s] EXCEPT !.seen =
                    [g \in DOMAIN build[s].seen \cup {f} |->
                        IF g = f THEN ContentOf(f) ELSE build[s].seen[g]]])
    /\ UNCHANGED <<disk, store, pc, cancelled, builds>>

(* A POM of the project that is missing, or anything else, fails the run. *)
MavenFails(s) ==
    /\ pc[s] = "maven"
    /\ End(s)
    /\ UNCHANGED <<disk, store, builds>>

(* What Maven selects is decided by what it reads and by its environment. *)
Selection(s, seen) == [
    seen |-> seen,
    context |-> Context[s],
    environment |-> ReferencedDigest(s, \E f \in Read : seen[f] \in Referencing)]

MavenEnds(s) ==
    /\ pc[s] = "maven" /\ DOMAIN build[s].seen = Read
    /\ \A f \in Reactor : build[s].seen[f] # None
    /\ Set(s, [build[s] EXCEPT !.classpath = Selection(s, build[s].seen), !.seen = None])
    /\ Goto(s, "walk")
    /\ UNCHANGED <<disk, store, cancelled, builds>>

(* model_inputs: the POMs are read again, for what they reference. *)
WalkModel(s) ==
    /\ pc[s] = "walk"
    /\ IF \E f \in Read : ContentOf(f) = Broken
       THEN /\ Set(s, [build[s] EXCEPT !.inputs = None])
            /\ Goto(s, "stamp")
       ELSE /\ Set(s, [build[s] EXCEPT !.refs = \E f \in Read : ContentOf(f) \in Referencing])
            /\ Goto(s, "capture")
    /\ UNCHANGED <<disk, store, cancelled, builds>>

(* Mutant: stamps count as soon as they are settled now. *)
DescribesWhatIsSettledNow(s, stamps) ==
    WasSettledAt(build[s].project, now) /\ WasSettledAt(stamps, now)

(* Only inputs that were settled when Maven started describe what it read. *)
DescribesWhatMavenRead(s, stamps) ==
    /\ WasSettledAt(build[s].project, build[s].started)
    /\ WasSettledAt(stamps, build[s].started)

CaptureInputs(s) ==
    /\ pc[s] = "capture"
    /\ LET stamps == Stamps(Inputs)
           inputs == [stamps |-> stamps, refs |-> build[s].refs,
                      environment |-> ReferencedDigest(s, build[s].refs)]
       IN Set(s, [build[s] EXCEPT !.refs = FALSE,
                     !.inputs = IF DescribesWhatMavenRead(s, stamps) THEN inputs ELSE None])
    /\ Goto(s, "stamp")
    /\ UNCHANGED <<disk, store, cancelled, builds>>

-----------------------------------------------------------------------------
(* Indexing *)

StampArtifacts(s) ==
    /\ pc[s] = "stamp"
    /\ Set(s, [build[s] EXCEPT !.artifacts = Stamps(Artifacts)])
    /\ Goto(s, "scope")
    /\ UNCHANGED <<disk, store, cancelled, builds>>

(* A selected archive that is missing fails the build. *)
Scope(s) ==
    /\ pc[s] = "scope"
    /\ IF \E a \in Artifacts : file[a] = None
       THEN End(s)
       ELSE /\ Set(s, [build[s] EXCEPT !.todo = Artifacts, !.budget = MaxIndexEntries])
            /\ Goto(s, "next")
            /\ UNCHANGED cancelled
    /\ UNCHANGED <<disk, store, builds>>

(* The head of the loop: a checkpoint, then the artifact's stamp. *)
CaptureValidity(s) ==
    /\ pc[s] = "next" /\ build[s].todo # {} /\ s \notin cancelled
    /\ \E a \in build[s].todo :
         /\ \A other \in build[s].todo : a <= other
         /\ Set(s, [build[s] EXCEPT !.at = a, !.todo = @ \ {a},
                                    !.validity = StampOf(a), !.since = now])
    /\ Goto(s, "load")
    /\ UNCHANGED <<disk, store, cancelled, builds>>

(* The checkpoints at the head of the loop and after it. *)
Checkpoint(s) ==
    /\ pc[s] = "next" /\ s \in cancelled
    /\ End(s)
    /\ UNCHANGED <<disk, store, builds>>

(* The loop goes on with the next artifact; b has the outcome of this one. *)
NextArtifact(s, b) ==
    /\ Set(s, [b EXCEPT !.at = None, !.validity = None, !.since = 0,
                        !.charge = 0, !.entries = None, !.facts = None])
    /\ Goto(s, "next")
    /\ UNCHANGED cancelled

(* Mutant: a record is restored although its artifact has changed. *)
RestorableIfPresent(s, row) ==
    /\ row # None /\ ~build[s].full /\ build[s].validity # None

(* A stored record was derived from exactly the current artifact. *)
Restorable(s, row) ==
    /\ row # None /\ ~build[s].full /\ build[s].validity # None
    /\ row.validity = build[s].validity

OverLimit(s, count) == count > MaxJarEntries \/ count > build[s].budget

(* A stored record is charged like its preflight was. *)
Restore(s) ==
    /\ pc[s] = "load"
    /\ LET row == records[build[s].at] IN
        /\ Restorable(s, row)
        /\ IF OverLimit(s, row.charge)
           THEN End(s)
           ELSE NextArtifact(s, [build[s] EXCEPT
                    !.budget = @ - row.charge,
                    !.index[build[s].at] = row.entries,
                    !.reused = @ \cup {build[s].at}])
    /\ UNCHANGED <<disk, store, builds>>

Miss(s) ==
    /\ pc[s] = "load" /\ ~Restorable(s, records[build[s].at])
    /\ Goto(s, "preflight")
    /\ UNCHANGED <<disk, store, build, cancelled, builds>>

(* A file that is missing by now or no archive is skipped; a limit fails   *)
(* the build.                                                              *)
Preflight(s) ==
    /\ pc[s] = "preflight"
    /\ LET content == ContentOf(build[s].at) IN
         IF content = None \/ content = Broken
         THEN NextArtifact(s, build[s])
         ELSE IF OverLimit(s, Entries[content])
         THEN End(s)
         ELSE /\ Set(s, [build[s] EXCEPT !.charge = Entries[content],
                                         !.budget = @ - Entries[content]])
              /\ Goto(s, "read")
              /\ UNCHANGED cancelled
    /\ UNCHANGED <<disk, store, builds>>

ReadJarIndex(s) ==
    /\ pc[s] = "read"
    /\ LET content == ContentOf(build[s].at) IN
         IF content = None \/ content = Broken
         THEN NextArtifact(s, build[s])
         ELSE /\ Set(s, [build[s] EXCEPT !.entries = content])
              /\ Goto(s, "facts")
              /\ UNCHANGED cancelled
    /\ UNCHANGED <<disk, store, builds>>

(* The archive is opened again.  What cannot be read is left out, and a    *)
(* cancelled job stops in the middle.                                      *)
CollectJarFacts(s) ==
    /\ pc[s] = "facts"
    /\ \E facts \in (IF s \in cancelled THEN {Partial} ELSE {})
                    \cup (IF file[build[s].at] = None THEN {} ELSE {ContentOf(build[s].at)})
                    \cup {Failed} :
         Set(s, [build[s] EXCEPT !.facts = facts])
    /\ Goto(s, "encode")
    /\ UNCHANGED <<disk, store, cancelled, builds>>

(* Mutant: the age of the stamp is not looked at. *)
PersistableAlways(s) == build[s].validity # None

Persistable(s) ==
    /\ build[s].validity # None
    /\ build[s].validity <= now - SettledAge

EncodeRecord(s) ==
    /\ pc[s] = "encode"
    /\ LET b == build[s]
           row == [validity |-> b.validity, entries |-> b.entries, facts |-> b.facts,
                   charge |-> b.charge, used |-> 0]
       IN NextArtifact(s, [b EXCEPT
              !.index[build[s].at] = b.entries,
              !.fresh[build[s].at] = IF Persistable(s) THEN row ELSE None])
    /\ UNCHANGED <<disk, store, builds>>

(* After the last checkpoint the files are compared with their stamps; a   *)
(* build of files that changed is discarded.                               *)
Verify(s) ==
    /\ pc[s] = "next" /\ build[s].todo = {} /\ s \notin cancelled
    /\ IF Stamps(Reactor) = build[s].project /\ Stamps(Artifacts) = build[s].artifacts
       THEN Goto(s, "persist") /\ UNCHANGED <<build, cancelled>>
       ELSE End(s)
    /\ UNCHANGED <<disk, store, builds>>

-----------------------------------------------------------------------------
(* Storing *)

(* The manifest of a build, if every input still has its stamp and all     *)
(* stamps are settled.                                                     *)
ManifestOf(s) ==
    LET b == build[s] IN
    IF /\ b.inputs # None
       /\ InputsCurrent(s, b.inputs)
       /\ WasSettledAt(b.project, now) /\ WasSettledAt(b.inputs.stamps, now)
    THEN [project |-> b.project, inputs |-> b.inputs, classpath |-> b.classpath, used |-> now]
    ELSE None

(* Rows: pairs of a table and a key. *)
RowsOf(r, m) ==
    {<<"record", a>> : a \in {x \in Artifacts : r[x] # None}}
    \cup {<<"classpath", c>> : c \in {x \in Contexts : m[x] # None}}
LastUsed(r, m, row) == IF row[1] = "record" THEN r[row[2]].used ELSE m[row[2]].used

(* The least recently used rows go, until the rest fits.  Rows last used   *)
(* at the same time go in an order that is left open.                      *)
IsEviction(victims, r, m) ==
    LET rows == RowsOf(r, m)
        excess == Cardinality(rows) - MaxBytes
    IN  /\ Cardinality(victims) = (IF excess > 0 THEN excess ELSE 0)
        /\ \A v \in victims, k \in rows \ victims : LastUsed(r, m, v) <= LastUsed(r, m, k)

(* One transaction: the manifest and the new records are inserted, reused  *)
(* records are touched, and the database is brought back into its budget.  *)
Write(s) ==
    /\ pc[s] = "persist"
    /\ LET b == build[s]
           m == IF ManifestOf(s) = None THEN manifests
                ELSE [manifests EXCEPT ![Context[s]] = ManifestOf(s)]
           r == [a \in Artifacts |->
                    IF b.fresh[a] # None THEN [b.fresh[a] EXCEPT !.used = now]
                    ELSE IF a \in b.reused /\ records[a] # None
                    THEN [records[a] EXCEPT !.used = now]
                    ELSE records[a]]
       IN \E victims \in SUBSET RowsOf(r, m) :
            /\ IsEviction(victims, r, m)
            /\ records' = [a \in Artifacts |->
                              IF <<"record", a>> \in victims THEN None ELSE r[a]]
            /\ manifests' = [c \in Contexts |->
                              IF <<"classpath", c>> \in victims THEN None ELSE m[c]]
    /\ End(s)
    /\ UNCHANGED <<disk, builds>>

(* The write fails (busy, no space): only the stored copy is lost. *)
WriteFails(s) ==
    /\ pc[s] = "persist"
    /\ End(s)
    /\ UNCHANGED <<disk, store, builds>>

(* A shutdown, or the end of the request, cancels the job. *)
Cancel(s) ==
    /\ pc[s] \in InRead \cup {"next"} /\ s \notin cancelled
    /\ cancelled' = cancelled \cup {s}
    /\ UNCHANGED <<disk, store, build, pc, builds>>

Step(s) ==
    \/ \E full \in BOOLEAN : Start(s, full)
    \/ ReuseClasspath(s) \/ StartMaven(s) \/ MavenReads(s) \/ MavenFails(s) \/ MavenEnds(s)
    \/ WalkModel(s) \/ CaptureInputs(s) \/ StampArtifacts(s) \/ Scope(s)
    \/ CaptureValidity(s) \/ Checkpoint(s) \/ Restore(s) \/ Miss(s)
    \/ Preflight(s) \/ ReadJarIndex(s) \/ CollectJarFacts(s) \/ EncodeRecord(s)
    \/ Verify(s) \/ Write(s) \/ WriteFails(s) \/ Cancel(s)

Next ==
    \/ Tick
    \/ \E f \in Files : Edit(f) \/ Delete(f)
    \/ \E s \in Servers : Step(s)

Spec == Init /\ [][Next]_vars

-----------------------------------------------------------------------------
(* A stored record whose stamp the artifact still has describes it: its    *)
(* entry names, its class facts (or less, where an entry could not be      *)
(* read) and the entries it is charged for.  What a cancelled job left     *)
(* unfinished is never stored.                                             *)
RecordsTrue ==
    \A a \in Artifacts :
        LET row == records[a] IN
        row # None /\ file[a] # None /\ row.validity = file[a].modified
            => /\ row.entries = file[a].content
               /\ row.facts \in {file[a].content, Failed}
               /\ row.charge = Entries[file[a].content]

(* What a build took from a stored record is true of the artifact the      *)
(* build was about, for as long as that has the stamp the build verified:  *)
(* persist_build and the index that is served rest on it.                  *)
ReusedIsCurrent ==
    \A s \in Servers : pc[s] = "persist" =>
        \A a \in build[s].reused :
            file[a] # None /\ file[a].modified = build[s].artifacts[a]
                => build[s].index[a] = file[a].content

(* What a server would get from Maven now. *)
SelectionNow(s) == Selection(s, [f \in Read |-> ContentOf(f)])

(* A manifest that a server would reuse now. *)
Reused(s, m) ==
    /\ m # None /\ m.project = Stamps(Reactor)
    /\ InputsCurrent(s, m.inputs)

(* The stamp a manifest has for a file that Maven read. *)
RecordedStamp(m, f) == IF f \in Reactor THEN m.project[f] ELSE m.inputs.stamps[f]

(* Such a manifest has what Maven would select for that server now, unless *)
(* a file that Maven still read is recorded as missing.                    *)
ManifestsTrue ==
    \A s \in Servers :
        LET m == manifests[Context[s]] IN
        /\ Reused(s, m)
        /\ \A f \in Read : RecordedStamp(m, f) = None => m.classpath.seen[f] = None
        => m.classpath = SelectionNow(s)
=============================================================================
