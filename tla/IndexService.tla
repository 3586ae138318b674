---------------------------- MODULE IndexService ----------------------------
(***************************************************************************)
(* The tool calls that read, build and invalidate a project's index        *)
(* (src/server.rs): queries through index_for, refresh_maven_project and   *)
(* the Maven runs that invalidate the project.                             *)
(*                                                                         *)
(* A request moves from one mutex section or await to the next; between    *)
(* any two of its steps other requests, edits of the project's files and   *)
(* abandoned blocking jobs may act.  A request that is cancelled at an     *)
(* await vanishes, but a blocking job it had started lives on as an orphan *)
(* that keeps the build owner lock, the memory reservation, the index and  *)
(* the disk write it was given.                                            *)
(***************************************************************************)
EXTENDS ProjectCache

CONSTANTS
    Reqs,           \* tool calls, each made at most once
    Kinds,          \* what each call may be: "query", "refresh", "maven"
    MaxAttempts,    \* MAX_INDEX_BUILD_ATTEMPTS
    ReserveBytes,   \* artifacts.file_bytes() of each root
    MaxEdits,       \* bound on the edits of POMs and artifacts
    Cancellations,  \* whether clients cancel calls
    Failures        \* whether blocking jobs, discovery and Maven may fail

ASSUME ServiceAssumption ==
    /\ IsFiniteSet(Reqs) /\ Kinds \in [Reqs -> SUBSET {"query", "refresh", "maven"}]
    /\ MaxAttempts \in Nat \ {0} /\ MaxEdits \in Nat
    /\ ReserveBytes \in [Roots -> Nat]
    /\ Cancellations \in BOOLEAN /\ Failures \in BOOLEAN

(* The absent value is neither a cell nor a marker. *)
ASSUME NoneAssumption == None \notin Nat /\ None \notin [cell : Nat, generation : Nat]

VARIABLES
    cache,      \* the ProjectCache
    req,        \* the state of each tool call
    cells,      \* what each build cell (OnceCell) holds: Open, or its outcome
    orphan,     \* the blocking job a cancelled call left behind, or None
    manifest,   \* the classpath stored on disk for each root, or None
    pom,        \* version of the files a ProjectFingerprint of the root stamps
    artifacts,  \* version of the root's classpath artifacts
    epoch,      \* history: refreshes and finished Maven runs of each root
    published,  \* history: the generations of each root that were published
    owed        \* history: roots refreshed since their last publication

vars == <<cache, req, cells, orphan, manifest, pom, artifacts, epoch, published, owed>>

-----------------------------------------------------------------------------
(* A call that is not running.  The fields are the local variables of the  *)
(* handlers: `snapshot` (RunnerSnapshot), `generation`, `cell` (the build  *)
(* cell with its owner lock), `classpath`, the artifact stamps, `reuse`    *)
(* and `changed` of try_build_index, and the index the call holds.         *)
(* `since` is the epoch in which the call arrived or its own invalidation  *)
(* took place, `began` the epoch in which its build took the owner lock.   *)
Idle ==
    [pc |-> "idle", kind |-> None, root |-> None, attempts |-> 0, since |-> 0,
     snapshot |-> None, model |-> 0, generation |-> 0, cell |-> None, began |-> 0,
     classpath |-> None, stamps |-> 0, reuse |-> FALSE, changed |-> FALSE,
     index |-> None]

Ended(pc) == [Idle EXCEPT !.pc = pc]

(* Steps of build_index: the ones after the owner lock was taken, the ones *)
(* that also hold a reservation, and the ones inside the indexing job.     *)
Owning == {"resolve", "maven", "stamp", "reserve", "flag", "build", "verify",
           "publish", "persist", "recheck", "unpersist"}
Reserving == {"flag", "build", "verify", "publish"}
Building == {"build", "verify"}

At(p, pc) == req[p].pc = pc
Root(p) == req[p].root
Goto(p, pc) == req' = [req EXCEPT ![p].pc = pc]

(* A build cell that is not initialised. *)
Open == [kind |-> "Open", index |-> None]

(* Cells and owner locks have identities; a number is reused once nobody   *)
(* refers to it any more.                                                  *)
CellIds == 1 .. (2 * Cardinality(Reqs) + Cardinality(Roots) + 1)

LiveCells ==
    ({req[p].cell : p \in Reqs} \union
     {orphan[p].cell : p \in {q \in Reqs : orphan[q] # None}}) \ {None}

UsedCells ==
    LiveCells \union
    {cache.states[r].in_flight.cell : r \in {s \in Roots : cache.states[s].in_flight # None}}

FreshCell == Min(CellIds \ UsedCells)

(* The initialiser of a cell and the holder of its owner lock. *)
Initializing(m) == \E p \in Reqs : req[p].cell = m /\ req[p].pc \in Owning \union {"owner"}
(* Mutant: the owner's reference count is taken for its lock. *)
OwnerReferenced(m) ==
    \/ \E p \in Reqs : req[p].cell = m /\ req[p].pc \in Owning \union {"cell"}
    \/ \E p \in Reqs : orphan[p] # None /\ orphan[p].cell = m

OwnerLocked(m) ==
    \/ \E p \in Reqs : req[p].cell = m /\ req[p].pc \in Owning
    \/ \E p \in Reqs : orphan[p] # None /\ orphan[p].cell = m

(* Indexes and runners are counted by identity, too. *)
CallHolds(q) ==
    {x.obj : x \in ({q.snapshot, q.index} \ {None})}

Held ==
    UNION {CallHolds(req[p]) : p \in Reqs}
    \union UNION {orphan[p].holds : p \in {q \in Reqs : orphan[q] # None}}
    \union {cells[m].index.obj : m \in {n \in LiveCells : cells[n].index # None}}

UsedObjects ==
    Held \union {x.obj : x \in cache.released}
    \union {cache.states[r].runner.obj : r \in {s \in Roots : cache.states[s].runner # None}}
    \union {cache.states[r].index.obj : r \in {s \in Roots : cache.states[s].index # None}}

FreshObject == Min((1 .. (Cardinality(UsedObjects) + 1)) \ UsedObjects)

(* What the cache can see of the calls other than `p`'s own reservation.   *)
EnvOf(p) ==
    LET calls == {q \in Reqs \ {p} : req[q].pc \in Reserving}
        jobs == {q \in Reqs : orphan[q] # None}
        reserved == [q \in calls |-> ReserveBytes[Root(q)]]
        left == [q \in jobs |-> orphan[q].reserved]
    IN  [held |-> Held, live |-> LiveCells,
         reserved |-> SumFunction(reserved) + SumFunction(left)]

-----------------------------------------------------------------------------
Init ==
    /\ cache = EmptyCache
    /\ req = [p \in Reqs |-> Idle]
    /\ cells = [m \in CellIds |-> Open]
    /\ orphan = [p \in Reqs |-> None]
    /\ manifest = [r \in Roots |-> None]
    /\ pom = [r \in Roots |-> 0]
    /\ artifacts = [r \in Roots |-> 0]
    /\ epoch = [r \in Roots |-> 0]
    /\ published = [r \in Roots |-> {}]
    /\ owed = {}

disk == <<manifest>>
world == <<pom, artifacts>>
history == <<epoch, published, owed>>

Receive(p, kind, r) ==
    req' = [req EXCEPT ![p].kind = kind, ![p].root = r, ![p].since = epoch[r],
                       ![p].pc = IF kind = "refresh" THEN "refresh" ELSE "runner"]

Start(p) ==
    /\ At(p, "idle")
    /\ \E kind \in Kinds[p], r \in Roots : Receive(p, kind, r)
    /\ UNCHANGED <<cache, cells, orphan, disk, world, history>>

(* Mutant: the refresh asks for a full rebuild and invalidates nothing. *)
RefreshFlagOnly(p) ==
    /\ At(p, "refresh")
    /\ cache' = RequireFullRebuild(cache, Root(p))
    /\ epoch' = [epoch EXCEPT ![Root(p)] = @ + 1]
    /\ req' = [req EXCEPT ![p].pc = "forget", ![p].since = epoch[Root(p)] + 1]
    /\ owed' = owed \union {Root(p)}
    /\ UNCHANGED <<cells, orphan, disk, world, published>>

(* refresh_project: one mutex section drops the index, abandons the running *)
(* build, asks for a new model and for a full rebuild.                      *)
Refresh(p) ==
    /\ At(p, "refresh")
    /\ cache' = RequireFullRebuild(InvalidateAfterMaven(cache, Root(p), EnvOf(p)), Root(p))
    /\ epoch' = [epoch EXCEPT ![Root(p)] = @ + 1]
    /\ req' = [req EXCEPT ![p].pc = "forget", ![p].since = epoch[Root(p)] + 1]
    /\ owed' = owed \union {Root(p)}
    /\ UNCHANGED <<cells, orphan, disk, world, published>>

(* run_maven, run_maven_lifecycle: invalidate_project runs only after the  *)
(* Maven process has ended.                                                *)
InvalidateProject(p) ==
    /\ At(p, "running")
    /\ cache' = InvalidateAfterMaven(cache, Root(p), EnvOf(p))
    /\ epoch' = [epoch EXCEPT ![Root(p)] = @ + 1]
    /\ req' = [req EXCEPT ![p].pc = "forget", ![p].snapshot = None]
    /\ UNCHANGED <<cells, orphan, disk, world, published, owed>>

(* forget_persisted_classpaths; a failure is only logged. *)
Forgotten(p) ==
    req' = [req EXCEPT ![p] = IF @.kind = "refresh" THEN [@ EXCEPT !.pc = "runner"]
                              ELSE Ended("done")]

Forget(p) ==
    /\ At(p, "forget")
    /\ Forgotten(p)
    /\ manifest' = [manifest EXCEPT ![Root(p)] = None]
    /\ UNCHANGED <<cache, cells, orphan, world, history>>

-----------------------------------------------------------------------------
(* project_runner *)
AfterRunner(p) == IF req[p].kind = "maven" THEN "running" ELSE "lookup"

CheckRunner(p) ==
    LET runner == cache.states[Root(p)].runner
        current == runner # None /\ ~runner.revalidate /\ runner.fingerprint = pom[Root(p)]
    IN  /\ At(p, "runner")
        /\ cache' = LookupRunner(cache, Root(p))
        /\ req' = [req EXCEPT ![p].snapshot = runner,
                              ![p].pc = IF current THEN AfterRunner(p) ELSE "discover"]
        /\ UNCHANGED <<cells, orphan, disk, world, history>>

(* The model is read first; its files are stamped afterwards, some time    *)
(* before the runner is installed.                                         *)
Discover(p) ==
    /\ At(p, "discover")
    /\ req' = [req EXCEPT ![p].model = pom[Root(p)], ![p].pc = "install"]
    /\ UNCHANGED <<cache, cells, orphan, disk, world, history>>

DiscoverFails(p) ==
    /\ Failures
    /\ At(p, "discover")
    /\ cache' = DiscardProject(cache, Root(p), EnvOf(p))
    /\ req' = [req EXCEPT ![p] = Ended("done")]
    /\ UNCHANGED <<cells, orphan, disk, world, history>>

InstallStamped(p, stamped) ==
    LET runner == [obj |-> FreshObject, fingerprint |-> stamped,
                   model |-> req[p].model, revalidate |-> FALSE]
    IN  /\ cache' = InstallRunner(cache, Root(p), runner, EnvOf(p))
        /\ req' = [req EXCEPT ![p].snapshot = runner, ![p].model = 0,
                              ![p].pc = AfterRunner(p)]

Install(p) ==
    /\ At(p, "install")
    /\ \E stamped \in req[p].model .. pom[Root(p)] : InstallStamped(p, stamped)
    /\ UNCHANGED <<cells, orphan, disk, world, history>>

-----------------------------------------------------------------------------
(* index_for returns the index alone. *)
Serve(q, index) ==
    [q EXCEPT !.pc = "use", !.index = index, !.cell = None, !.generation = 0,
              !.snapshot = None]

Retried(q) ==
    IF q.attempts + 1 < MaxAttempts
    THEN [Idle EXCEPT !.pc = "runner", !.kind = q.kind, !.root = q.root,
                      !.since = q.since, !.attempts = q.attempts + 1]
    ELSE Ended("done")

Lookup(p) ==
    LET r == Root(p)
        c == LookupIndex(cache, r, req[p].snapshot.fingerprint, FreshCell, EnvOf(p))
        s == c.states[r]
    IN  /\ At(p, "lookup")
        /\ cache' = c
        /\ req' = [req EXCEPT ![p] =
              IF s.index # None
              THEN [@ EXCEPT !.pc = "validate", !.generation = s.generation, !.index = s.index]
              ELSE [@ EXCEPT !.pc = "cell", !.generation = s.generation,
                             !.cell = s.in_flight.cell]]
        /\ UNCHANGED <<cells, orphan, disk, world, history>>

Validate(p) ==
    /\ At(p, "validate")
    /\ IF req[p].index.stamps = artifacts[Root(p)]
       THEN /\ cache' = RecordHit(cache, Root(p))
            /\ req' = [req EXCEPT ![p] = Serve(@, @.index)]
       ELSE /\ cache' = InvalidateGeneration(cache, Root(p), req[p].generation, EnvOf(p))
            /\ req' = [req EXCEPT ![p] = Retried(@)]
    /\ UNCHANGED <<cells, orphan, disk, world, history>>

(* The last clone of a cell, a call's or the marker's, frees its outcome.  *)
LeaveCell(p) ==
    LET m == req[p].cell
        shared == \/ \E q \in Reqs \ {p} : req[q].cell = m
                  \/ \E r \in Roots : /\ cache.states[r].in_flight # None
                                       /\ cache.states[r].in_flight.cell = m
    IN  cells' = IF shared THEN cells ELSE [cells EXCEPT ![m] = Open]

ReadCell(p) ==
    LET outcome == cells[req[p].cell]
    IN  /\ At(p, "cell")
        /\ outcome # Open
        /\ LeaveCell(p)
        /\ req' = [req EXCEPT ![p] =
              CASE outcome.kind = "Built" -> Serve(@, outcome.index)
                [] outcome.kind = "Failed" -> Ended("done")
                [] outcome.kind = "Stale" -> Retried(@)]
        /\ UNCHANGED <<cache, orphan, disk, world, history>>

(* get_or_init: one caller at a time runs the build, and the next waiter   *)
(* takes over when that caller is cancelled.                               *)
EnterCell(p) ==
    /\ At(p, "cell")
    /\ cells[req[p].cell] = Open
    /\ ~Initializing(req[p].cell)
    /\ Goto(p, "owner")
    /\ UNCHANGED <<cache, cells, orphan, disk, world, history>>

Use(p) ==
    /\ At(p, "use")
    /\ req' = [req EXCEPT ![p] = Ended("done")]
    /\ UNCHANGED <<cache, cells, orphan, disk, world, history>>

-----------------------------------------------------------------------------
(* build_index and try_build_index *)
Complete(p, outcome) ==
    /\ cells' = [cells EXCEPT ![req[p].cell] = outcome]
    /\ req' = [req EXCEPT ![p].pc = "cell", ![p].classpath = None, ![p].index = None,
                          ![p].stamps = 0, ![p].began = 0, ![p].reuse = FALSE,
                          ![p].changed = FALSE]

Stale == [kind |-> "Stale", index |-> None]
Failed == [kind |-> "Failed", index |-> None]

Fail(p) ==
    /\ Complete(p, Failed)
    /\ cache' = FinishFailed(cache, Root(p), req[p].generation, EnvOf(p))
    /\ UNCHANGED <<orphan, disk, world, history>>

AcquireOwner(p) ==
    /\ At(p, "owner")
    /\ ~OwnerLocked(req[p].cell)
    /\ req' = [req EXCEPT ![p].pc = "resolve", ![p].began = epoch[Root(p)]]
    /\ UNCHANGED <<cache, cells, orphan, disk, world, history>>

(* resolve_classpath: a stored classpath is reused while it belongs to the *)
(* same project fingerprint and its inputs are unchanged.                  *)
Resolve(p) ==
    LET stored == manifest[Root(p)]
        reusable == /\ stored # None
                    /\ stored.project = req[p].snapshot.fingerprint
                    /\ stored.project = pom[Root(p)]
    IN  /\ At(p, "resolve")
        /\ req' = [req EXCEPT ![p] =
              IF reusable
              THEN [@ EXCEPT !.pc = "stamp",
                             !.classpath = [resolved |-> stored.resolved, inputs |-> TRUE]]
              ELSE [@ EXCEPT !.pc = "maven",
                             !.classpath = [resolved |-> epoch[Root(p)], inputs |-> FALSE]]]
        /\ UNCHANGED <<cache, cells, orphan, disk, world, history>>

(* Maven resolves the classpath, then capture_resolution_inputs stamps its *)
(* inputs.  Inputs that were not settled when Maven started are not        *)
(* recorded, so that classpath is never stored.                            *)
Resolved(p, settled) ==
    req' = [req EXCEPT ![p].pc = "stamp", ![p].classpath.inputs = settled]

ResolveWithMaven(p) ==
    /\ At(p, "maven")
    /\ \E settled \in BOOLEAN : Resolved(p, settled)
    /\ UNCHANGED <<cache, cells, orphan, disk, world, history>>

Stamp(p) ==
    /\ At(p, "stamp")
    /\ req' = [req EXCEPT ![p].pc = "reserve", ![p].stamps = artifacts[Root(p)]]
    /\ UNCHANGED <<cache, cells, orphan, disk, world, history>>

ReserveMemory(p) ==
    LET r == Root(p)
        c == Reserve(cache, r, ReserveBytes[r], EnvOf(p))
    IN  /\ At(p, "reserve")
        /\ \/ /\ ~IsCurrent(cache, r, req[p].generation)
              /\ cache' = Prune(cache, EnvOf(p))
              /\ Complete(p, Stale)
              /\ UNCHANGED <<orphan, disk, world, history>>
           \/ /\ IsCurrent(cache, r, req[p].generation)
              /\ WithinBytes(c, EnvOf(p), ReserveBytes[r])
              /\ cache' = c
              /\ Goto(p, "flag")
              /\ UNCHANGED <<cells, orphan, disk, world, history>>
           \/ /\ IsCurrent(cache, r, req[p].generation)
              /\ ~WithinBytes(c, EnvOf(p), ReserveBytes[r])
              /\ cache' = FinishFailed(c, r, req[p].generation, EnvOf(p))
              /\ Complete(p, Failed)
              /\ UNCHANGED <<orphan, disk, world, history>>

ReadFlag(p) ==
    /\ At(p, "flag")
    /\ req' = [req EXCEPT ![p].pc = "build", ![p].reuse = ~RequiresFullRebuild(cache, Root(p))]
    /\ UNCHANGED <<cache, cells, orphan, disk, world, history>>

(* The blocking job reads the archives, then compares every stamp again.   *)
BuildScoped(p) ==
    /\ At(p, "build")
    /\ req' = [req EXCEPT ![p].pc = "verify",
           ![p].index = [obj |-> FreshObject, project |-> req[p].snapshot.fingerprint,
                         stamps |-> req[p].stamps, content |-> artifacts[Root(p)],
                         began |-> req[p].began, resolved |-> req[p].classpath.resolved,
                         reread |-> ~req[p].reuse]]
    /\ UNCHANGED <<cache, cells, orphan, disk, world, history>>

(* Mutant: only the project's own files are compared again. *)
VerifyFingerprintOnly(p) ==
    /\ At(p, "verify")
    /\ req' = [req EXCEPT ![p].pc = "publish",
                          ![p].changed = req[p].snapshot.fingerprint # pom[Root(p)]]
    /\ UNCHANGED <<cache, cells, orphan, disk, world, history>>

VerifyBuild(p) ==
    LET changed == \/ req[p].snapshot.fingerprint # pom[Root(p)]
                   \/ req[p].stamps # artifacts[Root(p)]
    IN  /\ At(p, "verify")
        /\ req' = [req EXCEPT ![p].pc = "publish", ![p].changed = changed]
        /\ UNCHANGED <<cache, cells, orphan, disk, world, history>>

PublishBuild(p) ==
    LET r == Root(p)
        g == req[p].generation
    IN  /\ At(p, "publish")
        /\ \/ /\ req[p].changed
              /\ cache' = InvalidateGeneration(cache, r, g, EnvOf(p))
              /\ Complete(p, Stale)
              /\ UNCHANGED <<orphan, disk, world, history>>
           \/ /\ ~req[p].changed
              /\ ~IsCurrent(cache, r, g)
              /\ cache' = Prune(cache, EnvOf(p))
              /\ Complete(p, Stale)
              /\ UNCHANGED <<orphan, disk, world, history>>
           \/ /\ ~req[p].changed
              /\ IsCurrent(cache, r, g)
              /\ cache' = FinishFullRebuild(Publish(cache, r, req[p].index, EnvOf(p)), r, g)
              /\ published' = [published EXCEPT ![r] = @ \union {g}]
              /\ owed' = owed \ {r}
              /\ Goto(p, "persist")
              /\ UNCHANGED <<cells, orphan, disk, world, epoch>>

(* persist_build: the manifest is stored while its inputs are unchanged,   *)
(* then forgotten again when the generation is no longer current.          *)
Storable(p) == req[p].classpath.inputs /\ req[p].snapshot.fingerprint = pom[Root(p)]

StoredManifest(p) ==
    [project |-> req[p].snapshot.fingerprint, resolved |-> req[p].classpath.resolved]

Persist(p) ==
    /\ At(p, "persist")
    /\ manifest' = IF Storable(p) THEN [manifest EXCEPT ![Root(p)] = StoredManifest(p)]
                   ELSE manifest
    /\ Goto(p, "recheck")
    /\ UNCHANGED <<cache, cells, orphan, world, history>>

Built(p) == Complete(p, [kind |-> "Built", index |-> req[p].index])

Recheck(p) ==
    /\ At(p, "recheck")
    /\ IF IsCurrent(cache, Root(p), req[p].generation)
       THEN Built(p)
       ELSE Goto(p, "unpersist") /\ UNCHANGED cells
    /\ UNCHANGED <<cache, orphan, disk, world, history>>

Unpersist(p) ==
    /\ At(p, "unpersist")
    /\ manifest' = [manifest EXCEPT ![Root(p)] = None]
    /\ Built(p)
    /\ UNCHANGED <<cache, orphan, world, history>>

-----------------------------------------------------------------------------
(* A blocking job is rejected or fails, or Maven does not resolve.         *)
BlockingFails(p) ==
    /\ Failures
    /\ \/ /\ req[p].pc \in {"validate", "use", "running"}
          /\ req' = [req EXCEPT ![p] = Ended("done")]
          /\ UNCHANGED <<cache, cells, orphan, disk, world, history>>
       \/ /\ At(p, "forget")
          /\ Forgotten(p)
          /\ UNCHANGED <<cache, cells, orphan, disk, world, history>>
       \/ /\ req[p].pc \in {"resolve", "maven", "stamp", "verify"}
          /\ Fail(p)
       \/ /\ At(p, "persist")
          /\ Goto(p, "recheck")
          /\ UNCHANGED <<cache, cells, orphan, disk, world, history>>
       \/ /\ At(p, "unpersist")
          /\ Built(p)
          /\ UNCHANGED <<cache, orphan, disk, world, history>>

(* The blocking job a call leaves behind when it is cancelled: what the    *)
(* closure owns, and what it will still write.                             *)
Jobs == {"resolve", "maven", "stamp", "build", "verify", "persist", "unpersist",
         "forget", "validate", "use"}

(* Mutant: the owner lock stays with the request. *)
JobWithoutOwner(p) ==
    LET q == req[p]
    IN  [root |-> q.root, generation |-> q.generation, cell |-> None,
         building |-> q.pc \in Building, holds |-> {}, reserved |-> 0,
         writes |-> FALSE, manifest |-> None]

Job(p) ==
    LET q == req[p]
        writes == \/ q.pc \in {"forget", "unpersist"}
                  \/ q.pc = "persist" /\ Storable(p)
    IN  [root |-> q.root, generation |-> q.generation,
         cell |-> IF q.pc \in {"resolve", "maven", "stamp", "build", "verify"}
                  THEN q.cell ELSE None,
         building |-> q.pc \in Building,
         holds |-> CASE q.pc \in {"validate", "use"} -> {q.index.obj}
                     [] q.pc \in {"resolve", "maven"} -> {q.snapshot.obj}
                     [] OTHER -> {},
         reserved |-> IF q.pc \in Building THEN ReserveBytes[q.root] ELSE 0,
         writes |-> writes,
         manifest |-> IF q.pc = "persist" /\ writes THEN StoredManifest(p) ELSE None]

Awaits == Jobs \union {"cell", "owner", "running"}

(* A job that has not started yet is dropped with the call. *)
Cancel(p) ==
    /\ Cancellations
    /\ req[p].pc \in Awaits
    /\ \/ req[p].pc \in Jobs /\ orphan' = [orphan EXCEPT ![p] = Job(p)]
       \/ UNCHANGED orphan
    /\ IF req[p].cell = None THEN UNCHANGED cells ELSE LeaveCell(p)
    /\ req' = [req EXCEPT ![p] = Ended("dropped")]
    /\ UNCHANGED <<cache, disk, world, history>>

OrphanEnds(p) ==
    /\ orphan[p] # None
    /\ orphan' = [orphan EXCEPT ![p] = None]
    /\ manifest' = IF orphan[p].writes
                   THEN [manifest EXCEPT ![orphan[p].root] = orphan[p].manifest]
                   ELSE manifest
    /\ UNCHANGED <<cache, req, cells, world, history>>

(* Somebody edits the project. *)
Edits(r) == pom[r] + artifacts[r]

EditPom(r) ==
    /\ Edits(r) < MaxEdits
    /\ pom' = [pom EXCEPT ![r] = @ + 1]
    /\ UNCHANGED <<cache, req, cells, orphan, disk, artifacts, history>>

EditArtifacts(r) ==
    /\ Edits(r) < MaxEdits
    /\ artifacts' = [artifacts EXCEPT ![r] = @ + 1]
    /\ UNCHANGED <<cache, req, cells, orphan, disk, pom, history>>

-----------------------------------------------------------------------------
Advance(p) ==
    \/ Refresh(p) \/ InvalidateProject(p) \/ Forget(p)
    \/ CheckRunner(p) \/ Discover(p) \/ DiscoverFails(p) \/ Install(p)
    \/ Lookup(p) \/ Validate(p) \/ EnterCell(p) \/ ReadCell(p) \/ Use(p)
    \/ AcquireOwner(p) \/ Resolve(p) \/ ResolveWithMaven(p) \/ Stamp(p)
    \/ ReserveMemory(p) \/ ReadFlag(p) \/ BuildScoped(p) \/ VerifyBuild(p)
    \/ PublishBuild(p) \/ Persist(p) \/ Recheck(p) \/ Unpersist(p)
    \/ BlockingFails(p)

Next ==
    \/ \E p \in Reqs : Start(p) \/ Advance(p) \/ Cancel(p) \/ OrphanEnds(p)
    \/ \E r \in Roots : EditPom(r) \/ EditArtifacts(r)

(* A running call waits only for an owner lock that is held or for a cell  *)
(* that somebody else initialises.                                         *)
CanAdvance(p) ==
    /\ req[p].pc \notin {"idle", "done", "dropped"}
    /\ At(p, "owner") => ~OwnerLocked(req[p].cell)
    /\ At(p, "cell") => cells[req[p].cell] # Open \/ ~Initializing(req[p].cell)

(* A running call is polled and its blocking jobs end, also orphaned ones. *)
(* Nothing obliges a client to call or to cancel, or a user to edit.  The  *)
(* first part is WF_vars(Advance(p)) with ENABLED Advance(p) written out.  *)
Fairness ==
    \A p \in Reqs : /\ []<>~CanAdvance(p) \/ []<><<Advance(p)>>_vars
                    /\ WF_vars(OrphanEnds(p))

Spec == Init /\ [][Next]_vars /\ Fairness

-----------------------------------------------------------------------------
(* A retained index was begun after the last refresh of its project and    *)
(* after the last Maven run that invalidated it: a build that started      *)
(* earlier never publishes, whatever happened to the project's state in    *)
(* between (project_cache.rs publish, is_current and fresh_generation).    *)
(* refresh_project: "Only an index that was built after the invalidation   *)
(* counts as refreshed", also when the refresh joins another call's build. *)
NoStaleIndex ==
    /\ \A r \in Roots :
          cache.states[r].index # None => cache.states[r].index.began = epoch[r]
    /\ \A p \in Reqs :
          At(p, "use") /\ req[p].kind = "refresh" => req[p].index.began >= req[p].since

(* A retained index describes the artifacts it is validated against: what  *)
(* the job read is what was stamped before it started, whatever was edited *)
(* while Maven and the indexer ran (try_build_index).                      *)
IndexMatchesItsStamps ==
    \A r \in Roots :
        LET index == cache.states[r].index
        IN  index # None => index.content = index.stamps

(* The jobs reading archives for one generation of one project, abandoned  *)
(* ones included.                                                          *)
BuildsOf(r, g) ==
    {p \in Reqs : req[p].pc \in Building /\ Root(p) = r /\ req[p].generation = g}
    \union
    {p \in Reqs : orphan[p] # None /\ orphan[p].building
                   /\ orphan[p].root = r /\ orphan[p].generation = g}

Generations == {req[p].generation : p \in Reqs}
               \union {orphan[p].generation : p \in {q \in Reqs : orphan[q] # None}}

(* Until a generation is published, one build of it runs at a time: a      *)
(* retry of a cancelled build waits until the abandoned job has stopped    *)
(* (build_index and the owner lock that moves into every job).  Once it is *)
(* published, a call that finds neither its index nor a marker may build   *)
(* it again next to a waiter that took a cancelled publisher's cell over.  *)
(* A call that finds a build marker joins a build whose outcome is still   *)
(* open: after a failure or a stale build the next call retries            *)
(* (finish_failed, invalidate, publish).                                   *)
SingleFlight ==
    /\ \A r \in Roots, g \in Generations :
          g \notin published[r] => Cardinality(BuildsOf(r, g)) <= 1
    /\ \A r \in Roots :
          LET marker == cache.states[r].in_flight
          IN  marker # None => cells[marker.cell] = Open

(* While the project's state asks for a full rebuild, no index built from  *)
(* reused records becomes the retained one, although the flag is read in   *)
(* another mutex section than the publication.                             *)
FullRebuildHonoured ==
    [][\A r \in Roots :
          LET new == cache'.states[r].index
          IN  new \notin {None, cache.states[r].index} /\ RequiresFullRebuild(cache, r)
                  => new.reread]_vars

(* Memory grows only within the budget: when a reservation is granted or   *)
(* an index is retained, everything counted fits MAX_PROJECT_INDEX_BYTES,  *)
(* and no more indexes are retained than MAX_PROJECT_INDEXES.              *)
GrowthWithinBudget ==
    [][LET granted == \E p \in Reqs : At(p, "reserve") /\ req'[p].pc = "flag"
           retained == \E r \in Roots :
                          cache'.states[r].index \notin {None, cache.states[r].index}
       IN  /\ granted \/ retained => (RetainedBytes(cache, EnvOf(None)) <= MaxBytes)'
           /\ retained => IndexCountOK(cache)']_vars

(* Every call is answered unless its client cancels it: no call waits for  *)
(* a cell nobody fills or for an owner lock nobody releases.               *)
EveryCallAnswered ==
    \A p \in Reqs : ~(req[p].pc \in {"idle", "done", "dropped"})
                        ~> req[p].pc \in {"done", "dropped"}

-----------------------------------------------------------------------------
(* RefreshResult.index_rebuilt: "A new index was built from a Maven        *)
(* classpath resolved after the refresh".                                  *)
RefreshResolvesWithMaven ==
    \A p \in Reqs :
        At(p, "use") /\ req[p].kind = "refresh" => req[p].index.resolved >= req[p].since

(* require_full_rebuild: "Makes the project's builds read every archive    *)
(* again until one of them is published".                                  *)
RefreshedProjectIsReread ==
    [][\A p \in Reqs :
          At(p, "publish") /\ req'[p].pc = "persist" /\ Root(p) \in owed
              => req[p].index.reread]_vars
=============================================================================
