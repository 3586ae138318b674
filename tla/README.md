# A verification of maven-mcp in TLA+

`maven-mcp` is an MCP server, written in Rust on Tokio, that answers questions
about Maven projects: it runs Maven, resolves the classpath of a project, reads
the archives on it into an index and serves searches of that index. This
directory holds TLA+ models of the parts of the server where several calls,
background jobs, processes and files change at the same time, and of the
algorithms that read POMs, archives and Maven's output; the TLC runs that check
them on small instances; and proofs checked by TLAPS.

Paths such as `src/server.rs` below are relative to the repository root.

## 1. Inventory

| Component | State it keeps | Operations that change it | What makes it correct |
|---|---|---|---|
| Heavy-work pool, `src/blocking.rs` | two semaphores, a shutdown token with a child per job, the closures on blocking threads | `run`, dropping a `run` future, `shutdown` | permits are neither lost nor duplicated; the load limits hold although closures outlive their requests; nothing starts or is delivered after cancellation; nobody starves |
| Project cache, `src/project_cache.rs` | per project: generation, runner, index, build marker, full-rebuild flag; released memory, reservations, ticks | `runner`, `install_runner`, `discard_project`, `lookup_index`, `reserve`, `publish`, `finish_failed`, `invalidate_*`, `require_full_rebuild`, eviction in `enforce` and `reserve` | a build that began before an invalidation never publishes; memory stays within its limits |
| Index requests and refresh, `src/server.rs` | the local variables of each call, the build cell and owner lock shared by the calls of one build | `query`, `index_for`, `project_runner`, `build_index`, `refresh_project`, `invalidate_project`, cancellation of a call at any await | one build per generation; a refresh is answered with an index built after it; every call is answered |
| Large tool results, `src/server/result_store.rs`, `src/server/response_limit.rs` | queue of results, running total, identifier counter, process key | `insert`, `get`, expiry, eviction, `fit_page`, `decode_cursor` | the pages of a result concatenate to it; an identifier never names another result; results are lost only to age, memory and restarts |
| Persistent index cache, `src/index_cache.rs`, `src/index_cache/*.rs`, `src/index/persisted.rs` | database file, lock file, epoch; records of archives, classpath manifests | open, recover, write, evict, forget; restore and encode records; walk the POMs behind a classpath | two processes never delete each other's database; a record describes the archive that has its stamp, a manifest the classpath Maven would give now |
| Maven runner, `src/project.rs`, `src/project/run_trace.rs` | execution permit, child process, bounded output | run, timeout, cancellation, cleanup; reading of models, trees, classpaths and reports | one Maven at a time; no process of the group outlives its run; success means success; a run returns only its own files; what is read is what Maven meant |
| Runtime status, `src/runtime_stats.rs` | a status file per process | publish, throttled flush, close, removal of dead files | the last state is published; a live file is never removed |
| Life cycle and tool wrapper, `src/main.rs`, `src/server/tool_call.rs` | phase of the process, the service, running calls and their tokens | start, call, cancel, EOF, signal, exit | EOF, signals and cancellations take effect, also while heavy work is stuck |
| Index and queries, `src/index.rs`, `src/index/declaration_source.rs` | none (functions of archives that do not change) | | answers are true, complete or marked incomplete, and bounded |
| Configuration, redaction, log safety | none | | |
| Log analysis, benchmarks, evaluation fixtures | none shared | | |

**How they interact.** A tool call runs as one Tokio task. It asks the project
cache for a runner and an index inside short sections of one mutex. When there
is no index it creates or joins a *build cell* (a `OnceCell`): one of the calls
that wait on the cell initialises it by running the build, the others wait for
its outcome. The build consists of awaits (the owner lock, Maven, and several
closures on the heavy-work pool) between mutex sections. The cache knows calls
only through reference counts: a released index counts until nobody holds it,
a reservation until it is dropped, a marker until its cell is gone.

**What is hard.** A call can be cancelled at any await. Its future vanishes,
but the closure it had handed to a blocking thread runs on with everything that
was moved into it. Meanwhile other calls refresh, invalidate, evict, edit the
project's files, and take over the cell. All values read in one mutex section
are stale in the next one; the code defends itself with generation numbers,
stamps that are compared again, and an owner lock that moves into every job.
Stamps are modification times, which are coarse, and what is stored under them is
shared by several server processes with different environments. The readers of
POMs and of Maven's output meet circular references, cut output, names that
differ in case only and files of earlier runs, and must not pass a part for the
whole.
`PROJECT.json` lists these hazards at their lines, with the properties that
watch them.

## 2. Modules

| Module | Models | Notes |
|---|---|---|
| `WorkPool` | what `src/blocking.rs` promises | abstract: no futures, threads, tokens or permits |
| `HeavyWork` | `src/blocking.rs` | one action per poll, closure step, drop and shutdown; implements `WorkPool` |
| `ProjectCache` | `src/project_cache.rs` | operators from a cache value to a cache value |
| `IndexService` | the handlers of `src/server.rs` and the stored classpath | composes calls, jobs, cells, disk and `ProjectCache` |
| `ResultStore` | `src/server/result_store.rs`, `src/server/response_limit.rs` | store, pages and the clients that read them |
| `CacheRecovery` | opening and recovery in `src/index_cache.rs` | several processes, the lock file and the epoch |
| `StoredIndex` | records and manifests in `src/index/persisted.rs`, `src/index_cache.rs`, the build in `src/index.rs` | several servers, one database, a coarse clock |
| `ModelInputs` | `src/index_cache/model_inputs.rs`, `src/index_cache/maven_environment.rs` | the walk over POMs, the variables in the key |
| `RuntimeStatus` | `src/runtime_stats.rs` and its use in `src/server.rs` | one status file, the processes that share its PID, the readers |
| `MavenRunner` | running Maven in `src/project.rs` | permit, child, process group, deadlines, cancellation, the files exchanged with Maven |
| `ServerLife` | `src/main.rs`, `call_tool` in `src/server.rs`, `src/server/tool_call.rs` | uses `WorkPool` for heavy work |
| `IndexQueries` | questions to an index in `src/index.rs` | one behaviour per index and question |
| `MavenOutput` | readers in `src/project.rs`, identities in `src/index.rs` | one behaviour per text or directory |
| `HeavyWorkProofs`, `IndexServiceProofs`, `ResultStoreProofs`, `StoredIndexProofs`, `MavenRunnerProofs` | | the proofs of one module each |
| `UserFilesProofs` | | the proofs of `CacheRecovery` and `RuntimeStatus` |
| `QueriesProofs` | | the proofs of `IndexQueries`, `MavenOutput` and `ModelInputs` |
| `DataLemmas` | | sums, sequences, induction: what the other proofs cite |
| `MCIndexService`, `MCResultStore`, `MCStoredIndex`, `MCModelInputs`, `MCIndexQueries`, `MCMavenOutput` | | constants, inputs and symmetry for TLC |
| `MCUserFiles`, `MCMaven`, `MCQueries` | | run several modules that do not interact in one instance: a behaviour is one of one of them, the others stay in their initial states |

Definitions whose comment begins with "Mutant" are plausible mistakes in the
definition that follows them. No specification uses them; replacing the
definition by its mutant makes TLC report the property that `PROJECT.json`
pairs it with, which shows that the property depends on the code.

### WorkPool and HeavyWork

A job is one call of `HeavyWork::run`. `pc` is where its future is, `thread`
what its closure does. `waiting` is the future inside the biased `select!`;
`polling` is the moment between the two branches of one poll, in which another
thread may still cancel the token. `Acquire` moves both permits into the
closure, where they stay until it returns, whatever happens to the future.
`Drop` is the cancellation of the request: it may happen at an await
(`waiting`, `joining`), never inside a poll. The Tokio semaphore is external
and modelled from its use: first in, first out, a newcomer does not overtake,
and a dropped waiter leaves the queue. Checkpoints inside a closure
(`is_cancelled`, `checkpoint`) are the closure's freedom to return early.

`WorkPool` says the same without any of this: a job is accepted while there is
room, begins only while it is wanted and a place is free, leaves, ends, and is
answered once. `HeavyWork` maps a job to its `Place`, which the closure keeps
after the future has gone. `ServerLife` builds on `WorkPool` alone.

### ProjectCache and IndexService

The cache is a value `[states, released, next_generation, lru]`. Every method
is an operator on it, and `IndexService` applies the methods of one mutex
section in one step. What the code sees through `Weak` and `Arc` counts is
passed as a record: the objects that are held, the cells that are live, and the
bytes reserved. Ticks are reduced to the order they induce.

A call is a record of its handler's local variables and a program counter with
one value per mutex section or await:

```
query:   runner -> [discover -> install ->] lookup -> validate -> use -> done
                                            lookup -> cell -> (own build | read outcome)
build:   owner -> resolve -> [maven ->] stamp -> reserve -> flag -> build ->
         verify -> publish -> persist -> recheck -> [unpersist ->] outcome in the cell
refresh: refresh -> forget -> runner ... (as a query; the index must be rebuilt)
maven:   runner -> running -> invalidate -> forget -> done
```

`Cancel` removes the call at an await. If it had a blocking job, `orphan`
records what that job owns (owner lock, reservation, index or runner) and what
it will still write; the same action may also drop a job that had not started.
`OrphanEnds` is the end of such a job. A cell whose initialiser vanished is
taken over by another call that waits on it, as `OnceCell::get_or_init` does.

A project's files are two version numbers: `pom` for everything a
`ProjectFingerprint` stamps and `artifacts` for the classpath. Reading them
and comparing them again are separate steps, with edits possible in between.
`epoch`, `published` and `owed` are history variables: they count invalidations
and remember publications, and no action reads them to decide anything.

### ResultStore

A text is a sequence of characters that differ in their UTF-8 length and in
their cost once escaped, so that offsets (bytes) and page limits (cost) do not
coincide. A client makes one call; a result that fits is returned, a larger one
is stored and read page by page with the cursors the server returned, while
other clients store results, the clock moves and the server restarts. A client
may ask with the wrong project, which must find nothing. All fixed bytes of a
response (envelope, identifiers, cursor) are part of the two budgets.

### CacheRecovery

Every server process of a user opens the same SQLite file. `open` and `write`
find a damaged file under one lock and replace it under another, so several
processes can hold the same diagnosis. A database here is a number: which file
it is. `damaged` says which files are corrupt or of another format; SQLite's own
transactions are atomic and left out. The steps of a process are those between
which another process or a crash can come: reading the epoch, taking the shared
lock, opening, taking the exclusive lock, deleting, emptying the lock file,
writing the epoch, opening again. `tries` separates the single attempt of most
operations from the two of `write`, whose recovery uses the epoch it read before
its first attempt (`outer`) and not the one of the inner `open` (`observed`).
`Interrupt` is a crash or an I/O error; `lost` remembers that one came between
the deletion and the new epoch.

### RuntimeStatus

A status file is named after a PID, so the model follows one PID and the
processes that get it one after the other. A file holds the process that wrote
it and the version of the cache it describes. Counting a hit and recording it in
the publisher are two steps of a call, each under a mutex of its own; the
scheduled write is a third. A reader reads, probes `/proc`, moves the file away,
reads it again and links it back if it belongs to somebody else, one step each,
and may be killed in between. A write may fail, a process may end with or without
its destructors. `revived` is a history variable: a reader has linked the status of
an earlier process back while a later one runs (section 6).

### StoredIndex

A file has a content and a modification time from a clock that lags behind the
system's by less than `Granularity`, so that two edits can leave the same stamp.
A build of a server goes through the steps of `try_build_index`: reuse a
manifest or run Maven, which reads its files one by one while they are edited;
stamp the inputs; stamp the artifacts; for each archive restore its record or
read it in three steps (preflight, entries, class facts) and encode it; verify;
write records and manifest with their eviction. It may be cancelled at any
point, and a job that was cancelled inside an archive goes on to encode or not
as the code does. Contexts (the keys of manifests) and the value of a referenced
variable differ between servers.

### ModelInputs

A POM is what the walk reads of it: parent, relative path, imports, imports in
profiles, literal and encoded references to variables, whether it has entities
or cannot be read. `Visit` handles one pending POM, `GiveUp` is every reason to
return `None`. Next to it stands the definition of what Maven may read
(`MavenReads`, external): the least set of POMs that is closed under every
choice that model building might make.

### IndexQueries and MavenOutput

Inputs are records with a field `op`; each behaviour picks one and ends with its
answer. Loops whose state passes from round to round are steps (hierarchy search,
module discovery, tree lines, wildcard matching, parent POMs); the others are one
operator. Every property compares the answer with a definition that knows
nothing of the algorithm: chains in a graph, the class a JVM loads, the tree that
Maven printed, a recursive definition of matching, the least set of directories
that modules lead to.

| `op` | Code | Property |
|---|---|---|
| hierarchy | `search_type_hierarchy` | `HierarchyComplete` |
| content, source | `search_jar_content`, `search_source` | `SearchesHonest` |
| sources | `source_jar_candidates`, `source_jar_stamp_paths`, `source_jar_of` | `SourcesPaired` |
| declaration | `get_declaration_source`, `read_source` | `DeclarationsAccounted` |
| api | `effective_class_entries`, `compare_artifact_api` | `ApiDiffExact` |
| tree | `parse_dependency_resolution`, `explain_dependency_resolution` | `PathsAreTrue` |
| depths | `parse_dependency_tree` | `DepthsAreTrue` (violated) |
| pattern | `wildcard_matches` | `WildcardIsGlob` |
| classpath | `parse_classpath`, `parse_classpath_paths`, `build_classpath_paths` | `ClasspathTrue` |
| coverage | `read_jacoco_reports`, `coverage_gaps` | `GapsAreWorst` |
| modules | `discover_project`, `discover_module` | `ModulesOnce` |
| identity | `scoped_identity`, `inherited_properties`, `interpolate`, `reactor_identity` | `IdentityTrue` |
| tests | `run_focused_test`, `report_snapshot`, `updated_reports`, `parse_test_reports`, `from_run` | `FocusedTestTrue` |

### MavenRunner

A run is one call that starts Maven: a plain one, a focused test or an effective
POM request. It waits for the server's only permit (a Tokio semaphore, first in,
first out), prepares, spawns its child with up to `MaxAttempts` tries while the
executable is busy, and then awaits the child's exit and the end of its pipes
under a deadline. After either it kills the process group; after a timeout exit
and pipes have one more second (`CleanupDeadline`).

The child starts processes of three kinds, because each defeats a different
part of the cleanup: one in the group that writes to the pipes, one in the group
that does not (and so survives the end of the pipes), one that left the group and
keeps the pipes open (and so survives the kill). A killed process takes no step but dying. `Cancel`
drops what the call owns from the inside out, as Rust drops the nested futures:
the guard that kills the group, the effective POM file, the permit. The reports
and the effective POM file are modelled as the run that last wrote them.
`cut` and `tested` are history variables.

When a run ends its variables are reset, and processes that were killed or left
the group are forgotten; what a mistake would leave behind (an active process of
the group) is kept.

### ServerLife

`phase` follows `main` and `run`: starting, serving, stopping (after a signal,
with five seconds for the service to end), grace (after the session, with two
seconds for blocking threads), exited. A call is its trace and its token; heavy
work is a job of `WorkPool`, which may stay at work for ever. EOF and a signal
may come at any time and together. The STDIO service is rmcp's and external.

## 3. Runs

| Run | Instance | What it shows |
|---|---|---|
| `heavy_work` | 4 jobs, 1 running, 2 queued | the pool implements `WorkPool`; accepted jobs are answered and a shutdown drains the pool |
| `index_one_project` | 2 calls (query or refresh), 1 project, 1 edit, 2 attempts, cancellations and failures | a retained index, and one that a refresh serves, began after the last invalidation; an index matches its stamps; the full-rebuild flag is honoured |
| `index_shared` | 2 calls (a query or refresh, a query or Maven run), 2 projects of sizes 1 and 3, 5 bytes, 1 index, 1 runner, cancellations and failures | one build of an unpublished generation at a time; memory grows only within its limit; every call that is not cancelled is answered |
| `results` | 3 clients, 2 projects, 4 texts, 2 entries, 8 bytes, time to live 1, 1 restart | pages concatenate; nothing is lost without a reason; reading a result ends |
| `user_files` | 3 processes, 3 operations, 2 damages; 3 processes with one PID, 2 readers, 3 changes; crashes anywhere | a good database is not deleted (unless a recovery was cut short), nobody waits for ever; a live status is at its path or in quarantine (unless an older one was put back), changes and hits are published |
| `maven_runner` | 2 runs of any kind, 2 spawn attempts; 2 calls on a pool of one place | one Maven at a time, success is true, only own reports and output, the last test result is the latest, every run ends; the process stops and cancelled calls are answered |
| `stored_index` | 2 servers, 1 POM, 1 settings file, 1 archive, 4 time units, 2 edits, 2 builds, 1 row | records and manifests with current stamps are true; what was reused is what is there |
| `queries` | the inputs of `MCModelInputs`, `MCIndexQueries`, `MCMavenOutput` | the properties of section 2, `InputsComplete`, `SameKeySameVariables`; all loops end |
| `refresh_reuses_classpath`, `refresh_loses_full_rebuild`, `recovery_deletes_new_database`, `dependency_depth` | 1 or 2 projects, 2 calls; 3 processes; small trees | see section 6 |

**Bounds, and why they are enough.** In the pool, capacity 3 with 4 jobs gives
refusals, a queue of two behind a running closure, and a dropped waiter in front
of another. For the index, two calls are the smallest number in which one acts
between any two steps of the other, and one edit falls between any two reads of
the same file. Five bytes for two projects are less than their runners, indexes
and reservations together, so every refusal and eviction path is taken. Two
attempts reach both the retry and the end of the retries. In the result store
three clients on two entries cause evictions; 8 bytes admit two results of one
page but not one of them together with a longer one, so that both the count and
the bytes evict; a time to live of 1 on a clock to 1 has entries just before and
at their end, and an old entry in front of a young one; the texts include one
refused by the store and pages that end exactly at the budget. Three processes
are one that recovers, one that holds the same diagnosis and one that creates the
new database; with the second damage the successor is replaced too. Two readers
and two processes on one PID are enough for a reader to take the second process's
file for the first one's while another reader does the same; with a third process
the file that is put back may already be an old one. `MaxVersion` gives
the first process three changes or hits, which are needed for a hit that is recorded
while a write that covers two others is scheduled, and each later process one less.
Two Maven runs show every interference of a run with its successor,
since the permit makes all earlier ones alike. Two calls on a pool of one place
are one that is stuck and one that waits or is refused.

In `stored_index`, a settled age of 2 over a granularity of 1 and a reading time
of 1 is the tightest case that the code's constant allows; two edits are one
before and one after a stamp within one tick, and two builds are one that stores
and one that reuses. One row makes records and manifest evict each other. In
`queries`, POMs that refer to each other in circles, through relative parents and
through both versions of an artifact, are included, and `MaxFiles` is smaller
than the number of POMs; hierarchies are all sets of eight edges that contain
cycles, a diamond, two archives and a case collision; texts and directories
reach every limit (`MaxResults`, `MaxExplained`, `MaxDepth`, `MaxParents`,
`MaxNesting`) from both sides.

`MaxOperations`, `MaxDamages`, `MaxInstances`, `MaxVersion`, `MaxEdits`,
`MaxBuilds`, `MaxTime` and `MaxRestarts` are bounds of the model and not of the
code. Each call is made once, so all counters stay bounded without further
guards. `ReadTime` is an assumption about the environment: the longest time from
stamping an archive to encoding its record (section 6).

Symmetry under permutations of calls or servers is used in safety runs only.
Deadlock checking is off in all runs: a server without further calls rightly does
nothing, and a question that is answered is the end of its behaviour.

## 4. Fairness

- `HeavyWork`: weak fairness of every future's polls and of every closure's
  steps. Tokio polls a woken future and runs spawned closures; closures contain
  finite loops with checkpoints. Nobody is obliged to call, cancel or shut down.
- `IndexService`: a call that can take a step takes one, and orphaned jobs end.
  Maven runs have a timeout, so the await of Maven ends too. The condition is
  weak fairness of `Advance(p)`, with the state predicate `CanAdvance(p)` in
  place of `ENABLED Advance(p)`, which TLC evaluates far faster. The owner lock
  and the cell are not assumed to be fair among waiters.
- `ResultStore`: a client that is reading asks for the next page, written in the
  same way. Nothing is assumed about time or restarts.
- `CacheRecovery`: a running operation takes the step it can take. File locks are
  granted when they are free; no order among waiters is assumed, and since
  operations are finite in number none is needed.
- `MavenRunner`: futures are polled and timers fire. Nothing is assumed about
  Maven, its processes, cancellation or read errors, and not even that killed
  processes die, which the cleanup deadline is for.
- `RuntimeStatus`: calls report their changes and hits, and a scheduled write runs
  (a Tokio timer). Nothing is assumed about readers, closing or exits.
- `ServerLife`: woken futures are polled, both timers fire, and rmcp notices EOF.
  Heavy work need not end, and the service need not end after a signal.
- `MCQueries`: the loops go on. They are sequential code.
- `MCUserFiles`, `MCMaven`: the conditions of the composed modules. In the initial
  state in which the other subject stays, none of its fair actions is enabled, so
  the conditions exclude nothing.

## 5. Proofs

`HeavyWorkProofs` proves, for every finite set of jobs, every `Running > 0` and
every `Queued`:

| Theorem | Statement |
|---|---|
| `TypeCorrect` | `Spec => []TypeOK`, with the permit counts between zero and their limits |
| `SlotsAlwaysAccounted` | every permit is free or owned by one future or closure |
| `LoadAlwaysBounded` | no more closures work, and no more jobs are in the pool, than allowed |
| `NeverDeliveredAfterCancellation` | no value reaches a dropped request or arrives after a shutdown |
| `NeverStartedAfterShutdown` | no closure begins its work after a shutdown |
| `PoolImplemented` | `Spec => ImplementsPool`: every step is a step of `WorkPool` or a stutter |

The assumptions are the two of `HeavyWork` (`JobsAssumption`,
`LimitsAssumption`); the configuration reads both limits with `positive_env`, which rejects zero.
The inductive invariant (`IInv`, theorem `Inductive`) adds two facts to the type
and the accounting:

- `ClosureAfterQueue`: a future still in the queue has no closure, and while a
  closure runs its future is joining or dropped. Without it a step could count
  one job's permit as the future's and as the closure's.
- `TokensCancelled`: after a shutdown every job that is not new and not answered
  is cancelled, and so is every dropped one. Without it nothing follows from the
  token that `StartWork` and `Join` look at.

The accounting is proved once for each of the shapes a permit change can have
(none, admission taken, admission returned, running taken, both released; lemmas
`PermitsKept` to `PermitsReleased`); the step of each action then only says which
shape it is.

The refinement needs one more invariant, `Reasons`: the converse of
`TokensCancelled`, that a job is cancelled only after a shutdown or a drop. The
abstract pool closes and loses requests, but has no tokens; without `Reasons` a
closure could be skipped for no reason that the abstract pool knows. The lemma
`InsideAndWorking` carries the accounting over: the jobs inside the abstract pool
are the owners of admissions, which turns "no permit is free" into "the pool is
full". `StepRefines` then has one step per action.

`ResultStoreProofs` proves, for any texts, lengths and costs of characters, budgets,
clients, restarts and any time:

| Theorem | Statement |
|---|---|
| `PagesConcatenateAlways` | `Spec => []PagesConcatenate`: what a client has read is a prefix of its result, and all of it at the end |
| `LostOnlyForAReasonAlways` | `Spec => LostOnlyForAReason`: a result is lost to its age, a restart or a newer result that does not fit beside it and its successors |
| `StoreBoundedAlways` | neither limit of the store is exceeded; the running total is the sum of the entries |
| `NoReadFailsAlways` | no issued cursor is refused and no page is empty |

The inductive invariant (`IInv`, theorem `Invariance`) has three parts. `StoreOK`:
the entries are typed and within the limits, and `retained_bytes` is their sum. `ClientOK`: the cursor of a client is
the byte length of a proper prefix of its text, and what it has put together is that
prefix (`HasRead`). `OwnIds`, `IdUsed` and `NamesItsOwn`: an identifier in the store or in a client's
hands is older than the next one, and an entry with a client's identifier holds its
text. The step of a page needs that a byte offset belongs to one character boundary at
most (characters have a positive length, so sums of prefixes grow strictly) and that
`PageEnd` is after its start (a page has room for any one character,
`StoreAssumption`; the code refuses other limits in `validate_response_limit`).
A loss by eviction is explained by the minimum in it: `MakeRoom` evicts the
fewest entries that suffice, so the last one evicted did not fit with its successors.

`UserFilesProofs` proves, for every set of processes and any number of
operations, damages and crashes:

| Theorem | Statement |
|---|---|
| `TypeCorrect` | `Spec => []TypeOK` |
| `GoodDatabaseAlwaysKept` | `Spec => GoodDatabaseKept`: while no recovery was cut short between deleting and recording, no step removes or replaces a database that is not damaged |

`GoodDatabaseKept` is about one step of one process, but what makes the step right
is what others did since the diagnosis. The inductive invariant (`RecoveryInv`, theorem
`RecoveryInvariant`) therefore consists of the type, `LockOK` (whoever holds the exclusive
lock holds it alone), `ConnectedToFile` (a connected process has a file) and, while
nothing is `lost`,

- `EpochsOld`: no epoch a process remembers is later than the one in the lock file,
  or, while a recovery rewrites that, than the one it recovers from;
- `DiagnosisHolds`: outside such a recovery, a process about to recover whose epoch
  is still the present one has diagnosed the file at the path, and a first attempt
  of `write` under the present epoch is connected to that file;
- `ResetIsRight`: whoever is about to delete has the present epoch and a damaged
  file in front of it.

The last three really need the condition, which is the finding in section 6.

`MavenRunnerProofs` proves, for every set of runs, all kinds and any
`MaxAttempts > 0`:

| Theorem | Statement |
|---|---|
| `OneMavenAlways` | a process of a run's group that was not killed belongs to the holder of the permit |
| `SuccessAlwaysTrue` | success is reported only for a success in time with complete output |
| `AlwaysOwnFiles` | reports and effective POMs returned are the run's own |
| `LastTestAlwaysLatest` | the saved test result is that of the test that parsed its reports last |

The inductive invariant says who holds the permit at which step (`PermitOK`), that
a run before its child and after its end owns nothing (`FreshOK`), that a group has
active processes only before the kill (`GroupOK`), that what was collected is final
(`CollectedOK`: in particular the end of the pipes, which no later fork can undo
because the child is dead), that the files in the project are older than the run or
its own (`FilesOK`) and who may be about to save (`TestedOK`). `FilesOK` and
`GroupOK` depend on each other through the permit, which is why no property is
inductive alone. The queue's type is left to TLC: nothing else depends on it.

`IndexServiceProofs` proves, for any number of calls, projects, attempts and edits
and any limits of the cache:

| Theorem | Statement |
|---|---|
| `NoStaleIndexHolds` | a retained index, and one that answers a refresh, began after the invalidation |
| `FreshAnswersHolds` | an index that answers a call began after everything that was invalidated before the call |
| `IndexMatchesItsStampsHolds` | a retained index was read from what its stamps say |
| `SingleFlightHolds` | one build of an unpublished generation at a time; a marker's cell is open |
| `FullRebuildHonouredHolds` | `Spec => FullRebuildHonoured`: no publication from reused records under the flag |
| `GrowthWithinBudgetHolds` | `Spec => GrowthWithinBudget`: a granted reservation or a retained build leaves bytes and indexes within their limits |

The operations of `ProjectCache` come first. All but `Publish` and the creation of
a marker make the cache `Weaker`: a project's state stays, loses its index or a
marker without a live cell, is dropped, or gets a generation above all earlier ones.
The relation is transitive, so the invalidations, evictions and reservations that a
handler calls one after the other are one fact. The inductive invariant (`IInv`,
theorem `InvariantHolds`) then has two halves.

- `PlaceInv`: where every call and every abandoned job stands with respect to its
  cell. Who shares a cell shares root and generation, and one of them at most has its
  owner lock (`SameCell`, `OneOwner`); until a generation is published, all who wait
  for it in an open cell are in the same one, which is the marker's while the
  generation is current (`OneCell`, `Marked`); a marker stands for an open cell that
  nobody publishes from (`MarkersOK`). `SingleFlight` follows; the property alone is
  not inductive, since it does not say in which cell the next call would build.
- `CallInv`, `StateInv`, `SharedInv`: what a build knows. As long as its generation
  is current it began in the current epoch and rereads if the state asks for it; its
  stamps are not newer than what it read; who shares a cell with a builder was not
  invalidated after the build began. That generations are never given twice
  turns "the generation is current" into "nothing was invalidated since".

`GrowthWithinBudget` has an invariant of its own next to `IInv`. `Books`: every
retained index is in the order of use, and what is recorded as released is finite and
has a size; `JobsReserve`: what an abandoned job reserves is a number. Without the
first the count could stay above its limit, since `enforce` only finds victims by their
tick: when its loop ends, the count fits, or nobody but the protected project has an
index (`IndexLoop`, with `max_indexes > 0`). Every operation of the cache keeps the
books (`BooksKept`, which is transitive like `Weaker`). The step itself is arithmetic on sums:
the check was made with the reservations of the others, and after it the call holds
a reservation of just the bytes that were added, or gives up its own (`StepReserves`,
`BytesBeside`). What the theorem does not promise is that everything in memory is
counted; section 6 names the index that is not.

`FreshAnswers` is stated in `IndexServiceProofs` and in no run: it needs a call that
builds, one that invalidates and one that asks afterwards, and in runs of
two calls it could not fail. The proof needs no more than `CallInv` says: `since`
is the epoch in which a call arrived, and a retry keeps it.

The assumptions are those of the modules: `CacheAssumption`, `ServiceAssumption` and
`NoneAssumption`, that the absent value is no cell and no marker.

`StoredIndexProofs` proves, for any number of servers, files, edits, builds and rows:

| Theorem | Statement |
|---|---|
| `RecordsTrueHolds` | a stored record with the archive's stamp describes the archive |
| `ReusedIsCurrentHolds` | what was taken from a record is true of the archive whose stamp was verified |
| `ManifestsTrueHolds` | a classpath that would be reused is what Maven would select |

A file that is written from now on gets a time not before the file system's clock,
so a stamp before that clock is never given again. The invariant (theorem
`InvariantHolds`) says that every stored stamp is before the clock and that the file
that still has it is the one described (`RowTrue`, `Selects`). During a build this is
not yet so: there, what was read is true of a file that still has its stamp if that
was older than the moment of stamping by one tick (`Reading`), or than the start of
Maven (`Resolving`), and the question whether the stamp is settled, asked before
anything is stored, gives that distance. `SettledAssumption` (`ReadTime + Granularity
<= SettledAge`) is used there only, for a manifest just as `Granularity <=
SettledAge`. The code cannot check it: it says that a record is encoded less than
`SETTLED_AGE` after its archive was stamped. The others are `TimeAssumption` and `FilesAssumption`, which say what the constants are.

`UserFilesProofs` also proves `LiveStatusKeptHolds`, `StatusSpec => []LiveStatusKept`,
for any number of processes on one PID and any number of readers. The invariant (`StatusInv`) is
that what a reader is about to delete was written by a process other than the one
that runs (`Removable`: it probed the PID while none ran, and every later process has
a new number), and that, while no old status was put back, the path holds the running
process's status or is empty and that status is in a quarantine. A reader that has
moved a status away never forgets it before it has linked it back or found another
one at the path, and that one is the running process's. `NoStatusAssumption` says that
the absent value is no status.

`QueriesProofs` proves `InputsAlwaysComplete`, `Spec => []InputsComplete`, for
any POMs in any repository and any limits, from `PomAssumption` (reactor POMs lie
outside the repository, selected ones inside) and `WorldsAssumption` (the shape of
a POM's text). The inductive invariant (theorem `WalkInvariant`) is that every
visited POM is stamped and is either pending or `Handled`: its references are
known, visited and recorded. When nothing is pending the visited POMs are closed
under everything model building may follow (`VisitedIsClosed`), and `MavenReads` is
the intersection of all such sets. No induction over paths is needed, and circles
are no special case; that the walk ends is TLC's part (`AllEnd`).

`SameKeySameVariablesHolds`, `Spec => []SameKeySameVariables`, rests on it: every
variable Maven sees is one of the launcher, of the configuration or of a POM that was
walked (`SeenIsCovered`), and the key or the recorded references fix the value of each
(`SameEnvironment`, `SameReferenced`). `NamesAssumption` says that what is referenced
is a name.

For every question to an index and for every text or directory, `QueriesProofs`
proves:

| Theorem | Statement |
|---|---|
| `HierarchyCompleteHolds` | `QuerySpec => []HierarchyComplete` |
| `DeclarationsAccountedHolds` | `QuerySpec => []DeclarationsAccounted` |
| `SearchesHonestHolds` | `QuerySpec => []SearchesHonest` |
| `SourcesPairedHolds` | `QuerySpec => []SourcesPaired` |
| `ApiDiffExactHolds` | `QuerySpec => []ApiDiffExact` |
| `ModulesOnceHolds` | `OutputSpec => []ModulesOnce` |
| `ClasspathTrueHolds` | `OutputSpec => []ClasspathTrue` |
| `WildcardIsGlobHolds` | `OutputSpec => []WildcardIsGlob` |
| `FocusedTestTrueHolds` | `OutputSpec => []FocusedTestTrue` |
| `GapsAreWorstHolds` | `OutputSpec => []GapsAreWorst` |
| `PathsAreTrueHolds` | `OutputSpec => []PathsAreTrue` |

- The hierarchy: a class that was reached is `Covered`, its children have been
  examined, are under examination, or it ends a path in the queue. An edge is passed
  over if its key was seen or if it closes a cycle (`PassedOver`); in the second case
  the path itself is the cycle (`BackEdge`), which is why the property may speak of
  cyclic hierarchies as a whole. With an empty queue the covered classes contain
  everything reachable (`AllVisited`), again without induction over paths.
- Declarations: an answer is one step, and the three lists exclude each other because
  an archive has one name (`JarsAssumption`; in the code, its position in `jars`).
- Searches: the scan is a fold over the archive's entries, and the proof is an
  induction on it. After `n` entries the results are the hits of those entries, or
  the scan is incomplete because the limit was reached or a byte was not
  read. `SearchAssumption` describes an archive: sizes are numbers, and a match
  ends where its entry does at the latest.
- Pairing: `SourceJarCandidates` and `SourceJarOf` are compared case by case for the
  classifiers (`SourcesAssumption`: the archives of a classpath are there, and sources among
  them have one of the names the code knows). An
  archive of sources that is among nobody's stamps documents nobody.
- The API difference: the entry selected for a class is the first of the highest
  version that competes (`SelectedEntry`), by induction over the entries;
  `EntriesAssumption` says that an archive has one entry of a name.
- Modules: a directory that was reached was entered or is on the stack of calls, and
  a call is not deeper than the number of directories entered, so that the
  limit is only met if there are more of them. `DiscoveryAssumption` describes
  directories: finitely many, those outside the project and its parents list no
  modules, and every name leads somewhere.
- The classpath: folding over the lines, a line is read as a classpath exactly if a
  marker came before it. `ClasspathAssumption` is the form of what the Maven plugin
  prints.
- Wildcards: the invariant of the loop is that the pattern matches the value if and
  only if the rest of the pattern matches the rest of the value, or the part behind
  the last star matches from a later position on. That earlier stars need not be
  tried again is an exchange argument on `fits`.
- Focused tests: what lies on the disk afterwards is what was there before and not
  deleted, and what Maven wrote (`ReportsAfter`). If the snapshot has every earlier
  report (`AllStamped`), `UpdatedReports` keeps none that Maven did not write; if
  what Maven wrote is later than what it replaces (`WrittenLater`), it keeps all of
  it. `TestAssumption` says only that times are numbers and that a suite counts its
  failing cases; the counts are sums over a finite set.
- Coverage: the list shown is a prefix of a sorted one, so what is left out is not
  worse; comparisons of basis points, which the code rounds down, are turned into
  products. A module has a report if one lies in its directory and it is the
  longest of the directories around it.

- The dependency tree: after the line of node `i`, the path stack is the true path of
  that node (`StackAfter`), and the paths collected are those of the nodes whose lines
  were read (`PathLoop`). A step needs that the ancestors of a node are those of the
  node before it, cut at its parent (`NextPath`), which holds because a tree in
  preorder goes at most one level down per line. `TreeAssumption` says so, and that
  every tree is printed in a text that is complete and legible; of any other
  text the proof shows that the answer does not call itself whole.

**Induction.** The library's induction theorems take an operator as a parameter, which
none of the provers can instantiate. `DataLemmas` therefore derives induction for
sets of numbers from `WFMin`, the least-element principle that the library states for
sets: `SetInduction` says that a set which contains 0 and the successor
of each of its elements contains every natural number. A statement about all `n` is
proved by applying it to `{n \in Nat : ...}`. `PrimitiveRecursion` shows in the same way that
a function defined by recursion over `Nat` exists and satisfies its equation, and
from it follow the facts about sums over sequences and finite sets, folds over the
entries of an archive, and recursive functions such as `fits` and `select`.

Only model-checked:

- all liveness (`AcceptedIsAnswered`, `ShutdownDrains`, `EveryCallAnswered`,
  `ReadingEnds`, `OperationsEnd`, `ChangesArePublished`, `RunsEnd`, `NeverHangs`,
  `AllEnd`): fairness and `ENABLED` are outside the prover's reach;
- `IdentityTrue`: the interpolation of properties in properties, nested to a limit.

## 6. Where the code and its documentation differ

Each of these is a run expected to end in a violation; `PROJECT.json` quotes the
sentences. The properties state what the documentation, a test or the code itself
says is meant; the passing properties next to them state what the code does
guarantee.

1. `refresh_reuses_classpath`: a build that was published before a refresh may
   store its classpath after the refresh has forgotten the stored one. The
   refresh then reuses it and starts no Maven. What holds: the index itself is
   built after the refresh (`NoStaleIndex`).
2. `refresh_loses_full_rebuild`: the flag of a refreshed project that has no
   runner lives in a state that `enforce`, run for another project, drops. What
   holds: `FullRebuildHonoured`, while the state exists.
3. `recovery_deletes_new_database`: a recovery that ends between deleting the
   database and writing the new epoch leaves the old epoch behind. A process that
   had diagnosed the deleted file then deletes its good successor. What holds:
   `GoodDatabaseKept`, and in any case only cached data is lost.
4. `dependency_depth`: `parse_dependency_tree` trims each line before it measures
   its indentation, and the indentation below the last dependency of the root is
   blank. Everything there is reported at a smaller depth. The paths of the other
   reader of trees are right (`PathsAreTrue`).

Further observations are not runs of their own. About requests:

- When the publishing call is cancelled while it persists, a waiter rebuilds in the
  old cell while a newcomer, if it finds no retained index, builds the same
  generation in a new one; `SingleFlight` therefore ends with the publication.
- `publish` replaces the index of a generation that is published twice in this way
  without recording the first as released, so memory still in use is not counted.
- `project_runner` reads the model before it stamps the files, so an edit in between
  leaves an old model under new stamps.
- When the process exits because a time limit is over, a call that started may get
  no finish event in the log (`src/server/tool_call.rs:80`).

About what is stored:

- An input of a classpath that is deleted while Maven runs is stamped as missing,
  and missing counts as settled (`src/project_cache.rs:110`): such a manifest
  describes a classpath that Maven resolved with the file. The same holds for a POM
  of the reactor that is missing when the build starts, appears while Maven reads
  and is deleted again. `ManifestsTrue` makes this exception.
- `RecordsTrue` needs `SettledAssumption`, `ReadTime + Granularity <= SettledAge`: an
  archive whose
  reading takes longer than `SETTLED_AGE` may be rewritten, under the same stamp,
  between its stamping and the question whether it is settled.
- `remove_dead_status_file` deletes what it holds in quarantine when `hard_link` finds
  a file at the path, since then "A newer publication of the replacement is already
  in place" (`src/runtime_stats.rs:363`). The file may also be the status of an older
  process that a second reader has put back, and then the live status is deleted; it
  returns with the next write. `LiveStatusKept` therefore excludes `revived`.
- An entry that `collect_jar_facts` cannot read is left out, and the record is
  stored nevertheless.

About answers:

- Classes whose names differ in case only share their edges in
  `search_type_hierarchy`, and an edge on a cycle counts as visited although it is
  skipped; `HierarchyComplete` therefore promises every class, not every path, where
  there are cycles.
- The sources of an archive with classifier `test` are not paired with it, because
  `documented_classifier` gives their name to the archive with classifier `tests`;
  `SourcesPaired` leaves it out.
- The selected version of an explained dependency is that of the last module which
  selects one; coverage is ordered by whole basis points.
- Every old report counts as this run's when the snapshot before the run fails:
  `report_snapshot` (`src/project.rs:1457`) takes a failed walk for an empty
  directory and a file without readable metadata for one that is not there. A
  report that is rewritten within one tick of the file system's clock does not
  count. `MavenOutput` has all of these cases: the walk before and after the run may
  fail, metadata may be unreadable before and after it, and the new report may have
  the time of the old one. `FocusedTestTrue` promises that no earlier report is
  listed only under `AllStamped`, and that no new one is missed only under
  `WrittenLater`. The repository's `README.md:1493` ("report only their own updated
  test reports") says so of every run; it holds for those whose snapshot worked.
- `NoStaleIndex` counts refreshes and Maven runs, not edits of a POM: an edit may
  follow the last check of the fingerprint (`src/server.rs:1128`), and the next call
  compares it again. `ClasspathTrue` is about the text that was printed; that a Maven
  which failed after printing it is refused (`src/server.rs:955`) is the failing step
  of a build in `IndexService`.
- An artifact named with a known suffix, such as `integration-tests` built without a
  version in its file name, is taken for an output with that classifier, and an
  unknown classifier on such a name for none; `IdentityTrue` promises neither.

## 7. What is not modelled

- The heavy-work pool inside `IndexService`: a blocking job there simply ends,
  fails (which includes a rejection) or is abandoned. In the same way Maven is an
  await that ends or fails there.
- In `MavenRunner`: what Maven prints beyond whether all of it was read; an
  earlier effective POM that cannot be deleted; a process ID that the system
  gives away again between the end of a group and a second kill; reports written
  by processes that left their group, or rewritten within one tick of the file
  system's clock; a snapshot of the reports that fails (the last two are in `MavenOutput`);
  the few instructions a process may execute after SIGKILL.
- Hit, miss and eviction counters and tracing; in `IndexService` also status
  publication, which `RuntimeStatus` models on its own. The build
  status guard is modelled for its effect on markers only.
- In `IndexService`, the records of single archives (a build either reuses records
  or reads every archive) and several server processes; both are in `StoredIndex`,
  which in turn has one build per server and no refresh of the project cache.
- In `CacheRecovery`, the contents of the database and their eviction; servers of
  different versions that each take the other's format for damage; a user who
  deletes the lock file; an epoch of which only some digits were written.
- In `StoredIndex`, the size in a stamp (edits that keep it are the hard case), the
  bytes of a row (each counts one), and files replaced with an older time.
- In `ModelInputs`, where settings and launcher files are found; the bytes of the
  XML budget (files are counted).
- In `RuntimeStatus`, status files without a start time (older versions), a
  liveness that cannot be determined, and two readers with the same quarantine name.
- In `ServerLife`, the transport and rmcp's own tasks; tools other than through
  the heavy work they wait for.
- Of the index: class and member search, references, providers, ranking, and the
  reading of class files and of Java source text (`src/index/declaration_source/`),
  which is lexing and parsing. Of the runner: the arguments it composes, effective
  models, compiler diagnostics.
- Configuration, redaction, log safety, log analysis, benchmarks: sequential,
  without shared state.

## 8. Plan

Done: all modules of section 2.

Next, in this order:

1. An abstract index cache (an index is retained for the current epoch or not at
   all; invalidation ends an epoch) that `IndexService` implements. `IInv` of
   `IndexServiceProofs` has the facts that its proof needs.
2. A proof of `IdentityTrue`.
3. The remaining questions to an index: member search with its ranking, references
   and providers; the bounded output of a run (`read_bounded`).
