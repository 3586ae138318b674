---------------------------- MODULE ProjectCache ----------------------------
(***************************************************************************)
(* The in-process cache of runners and indexes (src/project_cache.rs).     *)
(*                                                                         *)
(* The cache is one value behind one mutex, so every method is a function  *)
(* from the cache to the cache; the steps that take the mutex are in       *)
(* IndexService.  What the cache sees of the world outside the mutex (the  *)
(* reference counts of what it handed out) is passed as a record           *)
(*     e = [held     : the indexes and runners a request or a job holds,   *)
(*          live     : the build cells a request or a job holds,           *)
(*          reserved : the bytes of the reservations still alive].         *)
(*                                                                         *)
(* Ticks are abstracted to the order they induce: `lru` lists the roots    *)
(* used so far, the least recently used first.  A generation number that   *)
(* the code draws and does not store is not drawn here: generations are    *)
(* only ever compared for equality.                                        *)
(***************************************************************************)
EXTENDS Integers, Sequences, FiniteSets, FiniteSetsExt, Functions

CONSTANTS
    Roots,         \* canonical project roots
    MaxIndexes,    \* CacheLimits.max_indexes
    MaxRunners,    \* CacheLimits.max_runners
    MaxBytes,      \* CacheLimits.max_bytes
    RunnerBytes,   \* estimated bytes of a runner
    IndexBytes,    \* estimated bytes of the finished index of each root
    None

ASSUME CacheAssumption ==
    /\ IsFiniteSet(Roots)
    /\ MaxIndexes \in Nat \ {0} /\ MaxRunners \in Nat \ {0}
    /\ MaxBytes \in Nat /\ RunnerBytes \in Nat
    /\ IndexBytes \in [Roots -> Nat]

(* ProjectState::new; generation 0 stands for a root without a state. *)
NewState(generation) ==
    [generation |-> generation, runner |-> None, index |-> None,
     in_flight |-> None, full_rebuild |-> FALSE]

Absent == NewState(0)

EmptyCache ==
    [states |-> [r \in Roots |-> Absent], released |-> {},
     next_generation |-> 0, lru |-> <<>>]

Present(c, r) == c.states[r].generation # 0

(* states.entry(root).or_insert_with(ProjectState::new) *)
EnsureState(c, r) ==
    IF Present(c, r) THEN c
    ELSE [c EXCEPT !.next_generation = @ + 1,
                   !.states[r] = NewState(c.next_generation + 1)]

(* The members of a set of roots in the order of their last use. *)
InOrder(lru, chosen) ==
    LET upto[i \in 0 .. Len(lru)] ==
          IF i = 0 THEN <<>>
          ELSE IF lru[i] \in chosen THEN Append(upto[i - 1], lru[i])
          ELSE upto[i - 1]
    IN  upto[Len(lru)]

(* next_tick stored in last_used_tick *)
Touch(c, r) == [c EXCEPT !.lru = Append(InOrder(@, Roots \ {r}), r)]

(* Mutant: a project that was dropped and came back counts as current. *)
IsKnown(c, r, generation) == Present(c, r) /\ c.states[r].generation >= generation

IsCurrent(c, r, generation) == Present(c, r) /\ c.states[r].generation = generation

(* InFlight::is_live *)
IsLive(s, e) == s.in_flight # None /\ s.in_flight.cell \in e.live

-----------------------------------------------------------------------------
(* prune: released memory nobody holds and markers of cancelled requests.  *)
Prune(c, e) ==
    [c EXCEPT !.released = {x \in @ : x.obj \in e.held},
              !.states = [r \in Roots |->
                  IF IsLive(@[r], e) THEN @[r] ELSE [@[r] EXCEPT !.in_flight = None]]]

ReleaseIndex(c, r, e) ==
    IF c.states[r].index = None THEN c
    ELSE Prune([c EXCEPT !.states[r].index = None,
                         !.released = @ \union
                             {[obj |-> c.states[r].index.obj, bytes |-> IndexBytes[r]]}], e)

ReleaseRunner(c, r) ==
    IF c.states[r].runner = None THEN c
    ELSE [c EXCEPT !.states[r].runner = None,
                   !.released = @ \union
                       {[obj |-> c.states[r].runner.obj, bytes |-> RunnerBytes]}]

Invalidate(c, r, e) ==
    IF ~Present(c, r) THEN c
    ELSE ReleaseIndex([c EXCEPT !.next_generation = @ + 1,
                                !.states[r].generation = c.next_generation + 1,
                                !.states[r].in_flight = None], r, e)

RetainedBytes(c, e) ==
    LET kept == [r \in Roots |-> (IF c.states[r].runner = None THEN 0 ELSE RunnerBytes)
                               + (IF c.states[r].index = None THEN 0 ELSE IndexBytes[r])]
        freed == [x \in c.released |-> IF x.obj \in e.held THEN x.bytes ELSE 0]
    IN  SumFunction(kept) + SumFunction(freed) + e.reserved

-----------------------------------------------------------------------------
(* The eviction loops take victims from a list, least recently used first, *)
(* until a condition holds or the list is used up.                         *)
IndexVictims(c, protect) ==
    LET victims == InOrder(c.lru, {r \in Roots : c.states[r].index # None /\ r # protect})
    IN  [i \in DOMAIN victims |-> <<"index", victims[i]>>]

RunnerVictims(c, protect, e) ==
    LET victims == InOrder(c.lru, {r \in Roots :
                       c.states[r].runner # None /\ ~IsLive(c.states[r], e) /\ r # protect})
    IN  [i \in DOMAIN victims |-> <<"runner", victims[i]>>]

(* evict_least_recently_used_index, evict_least_recently_used_runner: the  *)
(* victims leave in any order, because none is evicted twice.              *)
Evict(c, victims, e) ==
    LET gone(kind) == {r \in Roots : \E i \in DOMAIN victims : victims[i] = <<kind, r>>}
        out == [r \in Roots |->
                  [c.states[r] EXCEPT
                      !.index = IF r \in gone("index") THEN None ELSE @,
                      !.runner = IF r \in gone("runner") THEN None ELSE @]]
        freed == {[obj |-> c.states[r].index.obj, bytes |-> IndexBytes[r]] : r \in gone("index")}
                 \union
                 {[obj |-> c.states[r].runner.obj, bytes |-> RunnerBytes] : r \in gone("runner")}
    IN  Prune([c EXCEPT !.states = out, !.released = @ \union freed], e)

WithinBytes(c, e, extra) == RetainedBytes(c, e) + extra <= MaxBytes

IndexCountOK(c) == Cardinality({r \in Roots : c.states[r].index # None}) <= MaxIndexes
RunnerCountOK(c) == Cardinality({r \in Roots : c.states[r].runner # None}) <= MaxRunners

(* The condition of each loop; `extra` is the size of a new reservation.   *)
Fits(c, e, limit, extra) ==
    CASE limit = "indexes" -> IndexCountOK(c)
      [] limit = "runners" -> RunnerCountOK(c)
      [] limit = "bytes" -> WithinBytes(c, e, extra)

EvictUntil(c, victims, e, limit, extra) ==
    LET after(k) == Evict(c, SubSeq(victims, 1, k), e)
        enough == {k \in 0 .. Len(victims) :
                      k = Len(victims) \/ Fits(after(k), e, limit, extra)}
    IN  IF Min(enough) = 0 THEN c ELSE after(Min(enough))

(* states.retain at the end of enforce *)
Retain(c, e) ==
    [c EXCEPT !.states = [r \in Roots |->
        IF @[r].runner # None \/ @[r].index # None \/ IsLive(@[r], e) THEN @[r] ELSE Absent]]

Enforce(c, protect, e) ==
    LET c0 == Prune(c, e)
        c1 == EvictUntil(c0, IndexVictims(c0, protect), e, "indexes", 0)
        v1 == IndexVictims(c1, protect) \o RunnerVictims(c1, protect, e)
        c2 == EvictUntil(c1, v1, e, "bytes", 0)
        c3 == EvictUntil(c2, RunnerVictims(c2, protect, e), e, "runners", 0)
    IN  Retain(c3, e)

-----------------------------------------------------------------------------
(* runner: the snapshot is c.states[r].runner *)
LookupRunner(c, r) == IF Present(c, r) THEN Touch(c, r) ELSE c

InstallRunner(c, r, runner, e) ==
    LET old == c.states[r].runner
        changed == old # None /\ old.fingerprint # runner.fingerprint
        c1 == IF changed THEN Invalidate(c, r, e) ELSE c
        c2 == ReleaseRunner(Touch(EnsureState(c1, r), r), r)
    IN  Enforce([c2 EXCEPT !.states[r].runner = runner], r, e)

DiscardProject(c, r, e) == Enforce(ReleaseRunner(Invalidate(c, r, e), r), None, e)

InvalidateAfterMaven(c, r, e) ==
    LET d == Invalidate(c, r, e)
    IN  IF d.states[r].runner = None THEN d
        ELSE [d EXCEPT !.states[r].runner.revalidate = TRUE]

RequireFullRebuild(c, r) == [EnsureState(c, r) EXCEPT !.states[r].full_rebuild = TRUE]

RequiresFullRebuild(c, r) == Present(c, r) /\ c.states[r].full_rebuild

FinishFullRebuild(c, r, generation) ==
    IF IsCurrent(c, r, generation) THEN [c EXCEPT !.states[r].full_rebuild = FALSE] ELSE c

InvalidateGeneration(c, r, generation, e) ==
    IF IsCurrent(c, r, generation) THEN Invalidate(c, r, e) ELSE c

(* lookup_index: `fresh` is the identity of the build cell and owner lock  *)
(* that a caller who finds no marker creates.  The caller has a hit when   *)
(* the state still has an index afterwards.                                *)
LookupIndex(c, r, fingerprint, fresh, e) ==
    LET c1 == Touch(EnsureState(c, r), r)
        stale == c1.states[r].index # None /\ c1.states[r].index.project # fingerprint
        c2 == IF stale THEN Invalidate(c1, r, e) ELSE c1
        s == c2.states[r]
    IN  IF s.index # None \/ (s.in_flight # None /\ s.in_flight.generation = s.generation)
        THEN c2
        ELSE [c2 EXCEPT !.states[r].in_flight = [cell |-> fresh, generation |-> s.generation]]

RecordHit(c, r) == IF Present(c, r) THEN Touch(c, r) ELSE c

(* reserve: the cache after the evictions; it succeeds when the bytes fit. *)
Reserve(c, r, bytes, e) ==
    LET c1 == Prune(c, e)
        victims == IndexVictims(c1, None) \o RunnerVictims(c1, r, e)
    IN  EvictUntil(c1, victims, e, "bytes", bytes)

(* Mutant: the bytes are not counted again after the evictions. *)
PublishUnchecked(c, r, index, e) ==
    Enforce(Touch([Prune(c, e) EXCEPT !.states[r].in_flight = None,
                                      !.states[r].index = index], r), r, e)

(* publish for a generation that is still current.  A build larger than    *)
(* the whole budget, or one that does not fit beside what cannot be        *)
(* evicted, is not retained but stays counted while somebody holds it.     *)
Publish(c, r, index, e) ==
    LET c1 == Prune(c, e)
        c2 == [c1 EXCEPT !.states[r].in_flight = None]
        c3 == Enforce(Touch([c2 EXCEPT !.states[r].index = index], r), r, e)
    IN  IF IndexBytes[r] > MaxBytes
        THEN [c2 EXCEPT !.released = @ \union {[obj |-> index.obj, bytes |-> IndexBytes[r]]}]
        ELSE IF WithinBytes(c3, e, 0) THEN c3 ELSE ReleaseIndex(c3, r, e)

FinishFailed(c, r, generation, e) ==
    Enforce(IF IsCurrent(c, r, generation)
            THEN [c EXCEPT !.states[r].in_flight = None] ELSE c, None, e)
=============================================================================
