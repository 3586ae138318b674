------------------------- MODULE IndexServiceProofs -------------------------
(***************************************************************************)
(* The safety of the index requests for any number of calls, projects,     *)
(* attempts and edits and for any limits of the cache.                     *)
(***************************************************************************)
EXTENDS IndexService, DataLemmas

(* A cache with the fields of ProjectCache. *)
StateOK(s) ==
    /\ DOMAIN s = {"generation", "runner", "index", "in_flight", "full_rebuild"}
    /\ s.generation \in Nat
    /\ s.full_rebuild \in BOOLEAN

CacheOK(c) ==
    /\ DOMAIN c = {"states", "released", "next_generation", "lru"}
    /\ c.next_generation \in Nat
    /\ DOMAIN c.states = Roots
    /\ \A r \in Roots : StateOK(c.states[r]) /\ c.states[r].generation <= c.next_generation

(* What becomes of the state s of a project in an operation of the cache   *)
(* that publishes nothing and creates no marker: the state is kept,        *)
(* perhaps without its index or without the marker of a cell outside       *)
(* `live`, it is dropped, or it gets a generation above `old`.             *)
Reduced(s, t, live, old) ==
    \/ /\ t.generation = s.generation
       /\ t.index \in {s.index, None}
       /\ \/ t.in_flight = s.in_flight
          \/ t.in_flight = None /\ s.in_flight.cell \notin live
       /\ t.full_rebuild => s.full_rebuild
    \/ /\ t.generation = 0 \/ t.generation > old
       /\ t.index = None /\ t.in_flight = None

Weaker(c, d, live) ==
    /\ CacheOK(d)
    /\ d.next_generation >= c.next_generation
    /\ \A r \in Roots : Reduced(c.states[r], d.states[r], live, c.next_generation)

LEMMA WeakerTransitive ==
    ASSUME NEW c, NEW d, NEW f, NEW live, CacheOK(c), Weaker(c, d, live), Weaker(d, f, live)
    PROVE  Weaker(c, f, live)
<1>1. ASSUME NEW r \in Roots
      PROVE  Reduced(c.states[r], f.states[r], live, c.next_generation)
  <2>1. Reduced(c.states[r], d.states[r], live, c.next_generation)
    BY DEF Weaker
  <2>2. Reduced(d.states[r], f.states[r], live, d.next_generation)
    BY DEF Weaker
  <2>3. d.next_generation >= c.next_generation /\ d.next_generation \in Nat
         /\ c.next_generation \in Nat /\ f.states[r].generation \in Nat
    BY DEF Weaker, CacheOK, StateOK
  <2> QED
    BY <2>1, <2>2, <2>3 DEF Reduced
<1> QED
  BY <1>1 DEF Weaker, CacheOK

LEMMA WeakerReflexive ==
    ASSUME NEW c, NEW live, CacheOK(c)
    PROVE  Weaker(c, c, live)
BY DEF Weaker, CacheOK, Reduced

LEMMA PruneWeaker ==
    ASSUME NEW c, NEW e, CacheOK(c)
    PROVE  Weaker(c, Prune(c, e), e.live)
<1> SUFFICES ASSUME NEW d, d = Prune(c, e)
             PROVE  Weaker(c, d, e.live)
  OBVIOUS
<1>1. /\ DOMAIN d = {"states", "released", "next_generation", "lru"}
      /\ d.next_generation = c.next_generation
      /\ DOMAIN d.states = Roots
  BY DEF Prune, CacheOK
<1>2. ASSUME NEW r \in Roots
      PROVE  d.states[r] = IF IsLive(c.states[r], e) THEN c.states[r]
                           ELSE [c.states[r] EXCEPT !.in_flight = None]
  BY DEF Prune, CacheOK
<1>3. ASSUME NEW s, NEW t, StateOK(s), NEW old,
             t = IF IsLive(s, e) THEN s ELSE [s EXCEPT !.in_flight = None]
      PROVE  StateOK(t) /\ t.generation = s.generation /\ Reduced(s, t, e.live, old)
  BY <1>3 DEF StateOK, Reduced, IsLive
<1>4. ASSUME NEW r \in Roots
      PROVE  /\ StateOK(d.states[r]) /\ d.states[r].generation = c.states[r].generation
             /\ Reduced(c.states[r], d.states[r], e.live, c.next_generation)
  <2>1. StateOK(c.states[r])
    BY DEF CacheOK
  <2> QED
    BY <1>2, <1>3, <2>1
<1> QED
  BY <1>1, <1>4 DEF Weaker, CacheOK

(* One field of one state is changed. *)
LEMMA StateChanged ==
    ASSUME NEW c, CacheOK(c), NEW r \in Roots, NEW t, StateOK(t),
           NEW n \in Nat, n >= c.next_generation, t.generation <= n, NEW d,
           DOMAIN d = DOMAIN c, d.next_generation = n, d.states = [c.states EXCEPT ![r] = t]
    PROVE  /\ CacheOK(d)
           /\ \A live : Reduced(c.states[r], t, live, c.next_generation) => Weaker(c, d, live)
<1>1. CacheOK(d)
  <2>1. ASSUME NEW s \in Roots
        PROVE  StateOK(d.states[s]) /\ d.states[s].generation <= n
    <3>1. CASE s = r
      BY <3>1 DEF CacheOK
    <3>2. CASE s # r
      <4>1. d.states[s] = c.states[s]
        BY <3>2 DEF CacheOK
      <4>2. StateOK(c.states[s]) /\ c.states[s].generation <= c.next_generation
        BY DEF CacheOK
      <4>3. c.states[s].generation \in Nat /\ c.next_generation \in Nat
        BY <4>2 DEF StateOK, CacheOK
      <4> QED
        BY <4>1, <4>2, <4>3
    <3> QED
      BY <3>1, <3>2
  <2> QED
    BY <2>1 DEF CacheOK
<1>2. ASSUME NEW s \in Roots, s # r, NEW live
      PROVE  Reduced(c.states[s], d.states[s], live, c.next_generation)
  BY <1>2 DEF Reduced, CacheOK
<1> QED
  BY <1>1, <1>2 DEF Weaker, CacheOK

LEMMA StateKept ==
    ASSUME NEW c, CacheOK(c), NEW r \in Roots, NEW t, StateOK(t), NEW d,
           t.generation = c.states[r].generation, DOMAIN d = DOMAIN c,
           d.next_generation = c.next_generation, d.states = [c.states EXCEPT ![r] = t]
    PROVE  /\ CacheOK(d)
           /\ \A live : Reduced(c.states[r], t, live, c.next_generation) => Weaker(c, d, live)
<1>1. c.next_generation \in Nat /\ t.generation <= c.next_generation
  BY DEF CacheOK
<1> QED
  BY <1>1, StateChanged

LEMMA ReleaseIndexWeaker ==
    ASSUME NEW c, NEW e, CacheOK(c), NEW r \in Roots
    PROVE  /\ Weaker(c, ReleaseIndex(c, r, e), e.live)
           /\ ReleaseIndex(c, r, e).states[r].index = None
           /\ ReleaseIndex(c, r, e).states[r].generation = c.states[r].generation
<1>1. CASE c.states[r].index = None
  BY <1>1, WeakerReflexive DEF ReleaseIndex
<1>2. CASE c.states[r].index # None
  <2> DEFINE d == [c EXCEPT !.states[r].index = None,
                            !.released = @ \union
                             {[obj |-> c.states[r].index.obj, bytes |-> IndexBytes[r]]}]
             t == [c.states[r] EXCEPT !.index = None]
  <2>1. /\ DOMAIN d = DOMAIN c /\ d.next_generation = c.next_generation
        /\ d.states = [c.states EXCEPT ![r] = t]
    BY DEF CacheOK
  <2>2. /\ StateOK(t) /\ t.generation = c.states[r].generation
        /\ Reduced(c.states[r], t, e.live, c.next_generation) /\ t.index = None
    BY DEF CacheOK, StateOK, Reduced
  <2>3. ReleaseIndex(c, r, e) = Prune(d, e)
    BY <1>2 DEF ReleaseIndex
  <2> HIDE DEF d
  <2>4. CacheOK(d) /\ Weaker(c, d, e.live)
    <3> HIDE DEF t
    <3> QED
      BY <2>1, <2>2, StateKept
  <2>5. d.states[r].index = None /\ d.states[r].generation = c.states[r].generation
    BY <2>1, <2>2 DEF CacheOK
  <2>6. /\ Prune(d, e).states[r].index = None
        /\ Prune(d, e).states[r].generation = d.states[r].generation
    <3> HIDE DEF t
    <3> QED
      BY <2>4, <2>5 DEF Prune, CacheOK, StateOK
  <2> HIDE DEF t
  <2> QED
    BY <2>3, <2>4, <2>5, <2>6, PruneWeaker, WeakerTransitive
<1> QED
  BY <1>1, <1>2

LEMMA ReleaseRunnerWeaker ==
    ASSUME NEW c, NEW live, CacheOK(c), NEW r \in Roots
    PROVE  Weaker(c, ReleaseRunner(c, r), live)
<1>1. CASE c.states[r].runner = None
  BY <1>1, WeakerReflexive DEF ReleaseRunner
<1>2. CASE c.states[r].runner # None
  <2> SUFFICES ASSUME NEW d, d = ReleaseRunner(c, r), NEW t,
                      t = [c.states[r] EXCEPT !.runner = None]
               PROVE  Weaker(c, d, live)
    OBVIOUS
  <2>1. /\ DOMAIN d = DOMAIN c /\ d.next_generation = c.next_generation
        /\ d.states = [c.states EXCEPT ![r] = t]
    BY <1>2 DEF CacheOK, ReleaseRunner
  <2>2. StateOK(t) /\ t.generation = c.states[r].generation
        /\ Reduced(c.states[r], t, live, c.next_generation)
    BY DEF CacheOK, StateOK, Reduced
  <2> QED
    BY <2>1, <2>2, StateKept
<1> QED
  BY <1>1, <1>2

(* A change of the order of use. *)
LEMMA TouchWeaker ==
    ASSUME NEW c, NEW live, CacheOK(c), NEW r
    PROVE  Weaker(c, Touch(c, r), live) /\ Touch(c, r).states = c.states
           /\ Touch(c, r).next_generation = c.next_generation
<1> SUFFICES ASSUME NEW d, d = Touch(c, r)
             PROVE  Weaker(c, d, live) /\ d.states = c.states
                    /\ d.next_generation = c.next_generation
  OBVIOUS
<1>1. DOMAIN d = DOMAIN c /\ d.states = c.states /\ d.next_generation = c.next_generation
  BY DEF Touch, CacheOK
<1> QED
  BY <1>1 DEF Weaker, CacheOK, Reduced

LEMMA EvictWeaker ==
    ASSUME NEW c, NEW e, CacheOK(c), NEW victims
    PROVE  Weaker(c, Evict(c, victims, e), e.live)
<1> DEFINE gone(kind) == {r \in Roots : \E i \in DOMAIN victims : victims[i] = <<kind, r>>}
           out == [r \in Roots |->
                     [c.states[r] EXCEPT
                         !.index = IF r \in gone("index") THEN None ELSE @,
                         !.runner = IF r \in gone("runner") THEN None ELSE @]]
           freed == {[obj |-> c.states[r].index.obj, bytes |-> IndexBytes[r]] : r \in gone("index")}
                 \union
                 {[obj |-> c.states[r].runner.obj, bytes |-> RunnerBytes] : r \in gone("runner")}
           d == [c EXCEPT !.states = out, !.released = @ \union freed]
<1>1. Evict(c, victims, e) = Prune(d, e)
  BY DEF Evict
<1> HIDE DEF freed, gone
<1>2. /\ DOMAIN d = DOMAIN c /\ d.next_generation = c.next_generation
      /\ d.states = out
  BY DEF CacheOK
<1>3. ASSUME NEW r \in Roots
      PROVE  /\ StateOK(out[r]) /\ out[r].generation = c.states[r].generation
             /\ Reduced(c.states[r], out[r], e.live, c.next_generation)
  BY DEF CacheOK, StateOK, Reduced
<1>4. DOMAIN out = Roots
  OBVIOUS
<1> HIDE DEF out, d
<1>5. CacheOK(d) /\ Weaker(c, d, e.live)
  BY <1>2, <1>3, <1>4 DEF CacheOK, Weaker
<1> QED
  BY <1>1, <1>5, PruneWeaker, WeakerTransitive

LEMMA EvictUntilWeaker ==
    ASSUME NEW c, NEW e, CacheOK(c), NEW victims, NEW limit, NEW extra
    PROVE  Weaker(c, EvictUntil(c, victims, e, limit, extra), e.live)
<1> DEFINE after(k) == Evict(c, SubSeq(victims, 1, k), e)
           enough == {k \in 0 .. Len(victims) :
                         k = Len(victims) \/ Fits(after(k), e, limit, extra)}
<1>1. EvictUntil(c, victims, e, limit, extra)
         = IF Min(enough) = 0 THEN c ELSE after(Min(enough))
  BY DEF EvictUntil
<1>2. Weaker(c, after(Min(enough)), e.live)
  <2> HIDE DEF enough
  <2> QED
    BY EvictWeaker
<1> HIDE DEF after, enough
<1> QED
  BY <1>1, <1>2, WeakerReflexive

LEMMA RetainWeaker ==
    ASSUME NEW c, NEW e, NEW live, CacheOK(c)
    PROVE  Weaker(c, Retain(c, e), live)
<1> SUFFICES ASSUME NEW d, d = Retain(c, e)
             PROVE  Weaker(c, d, live)
  OBVIOUS
<1>1. /\ DOMAIN d = {"states", "released", "next_generation", "lru"}
      /\ d.next_generation = c.next_generation
      /\ DOMAIN d.states = Roots
      /\ \A r \in Roots : d.states[r] \in {c.states[r], Absent}
  BY DEF Retain, CacheOK
<1>2. ASSUME NEW r \in Roots
      PROVE  /\ StateOK(d.states[r]) /\ d.states[r].generation <= c.next_generation
             /\ Reduced(c.states[r], d.states[r], live, c.next_generation)
  <2>1. StateOK(Absent) /\ Absent.generation = 0 /\ Absent.index = None
        /\ Absent.in_flight = None
    BY DEF StateOK, Absent, NewState
  <2>2. StateOK(c.states[r]) /\ c.states[r].generation <= c.next_generation
        /\ c.next_generation \in Nat
    BY DEF CacheOK
  <2>3. CASE d.states[r] = c.states[r]
    BY <2>2, <2>3 DEF Reduced
  <2>4. CASE d.states[r] = Absent
    BY <2>1, <2>2, <2>4 DEF Reduced
  <2> QED
    BY <1>1, <2>3, <2>4
<1> QED
  BY <1>1, <1>2 DEF Weaker, CacheOK

LEMMA EnforceWeaker ==
    ASSUME NEW c, NEW e, CacheOK(c), NEW protect
    PROVE  Weaker(c, Enforce(c, protect, e), e.live)
<1> DEFINE c0 == Prune(c, e)
           c1 == EvictUntil(c0, IndexVictims(c0, protect), e, "indexes", 0)
           v1 == IndexVictims(c1, protect) \o RunnerVictims(c1, protect, e)
           c2 == EvictUntil(c1, v1, e, "bytes", 0)
           c3 == EvictUntil(c2, RunnerVictims(c2, protect, e), e, "runners", 0)
<1>1. Enforce(c, protect, e) = Retain(c3, e)
  BY DEF Enforce
<1>2. CacheOK(c0) /\ Weaker(c, c0, e.live)
  BY PruneWeaker DEF Weaker
<1> HIDE DEF c0
<1>3. CacheOK(c1) /\ Weaker(c0, c1, e.live)
  BY <1>2, EvictUntilWeaker DEF Weaker
<1> HIDE DEF c1, v1
<1>4. CacheOK(c2) /\ Weaker(c1, c2, e.live)
  BY <1>3, EvictUntilWeaker DEF Weaker
<1> HIDE DEF c2
<1>5. CacheOK(c3) /\ Weaker(c2, c3, e.live)
  BY <1>4, EvictUntilWeaker DEF Weaker
<1> HIDE DEF c3
<1>6. Weaker(c3, Retain(c3, e), e.live)
  BY <1>5, RetainWeaker
<1>7. Weaker(c, c1, e.live)
  BY <1>2, <1>3, WeakerTransitive
<1>8. Weaker(c, c2, e.live)
  BY <1>7, <1>4, WeakerTransitive
<1>9. Weaker(c, c3, e.live)
  BY <1>8, <1>5, WeakerTransitive
<1> QED
  BY <1>1, <1>6, <1>9, WeakerTransitive

LEMMA ReserveWeaker ==
    ASSUME NEW c, NEW e, CacheOK(c), NEW r, NEW bytes
    PROVE  Weaker(c, Reserve(c, r, bytes, e), e.live)
<1> DEFINE c1 == Prune(c, e)
           victims == IndexVictims(c1, None) \o RunnerVictims(c1, r, e)
<1>1. Reserve(c, r, bytes, e) = EvictUntil(c1, victims, e, "bytes", bytes)
  BY DEF Reserve
<1>2. CacheOK(c1) /\ Weaker(c, c1, e.live)
  BY PruneWeaker DEF Weaker
<1> HIDE DEF c1, victims
<1> QED
  BY <1>1, <1>2, EvictUntilWeaker, WeakerTransitive

(* A state that is created gets a generation of its own. *)
LEMMA EnsureStateWeaker ==
    ASSUME NEW c, NEW live, CacheOK(c), NEW r \in Roots
    PROVE  /\ Weaker(c, EnsureState(c, r), live)
           /\ EnsureState(c, r).states[r].generation # 0
<1>1. CASE Present(c, r)
  BY <1>1, WeakerReflexive DEF EnsureState, Present
<1>2. CASE ~Present(c, r)
  <2> SUFFICES ASSUME NEW d, d = EnsureState(c, r), NEW n, n = c.next_generation + 1,
                      NEW t, t = NewState(n)
               PROVE  Weaker(c, d, live) /\ d.states[r].generation # 0
    OBVIOUS
  <2>1. n \in Nat /\ n > c.next_generation /\ n >= c.next_generation /\ n # 0
    BY DEF CacheOK
  <2>2. /\ DOMAIN d = DOMAIN c /\ d.next_generation = n
        /\ d.states = [c.states EXCEPT ![r] = t]
    BY <1>2 DEF CacheOK, EnsureState
  <2>3. StateOK(t) /\ t.generation = n /\ t.index = None /\ t.in_flight = None
    BY <2>1 DEF NewState, StateOK
  <2>4. Reduced(c.states[r], t, live, c.next_generation) /\ t.generation <= n
    BY <2>1, <2>3 DEF Reduced
  <2>5. d.states[r] = t
    BY <2>2 DEF CacheOK
  <2> QED
    BY <2>1, <2>2, <2>3, <2>4, <2>5, StateChanged
<1> QED
  BY <1>1, <1>2

(* An invalidated project has no state or a generation of its own.         *)
Renewed(c, d, r) ==
    /\ d.states[r].generation = 0 \/ d.states[r].generation > c.next_generation
    /\ Present(c, r) => d.states[r].index = None /\ d.states[r].in_flight = None

LEMMA InvalidateWeaker ==
    ASSUME NEW c, NEW e, CacheOK(c), NEW r \in Roots
    PROVE  Weaker(c, Invalidate(c, r, e), e.live) /\ Renewed(c, Invalidate(c, r, e), r)
<1>1. CASE ~Present(c, r)
  BY <1>1, WeakerReflexive DEF Invalidate, Present, Renewed
<1>2. CASE Present(c, r)
  <2> DEFINE n == c.next_generation + 1
             t == [c.states[r] EXCEPT !.generation = n, !.in_flight = None]
             d == [c EXCEPT !.next_generation = @ + 1,
                            !.states[r].generation = c.next_generation + 1,
                            !.states[r].in_flight = None]
  <2>1. n \in Nat /\ n > c.next_generation /\ n >= c.next_generation
    BY DEF CacheOK
  <2>2. /\ DOMAIN d = DOMAIN c /\ d.next_generation = n
        /\ d.states = [c.states EXCEPT ![r] = t]
    BY DEF CacheOK
  <2>3. StateOK(t) /\ t.generation = n /\ t.in_flight = None
    BY <2>1 DEF CacheOK, StateOK
  <2>4. Invalidate(c, r, e) = ReleaseIndex(d, r, e)
    BY <1>2 DEF Invalidate
  <2> HIDE DEF d, t, n
  <2>5. CacheOK(d) /\ d.states[r] = t
    BY <2>1, <2>2, <2>3, StateChanged DEF CacheOK
  <2> SUFFICES ASSUME NEW f, f = ReleaseIndex(d, r, e)
               PROVE  Weaker(c, f, e.live) /\ Renewed(c, f, r)
    BY <2>4
  <2>6. Weaker(d, f, e.live) /\ f.states[r].index = None /\ f.states[r].generation = n
    BY <2>3, <2>5, ReleaseIndexWeaker
  <2>7. f.states[r].in_flight = None
    BY <2>3, <2>5, <2>6 DEF Weaker, Reduced
  <2>8. Renewed(c, f, r) /\ Reduced(c.states[r], f.states[r], e.live, c.next_generation)
    BY <2>1, <2>6, <2>7 DEF Renewed, Reduced
  <2>9. ASSUME NEW s \in Roots, s # r
        PROVE  Reduced(c.states[s], f.states[s], e.live, c.next_generation)
    <3>1. d.states[s] = c.states[s]
      BY <2>2, <2>9 DEF CacheOK
    <3>2. Reduced(d.states[s], f.states[s], e.live, d.next_generation)
      BY <2>6 DEF Weaker
    <3>3. d.next_generation > c.next_generation /\ f.states[s].generation \in Nat
          /\ d.next_generation \in Nat /\ c.next_generation \in Nat
      BY <2>1, <2>2, <2>6 DEF Weaker, CacheOK, StateOK
    <3> QED
      BY <3>1, <3>2, <3>3 DEF Reduced
  <2>10. f.next_generation >= c.next_generation /\ CacheOK(f)
    BY <2>1, <2>2, <2>6 DEF Weaker, CacheOK
  <2> QED
    BY <2>8, <2>9, <2>10 DEF Weaker
<1> QED
  BY <1>1, <1>2

LEMMA InvalidateAfterMavenWeaker ==
    ASSUME NEW c, NEW e, CacheOK(c), NEW r \in Roots
    PROVE  /\ Weaker(c, InvalidateAfterMaven(c, r, e), e.live)
           /\ Renewed(c, InvalidateAfterMaven(c, r, e), r)
<1> DEFINE d == Invalidate(c, r, e)
<1>1. CacheOK(d) /\ Weaker(c, d, e.live) /\ Renewed(c, d, r)
  BY InvalidateWeaker DEF Weaker
<1>2. InvalidateAfterMaven(c, r, e)
        = IF d.states[r].runner = None THEN d
          ELSE [d EXCEPT !.states[r].runner.revalidate = TRUE]
  BY DEF InvalidateAfterMaven
<1> HIDE DEF d
<1>3. CASE d.states[r].runner = None
  BY <1>1, <1>2, <1>3
<1>4. CASE d.states[r].runner # None
  <2> SUFFICES ASSUME NEW f, f = [d EXCEPT !.states[r].runner.revalidate = TRUE], NEW t,
                      t = [d.states[r] EXCEPT !.runner.revalidate = TRUE]
               PROVE  Weaker(c, f, e.live) /\ Renewed(c, f, r)
    BY <1>2, <1>4
  <2>1. /\ DOMAIN f = DOMAIN d /\ f.next_generation = d.next_generation
        /\ f.states = [d.states EXCEPT ![r] = t]
    BY <1>1 DEF CacheOK
  <2>2. StateOK(d.states[r])
    BY <1>1 DEF CacheOK
  <2>3. /\ StateOK(t) /\ t.generation = d.states[r].generation
        /\ t.index = d.states[r].index /\ t.in_flight = d.states[r].in_flight
        /\ t.full_rebuild = d.states[r].full_rebuild
    BY <2>2 DEF StateOK
  <2>4. Reduced(d.states[r], t, e.live, d.next_generation)
    BY <2>3 DEF Reduced
  <2>5. Weaker(d, f, e.live)
    BY <1>1, <2>1, <2>3, <2>4, StateKept
  <2>6. f.states[r] = t
    BY <1>1, <2>1 DEF CacheOK
  <2> QED
    BY <1>1, <2>3, <2>5, <2>6, WeakerTransitive DEF Renewed
<1> QED
  BY <1>3, <1>4

(* refresh_project leaves the project with a new generation and nothing of *)
(* the old one.                                                            *)
LEMMA RefreshWeaker ==
    ASSUME NEW c, NEW e, CacheOK(c), NEW r \in Roots, NEW f,
           f = RequireFullRebuild(InvalidateAfterMaven(c, r, e), r),
           ~Present(c, r) => c.states[r].index = None /\ c.states[r].in_flight = None
    PROVE  /\ Weaker(c, f, e.live)
           /\ f.states[r].generation > c.next_generation
           /\ f.states[r].index = None /\ f.states[r].in_flight = None
<1> DEFINE d == InvalidateAfterMaven(c, r, e)
           g == EnsureState(d, r)
<1>1. CacheOK(d) /\ Weaker(c, d, e.live) /\ Renewed(c, d, r)
  BY InvalidateAfterMavenWeaker DEF Weaker
<1>2. f = [g EXCEPT !.states[r].full_rebuild = TRUE]
  BY DEF RequireFullRebuild
<1>3. CacheOK(g) /\ Weaker(d, g, e.live) /\ g.states[r].generation # 0
  <2> HIDE DEF d
  <2> QED
    BY <1>1, EnsureStateWeaker DEF Weaker
<1>4. Weaker(c, g, e.live)
  <2> HIDE DEF d, g
  <2> QED
    BY <1>1, <1>3, WeakerTransitive
<1>5. /\ g.states[r].generation > c.next_generation
      /\ g.states[r].index = None /\ g.states[r].in_flight = None
  <2>1. CASE Present(d, r)
    <3>1. g = d
      BY <2>1 DEF EnsureState
    <3>2. Present(c, r)
      <4>1. CASE Present(c, r)
        BY <4>1
      <4>2. CASE ~Present(c, r)
        BY <2>1, <4>2 DEF InvalidateAfterMaven, Invalidate, Present, CacheOK, StateOK
      <4> QED
        BY <4>1, <4>2
    <3> HIDE DEF d, g
    <3> QED
      BY <1>1, <2>1, <3>1, <3>2 DEF Renewed, Present
  <2>2. CASE ~Present(d, r)
    <3>1. g.states[r] = NewState(d.next_generation + 1)
      BY <1>1, <2>2 DEF EnsureState, CacheOK
    <3> HIDE DEF d, g
    <3>2. d.next_generation >= c.next_generation /\ d.next_generation \in Nat
          /\ c.next_generation \in Nat
      BY <1>1 DEF Weaker, CacheOK
    <3> QED
      BY <3>1, <3>2 DEF NewState
  <2> QED
    BY <2>1, <2>2
<1> HIDE DEF d, g
<1>6. /\ DOMAIN f = DOMAIN g /\ f.next_generation = g.next_generation
      /\ f.states = [g.states EXCEPT ![r] = [g.states[r] EXCEPT !.full_rebuild = TRUE]]
  BY <1>2, <1>3 DEF CacheOK
<1> DEFINE t == [g.states[r] EXCEPT !.full_rebuild = TRUE]
<1>7. /\ StateOK(t) /\ t.generation = g.states[r].generation
      /\ t.index = None /\ t.in_flight = None
  BY <1>3, <1>5 DEF CacheOK, StateOK
<1>8. f.states[r] = t /\ \A s \in Roots \ {r} : f.states[s] = g.states[s]
  BY <1>3, <1>6 DEF CacheOK
<1> HIDE DEF t
<1>9. CacheOK(f)
  BY <1>3, <1>6, <1>7, StateKept DEF t
<1> QED
  BY <1>4, <1>5, <1>6, <1>7, <1>8, <1>9 DEF Weaker, Reduced

LEMMA InstallRunnerWeaker ==
    ASSUME NEW c, NEW e, CacheOK(c), NEW r \in Roots, NEW runner
    PROVE  Weaker(c, InstallRunner(c, r, runner, e), e.live)
<1> DEFINE old == c.states[r].runner
           changed == old # None /\ old.fingerprint # runner.fingerprint
           c1 == IF changed THEN Invalidate(c, r, e) ELSE c
           d == EnsureState(c1, r)
           c2 == ReleaseRunner(Touch(d, r), r)
           f == [c2 EXCEPT !.states[r].runner = runner]
<1>1. InstallRunner(c, r, runner, e) = Enforce(f, r, e)
  BY DEF InstallRunner
<1>2. CacheOK(c1) /\ Weaker(c, c1, e.live)
  <2> HIDE DEF changed
  <2> QED
    BY InvalidateWeaker, WeakerReflexive DEF Weaker
<1> HIDE DEF c1
<1>3. CacheOK(d) /\ Weaker(c1, d, e.live)
  BY <1>2, EnsureStateWeaker DEF Weaker
<1> HIDE DEF d
<1>4. CacheOK(Touch(d, r)) /\ Weaker(d, Touch(d, r), e.live)
  BY <1>3, TouchWeaker DEF Weaker
<1>5. CacheOK(c2) /\ Weaker(Touch(d, r), c2, e.live)
  BY <1>4, ReleaseRunnerWeaker DEF Weaker
<1> HIDE DEF c2
<1>6. CacheOK(f) /\ Weaker(c2, f, e.live)
  <2> DEFINE t == [c2.states[r] EXCEPT !.runner = runner]
  <2>1. /\ DOMAIN f = DOMAIN c2 /\ f.next_generation = c2.next_generation
        /\ f.states = [c2.states EXCEPT ![r] = t]
    BY <1>5 DEF CacheOK
  <2>2. /\ StateOK(t) /\ t.generation = c2.states[r].generation
        /\ Reduced(c2.states[r], t, e.live, c2.next_generation)
    BY <1>5 DEF CacheOK, StateOK, Reduced
  <2> HIDE DEF t, f
  <2> QED
    BY <1>5, <2>1, <2>2, StateKept
<1> HIDE DEF f
<1>7. Weaker(f, Enforce(f, r, e), e.live)
  BY <1>6, EnforceWeaker
<1>8. Weaker(c, d, e.live)
  BY <1>2, <1>3, WeakerTransitive
<1>9. Weaker(c, c2, e.live)
  BY <1>8, <1>4, <1>5, WeakerTransitive
<1> QED
  BY <1>1, <1>6, <1>7, <1>9, WeakerTransitive

LEMMA DiscardProjectWeaker ==
    ASSUME NEW c, NEW e, CacheOK(c), NEW r \in Roots
    PROVE  Weaker(c, DiscardProject(c, r, e), e.live)
<1> DEFINE d == Invalidate(c, r, e)
           f == ReleaseRunner(d, r)
<1>1. CacheOK(d) /\ Weaker(c, d, e.live)
  BY InvalidateWeaker DEF Weaker
<1>2. DiscardProject(c, r, e) = Enforce(f, None, e)
  BY DEF DiscardProject
<1> HIDE DEF d
<1>3. CacheOK(f) /\ Weaker(d, f, e.live)
  BY <1>1, ReleaseRunnerWeaker DEF Weaker
<1> HIDE DEF f
<1>4. Weaker(f, Enforce(f, None, e), e.live)
  BY <1>3, EnforceWeaker
<1> QED
  BY <1>1, <1>2, <1>3, <1>4, WeakerTransitive

LEMMA InvalidateGenerationWeaker ==
    ASSUME NEW c, NEW e, CacheOK(c), NEW r \in Roots, NEW generation \in Nat,
           generation <= c.next_generation, NEW f,
           f = InvalidateGeneration(c, r, generation, e)
    PROVE  Weaker(c, f, e.live) /\ ~IsCurrent(f, r, generation)
<1>1. CASE IsCurrent(c, r, generation)
  <2>1. Weaker(c, f, e.live) /\ Renewed(c, f, r)
    BY <1>1, InvalidateWeaker DEF InvalidateGeneration
  <2> QED
    BY <2>1 DEF Renewed, IsCurrent, Present, CacheOK
<1>2. CASE ~IsCurrent(c, r, generation)
  BY <1>2, WeakerReflexive DEF InvalidateGeneration
<1> QED
  BY <1>1, <1>2

LEMMA LookupRunnerWeaker ==
    ASSUME NEW c, NEW live, CacheOK(c), NEW r
    PROVE  Weaker(c, LookupRunner(c, r), live) /\ Weaker(c, RecordHit(c, r), live)
BY TouchWeaker, WeakerReflexive DEF LookupRunner, RecordHit

(* lookup_index: a caller gets an index or the marker of the state's       *)
(* generation, which is new when the state had none.                       *)
Joinable(s) == s.in_flight # None /\ s.in_flight.generation = s.generation

LEMMA LookupIndexWeaker ==
    ASSUME NEW c, NEW e, CacheOK(c), NEW r \in Roots, NEW fingerprint, NEW fresh, NEW f,
           f = LookupIndex(c, r, fingerprint, fresh, e)
    PROVE  \E d : /\ CacheOK(d) /\ Weaker(c, d, e.live) /\ d.states[r].generation # 0
                  /\ \/ f = d /\ (d.states[r].index # None \/ Joinable(d.states[r]))
                     \/ /\ d.states[r].index = None /\ ~Joinable(d.states[r])
                        /\ f = [d EXCEPT !.states[r].in_flight =
                                   [cell |-> fresh, generation |-> d.states[r].generation]]
<1> DEFINE c0 == EnsureState(c, r)
           c1 == Touch(c0, r)
           stale == c1.states[r].index # None /\ c1.states[r].index.project # fingerprint
           c2 == IF stale THEN Invalidate(c1, r, e) ELSE c1
<1>1. f = IF c2.states[r].index # None \/ Joinable(c2.states[r]) THEN c2
          ELSE [c2 EXCEPT !.states[r].in_flight =
                   [cell |-> fresh, generation |-> c2.states[r].generation]]
  BY DEF LookupIndex, Joinable
<1>2. CacheOK(c0) /\ Weaker(c, c0, e.live) /\ c0.states[r].generation # 0
  BY EnsureStateWeaker DEF Weaker
<1> HIDE DEF c0
<1>3. CacheOK(c1) /\ Weaker(c, c1, e.live) /\ c1.states[r].generation # 0
  BY <1>2, TouchWeaker, WeakerTransitive DEF Weaker
<1> HIDE DEF c1
<1>4. CacheOK(c2) /\ Weaker(c, c2, e.live) /\ c2.states[r].generation # 0
  <2>1. CASE stale
    <3>1. Weaker(c1, c2, e.live) /\ Renewed(c1, c2, r)
      BY <1>3, <2>1, InvalidateWeaker
    <3>2. c2.states[r].generation # 0
      <4>1. c2.states[r].generation = c1.next_generation + 1
        <5>1. c2 = Invalidate(c1, r, e)
          BY <2>1
        <5> DEFINE d == [c1 EXCEPT !.next_generation = @ + 1,
                                   !.states[r].generation = c1.next_generation + 1,
                                   !.states[r].in_flight = None]
        <5>2. c2 = ReleaseIndex(d, r, e)
          BY <1>3, <5>1 DEF Invalidate, Present
        <5>3. d.states[r].generation = c1.next_generation + 1
          BY <1>3 DEF CacheOK, StateOK
        <5>4. CacheOK(d)
          <6> DEFINE n == c1.next_generation + 1
                     t == [c1.states[r] EXCEPT !.generation = n, !.in_flight = None]
          <6>1. n \in Nat /\ n >= c1.next_generation
            BY <1>3 DEF CacheOK
          <6>2. /\ DOMAIN d = DOMAIN c1 /\ d.next_generation = n
                /\ d.states = [c1.states EXCEPT ![r] = t]
            BY <1>3 DEF CacheOK
          <6>3. StateOK(t) /\ t.generation <= n
            BY <1>3, <6>1 DEF CacheOK, StateOK
          <6> HIDE DEF t, n, d
          <6> QED
            BY <1>3, <6>1, <6>2, <6>3, StateChanged
        <5> HIDE DEF d, c2
        <5> QED
          BY <5>2, <5>3, <5>4, ReleaseIndexWeaker
      <4> HIDE DEF c2
      <4> QED
        BY <1>3, <4>1 DEF CacheOK
    <3> HIDE DEF c2
    <3> QED
      BY <1>3, <3>1, <3>2, WeakerTransitive DEF Weaker
  <2>2. CASE ~stale
    BY <1>3, <2>2
  <2> QED
    BY <2>1, <2>2
<1> HIDE DEF c2
<1> QED
  BY <1>1, <1>4

(* The state of r with another index and no marker. *)
Settled(c, r, index) ==
    [c EXCEPT !.states[r] = [c.states[r] EXCEPT !.index = index, !.in_flight = None]]

LEMMA SettledOK ==
    ASSUME NEW c, CacheOK(c), NEW r \in Roots, NEW index, NEW d, d = Settled(c, r, index)
    PROVE  /\ CacheOK(d) /\ DOMAIN d = DOMAIN c /\ d.next_generation = c.next_generation
           /\ \A s \in Roots \ {r} : d.states[s] = c.states[s]
           /\ d.states[r].generation = c.states[r].generation
           /\ d.states[r].full_rebuild = c.states[r].full_rebuild
           /\ d.states[r].index = index /\ d.states[r].in_flight = None
<1> DEFINE t == [c.states[r] EXCEPT !.index = index, !.in_flight = None]
<1>1. /\ DOMAIN d = DOMAIN c /\ d.next_generation = c.next_generation
      /\ d.states = [c.states EXCEPT ![r] = t]
  BY DEF CacheOK, Settled
<1>2. /\ StateOK(t) /\ t.generation = c.states[r].generation
      /\ t.full_rebuild = c.states[r].full_rebuild
      /\ t.index = index /\ t.in_flight = None
  BY DEF CacheOK, StateOK
<1> HIDE DEF t
<1>3. CacheOK(d)
  BY <1>1, <1>2, StateKept
<1> QED
  BY <1>1, <1>2, <1>3 DEF CacheOK

LEMMA FinishFailedWeaker ==
    ASSUME NEW c, NEW e, CacheOK(c), NEW r \in Roots, NEW generation
    PROVE  IF IsCurrent(c, r, generation)
           THEN Weaker(Settled(c, r, c.states[r].index), FinishFailed(c, r, generation, e), e.live)
           ELSE Weaker(c, FinishFailed(c, r, generation, e), e.live)
<1>1. CASE IsCurrent(c, r, generation)
  <2> DEFINE d == [c EXCEPT !.states[r].in_flight = None]
             f == Settled(c, r, c.states[r].index)
  <2>1. FinishFailed(c, r, generation, e) = Enforce(d, None, e)
    BY <1>1 DEF FinishFailed
  <2>2. CacheOK(f)
    BY SettledOK
  <2>3. CacheOK(d) /\ d.next_generation = c.next_generation
        /\ \A s \in Roots \ {r} : d.states[s] = c.states[s]
    <3> DEFINE t == [c.states[r] EXCEPT !.in_flight = None]
    <3>1. /\ DOMAIN d = DOMAIN c /\ d.next_generation = c.next_generation
          /\ d.states = [c.states EXCEPT ![r] = t]
      BY DEF CacheOK
    <3>2. StateOK(t) /\ t.generation = c.states[r].generation
      BY DEF CacheOK, StateOK
    <3> HIDE DEF t, d
    <3>3. CacheOK(d)
      BY <3>1, <3>2, StateKept
    <3> QED
      BY <3>1, <3>3 DEF CacheOK
  <2>4. /\ d.states[r].generation = f.states[r].generation
        /\ d.states[r].full_rebuild = f.states[r].full_rebuild
        /\ d.states[r].index = f.states[r].index
        /\ d.states[r].in_flight = f.states[r].in_flight
    BY SettledOK DEF CacheOK, StateOK
  <2>5. f.next_generation = c.next_generation
        /\ \A s \in Roots \ {r} : f.states[s] = c.states[s]
    BY SettledOK
  <2> HIDE DEF d, f
  <2>6. ASSUME NEW s \in Roots
        PROVE  Reduced(f.states[s], d.states[s], e.live, f.next_generation)
    <3>1. CASE s = r
      BY <2>4, <3>1 DEF Reduced
    <3>2. CASE s # r
      BY <2>3, <2>5, <3>2 DEF Reduced
    <3> QED
      BY <3>1, <3>2
  <2>7. Weaker(f, d, e.live)
    BY <2>2, <2>3, <2>5, <2>6 DEF Weaker, CacheOK
  <2>8. Weaker(d, Enforce(d, None, e), e.live)
    BY <2>3, EnforceWeaker
  <2>9. Weaker(f, Enforce(d, None, e), e.live)
    BY <2>2, <2>7, <2>8, WeakerTransitive
  <2> QED
    BY <1>1, <2>1, <2>9 DEF f
<1>2. CASE ~IsCurrent(c, r, generation)
  BY <1>2, EnforceWeaker DEF FinishFailed
<1> QED
  BY <1>1, <1>2

LEMMA SettledWeaker ==
    ASSUME NEW c, CacheOK(c), NEW r \in Roots, NEW index, NEW live, NEW d, CacheOK(d),
           d.next_generation = c.next_generation,
           \A s \in Roots \ {r} : Reduced(c.states[s], d.states[s], live, c.next_generation),
           d.states[r].generation = c.states[r].generation,
           d.states[r].full_rebuild => c.states[r].full_rebuild,
           d.states[r].index \in {index, None}, d.states[r].in_flight = None
    PROVE  CacheOK(Settled(c, r, index)) /\ Weaker(Settled(c, r, index), d, live)
<1> SUFFICES ASSUME NEW b, b = Settled(c, r, index)
             PROVE  CacheOK(b) /\ Weaker(b, d, live)
  OBVIOUS
<1>1. /\ CacheOK(b) /\ b.next_generation = c.next_generation
      /\ \A s \in Roots \ {r} : b.states[s] = c.states[s]
      /\ b.states[r].generation = c.states[r].generation
      /\ b.states[r].full_rebuild = c.states[r].full_rebuild
      /\ b.states[r].index = index /\ b.states[r].in_flight = None
  BY SettledOK
<1>2. ASSUME NEW s \in Roots
      PROVE  Reduced(b.states[s], d.states[s], live, b.next_generation)
  <2>1. CASE s = r
    BY <1>1, <2>1 DEF Reduced
  <2>2. CASE s # r
    BY <1>1, <2>2
  <2> QED
    BY <2>1, <2>2
<1> QED
  BY <1>1, <1>2 DEF Weaker, CacheOK

(* publish and finish_full_rebuild: the new index or the old one, and no   *)
(* marker.                                                                 *)
LEMMA PublishWeaker ==
    ASSUME NEW c, NEW e, CacheOK(c), NEW r \in Roots, NEW index, NEW generation, NEW f,
           f = FinishFullRebuild(Publish(c, r, index, e), r, generation)
    PROVE  \E x \in {c.states[r].index, index} :
              CacheOK(Settled(c, r, x)) /\ Weaker(Settled(c, r, x), f, e.live)
<1> DEFINE c1 == Prune(c, e)
           c2 == [c1 EXCEPT !.states[r].in_flight = None]
           cx == [c2 EXCEPT !.states[r].index = index]
           ct == Touch(cx, r)
           c3 == Enforce(ct, r, e)
           c4 == [c2 EXCEPT !.released = @ \union {[obj |-> index.obj, bytes |-> IndexBytes[r]]}]
           p == Publish(c, r, index, e)
<1>1. p = IF IndexBytes[r] > MaxBytes THEN c4
          ELSE IF WithinBytes(c3, e, 0) THEN c3 ELSE ReleaseIndex(c3, r, e)
  BY DEF Publish
<1>2. /\ CacheOK(c1) /\ c1.next_generation = c.next_generation
      /\ \A s \in Roots : Reduced(c.states[s], c1.states[s], e.live, c.next_generation)
      /\ c1.states[r].generation = c.states[r].generation
      /\ c1.states[r].full_rebuild = c.states[r].full_rebuild
      /\ c1.states[r].index = c.states[r].index
  <2>1. CacheOK(c1) /\ \A s \in Roots : Reduced(c.states[s], c1.states[s], e.live, c.next_generation)
    BY PruneWeaker DEF Weaker
  <2> QED
    BY <2>1 DEF Prune, CacheOK, StateOK
<1> HIDE DEF c1
<1>3. /\ CacheOK(c2) /\ c2.next_generation = c.next_generation
      /\ \A s \in Roots \ {r} : c2.states[s] = c1.states[s]
      /\ c2.states[r].generation = c.states[r].generation
      /\ c2.states[r].full_rebuild = c.states[r].full_rebuild
      /\ c2.states[r].index = c.states[r].index /\ c2.states[r].in_flight = None
  <2> DEFINE t == [c1.states[r] EXCEPT !.in_flight = None]
  <2>1. /\ DOMAIN c2 = DOMAIN c1 /\ c2.next_generation = c1.next_generation
        /\ c2.states = [c1.states EXCEPT ![r] = t]
    BY <1>2 DEF CacheOK
  <2>2. StateOK(t) /\ t.generation = c1.states[r].generation
        /\ t.full_rebuild = c1.states[r].full_rebuild
        /\ t.index = c1.states[r].index /\ t.in_flight = None
    BY <1>2 DEF CacheOK, StateOK
  <2> HIDE DEF t, c2
  <2>3. CacheOK(c2)
    BY <1>2, <2>1, <2>2, StateKept
  <2> QED
    BY <1>2, <2>1, <2>2, <2>3 DEF CacheOK
<1> HIDE DEF c2
<1>4. /\ CacheOK(cx) /\ cx.next_generation = c.next_generation
      /\ \A s \in Roots \ {r} : cx.states[s] = c1.states[s]
      /\ cx.states[r].generation = c.states[r].generation
      /\ cx.states[r].full_rebuild = c.states[r].full_rebuild
      /\ cx.states[r].index = index /\ cx.states[r].in_flight = None
  <2> DEFINE t == [c2.states[r] EXCEPT !.index = index]
  <2>1. /\ DOMAIN cx = DOMAIN c2 /\ cx.next_generation = c2.next_generation
        /\ cx.states = [c2.states EXCEPT ![r] = t]
    BY <1>3 DEF CacheOK
  <2>2. StateOK(t) /\ t.generation = c2.states[r].generation
        /\ t.full_rebuild = c2.states[r].full_rebuild
        /\ t.index = index /\ t.in_flight = None
    BY <1>3 DEF CacheOK, StateOK
  <2> HIDE DEF t, cx
  <2>3. CacheOK(cx)
    BY <1>3, <2>1, <2>2, StateKept
  <2> QED
    BY <1>3, <2>1, <2>2, <2>3 DEF CacheOK
<1> HIDE DEF cx
<1>5. /\ CacheOK(c4) /\ c4.next_generation = c.next_generation /\ c4.states = c2.states
  BY <1>3 DEF CacheOK
<1>6. ASSUME IndexBytes[r] > MaxBytes
      PROVE  \E x \in {c.states[r].index, index} :
                CacheOK(Settled(c, r, x)) /\ Weaker(Settled(c, r, x), p, e.live)
  <2>1. p = c4
    BY <1>1, <1>6
  <2> DEFINE x == c.states[r].index
  <2> HIDE DEF c4, p
  <2>2. CacheOK(Settled(c, r, x)) /\ Weaker(Settled(c, r, x), c4, e.live)
    BY <1>2, <1>3, <1>5, SettledWeaker
  <2> QED
    BY <2>1, <2>2
<1>7. ASSUME ~(IndexBytes[r] > MaxBytes)
      PROVE  \E x \in {c.states[r].index, index} :
                CacheOK(Settled(c, r, x)) /\ Weaker(Settled(c, r, x), p, e.live)
  <2> DEFINE x == index
  <2> HIDE DEF c4
  <2>1. CacheOK(Settled(c, r, x)) /\ Weaker(Settled(c, r, x), cx, e.live)
    BY <1>2, <1>4, SettledWeaker
  <2>2. CacheOK(ct) /\ Weaker(cx, ct, e.live)
    BY <1>4, TouchWeaker DEF Weaker
  <2> HIDE DEF ct
  <2>3. CacheOK(c3) /\ Weaker(ct, c3, e.live)
    BY <2>2, EnforceWeaker DEF Weaker
  <2> HIDE DEF c3
  <2>4. Weaker(Settled(c, r, x), c3, e.live)
    BY <2>1, <2>2, <2>3, WeakerTransitive
  <2>5. Weaker(c3, ReleaseIndex(c3, r, e), e.live)
    BY <2>3, ReleaseIndexWeaker
  <2>6. Weaker(Settled(c, r, x), ReleaseIndex(c3, r, e), e.live)
    BY <2>1, <2>4, <2>5, WeakerTransitive
  <2> HIDE DEF p
  <2> QED
    BY <1>1, <1>7, <2>1, <2>4, <2>6
<1> HIDE DEF c3, c4, p
<1>8. PICK x \in {c.states[r].index, index} :
         CacheOK(Settled(c, r, x)) /\ Weaker(Settled(c, r, x), p, e.live)
  BY <1>6, <1>7
<1>9. Weaker(p, f, e.live)
  <2>1. CacheOK(p)
    BY <1>8 DEF Weaker
  <2>2. f = FinishFullRebuild(p, r, generation)
    BY DEF p
  <2>3. CASE ~IsCurrent(p, r, generation)
    BY <2>1, <2>2, <2>3, WeakerReflexive DEF FinishFullRebuild
  <2>4. CASE IsCurrent(p, r, generation)
    <3> DEFINE t == [p.states[r] EXCEPT !.full_rebuild = FALSE]
    <3>1. /\ DOMAIN f = DOMAIN p /\ f.next_generation = p.next_generation
          /\ f.states = [p.states EXCEPT ![r] = t]
      BY <2>1, <2>2, <2>4 DEF CacheOK, FinishFullRebuild
    <3>2. StateOK(t) /\ t.generation = p.states[r].generation
          /\ Reduced(p.states[r], t, e.live, p.next_generation)
      BY <2>1 DEF CacheOK, StateOK, Reduced
    <3> HIDE DEF t
    <3> QED
      BY <2>1, <3>1, <3>2, StateKept
  <2> QED
    BY <2>3, <2>4
<1> QED
  BY <1>8, <1>9, WeakerTransitive

-----------------------------------------------------------------------------
(* Calls and the abandoned jobs they left behind are the holders of cells. *)
Holders == Reqs \X {"call", "job"}
Members == Owning \union {"cell", "owner"}
Quiet == {"idle", "done", "dropped"}
Finishing == {"persist", "recheck", "unpersist"}

Outside == [cell |-> None, level |-> "out", root |-> None, generation |-> 0]

Level(pc) ==
    CASE pc = "cell" -> "waiting"
      [] pc = "owner" -> "entered"
      [] pc \in Finishing -> "built"
      [] OTHER -> "working"

CallPlace(q) ==
    IF q.cell = None THEN Outside
    ELSE [cell |-> q.cell, level |-> Level(q.pc), root |-> q.root, generation |-> q.generation]

JobPlace(j) ==
    IF j = None \/ j.cell = None THEN Outside
    ELSE [cell |-> j.cell, level |-> "working", root |-> j.root, generation |-> j.generation]

(* Where each holder is. *)
places == [h \in Holders |-> IF h[2] = "call" THEN CallPlace(req[h[1]])
                             ELSE JobPlace(orphan[h[1]])]

Locked == {"working", "built"}
Entered == {"entered", "working", "built"}

-----------------------------------------------------------------------------
(* The build cells.  A holder has the root and the generation of its cell; *)
(* one holder has a cell's owner lock and one call initialises the cell.   *)
PlacesOK(c, at) ==
    \A h \in Holders :
        at[h].cell # None => /\ at[h].cell \in CellIds /\ at[h].root \in Roots
                             /\ at[h].generation \in Nat
                             /\ at[h].generation <= c.next_generation
                             /\ h[2] = "job" => at[h].level = "working"

SameCell(at) ==
    \A h, k \in Holders :
        at[h].cell # None /\ at[h].cell = at[k].cell
            => at[h].root = at[k].root /\ at[h].generation = at[k].generation

OneOwner(at) ==
    \A h, k \in Holders :
        h # k /\ at[h].cell # None /\ at[h].cell = at[k].cell
            => /\ ~(at[h].level \in Locked /\ at[k].level \in Locked)
               /\ ~(h[2] = "call" /\ k[2] = "call"
                      /\ at[h].level \in Entered /\ at[k].level \in Entered)

(* A cell that somebody initialises is open, and an outcome that nobody    *)
(* reads is freed.                                                         *)
CellsOK(at, cell) ==
    /\ \A h \in Holders :
          at[h].cell # None /\ at[h].level \in Entered => cell[at[h].cell] = Open
    /\ \A m \in CellIds :
          cell[m] # Open => \E h \in Holders : h[2] = "call" /\ at[h].cell = m

(* Until a generation is published its holders share one open cell, which  *)
(* is the marker's while the generation is current.                        *)
Waits(h, at, cell, done) ==
    at[h].cell # None /\ cell[at[h].cell] = Open /\ at[h].generation \notin done[at[h].root]

OneCell(at, cell, done) ==
    \A h, k \in Holders :
        Waits(h, at, cell, done) /\ Waits(k, at, cell, done)
            => (at[h].root = at[k].root /\ at[h].generation = at[k].generation
                   => at[h].cell = at[k].cell)

Marked(c, at, cell, done) ==
    \A h \in Holders :
        Waits(h, at, cell, done) /\ IsCurrent(c, at[h].root, at[h].generation)
            => /\ c.states[at[h].root].in_flight # None
               /\ c.states[at[h].root].in_flight.cell = at[h].cell

(* A marker stands for an open cell of its generation that no publisher    *)
(* holds.                                                                  *)
MarkersOK(c, at, cell) ==
    \A r \in Roots :
        LET marker == c.states[r].in_flight
        IN  marker # None =>
               /\ marker.cell \in CellIds /\ cell[marker.cell] = Open
               /\ marker.generation = c.states[r].generation /\ Present(c, r)
               /\ \A h \in Holders : at[h].cell = marker.cell =>
                     /\ at[h].root = r /\ at[h].generation = c.states[r].generation
                     /\ at[h].level # "built"
               /\ \A s \in Roots \ {r} :
                     c.states[s].in_flight # None => c.states[s].in_flight.cell # marker.cell

PlaceInv(c, at, cell, done) ==
    /\ PlacesOK(c, at) /\ SameCell(at) /\ OneOwner(at) /\ CellsOK(at, cell)
    /\ OneCell(at, cell, done) /\ Marked(c, at, cell, done) /\ MarkersOK(c, at, cell)

-----------------------------------------------------------------------------
(* What one call knows.  A build of the current generation began in the    *)
(* current epoch; what it read is what it stamped unless it saw a change;  *)
(* and it rereads everything when the state asks for it.                   *)
CallInv(q, c, ep, art) ==
    /\ q.pc \in Owning /\ IsCurrent(c, q.root, q.generation) => q.began = ep[q.root]
    /\ q.pc \notin Quiet => q.since <= ep[q.root]
    /\ q.pc \in {"verify", "publish"} \union Finishing => q.index.began = q.began
    /\ q.pc \in {"validate", "use"} => q.index.began \in Nat /\ q.index.began >= q.since
    /\ q.pc \in {"reserve", "flag", "build", "verify"} => q.stamps <= art[q.root]
    /\ q.pc = "verify" => /\ q.index.stamps = q.stamps /\ q.index.content \in Nat
                          /\ q.stamps <= q.index.content /\ q.index.content <= art[q.root]
    /\ q.pc = "publish" /\ ~q.changed => q.index.content = q.index.stamps
    /\ q.pc \in {"build", "verify", "publish"} /\ IsCurrent(c, q.root, q.generation)
          /\ c.states[q.root].full_rebuild => ~q.reuse
    /\ q.pc \in {"verify", "publish"} /\ ~q.reuse => q.index.reread

(* A retained index is of the current epoch and matches its stamps.        *)
StateInv(c, ep) ==
    \A r \in Roots :
        /\ ~Present(c, r) => c.states[r].index = None /\ c.states[r].in_flight = None
        /\ c.states[r].index # None =>
              /\ c.states[r].index.began = ep[r]
              /\ c.states[r].index.content = c.states[r].index.stamps

(* Who shares a cell with a builder was not invalidated after the build    *)
(* began.                                                                  *)
SharedInv(calls, cell) ==
    \A p \in Reqs :
        calls[p].cell # None =>
            /\ \A q \in Reqs :
                  calls[q].cell = calls[p].cell /\ calls[q].pc \in Owning
                      => calls[q].began >= calls[p].since
            /\ cell[calls[p].cell].kind = "Built" =>
                  /\ cell[calls[p].cell].index.began \in Nat
                  /\ cell[calls[p].cell].index.began >= calls[p].since

Fields ==
    {"pc", "kind", "root", "attempts", "since", "snapshot", "model", "generation", "cell",
     "began", "classpath", "stamps", "reuse", "changed", "index"}

CallOK(q) ==
    /\ DOMAIN q = Fields
    /\ q.generation \in Nat /\ q.since \in Nat /\ q.began \in Nat /\ q.stamps \in Nat
    /\ q.reuse \in BOOLEAN /\ q.changed \in BOOLEAN
    /\ IF q.pc \in Quiet THEN q.since = 0 ELSE q.root \in Roots
    /\ IF q.pc \in Members THEN q.cell \in CellIds ELSE q.cell = None

JobOK(j) ==
    j # None => /\ j.cell \in CellIds \union {None}
                /\ j.building => j.cell \in CellIds
                /\ j.cell # None => j.root \in Roots /\ j.generation \in Nat

Outcomes(cell) ==
    \A m \in CellIds : cell[m] = Open \/ cell[m].kind \in {"Built", "Failed", "Stale"}

TypeOK ==
    /\ CacheOK(cache)
    /\ DOMAIN req = Reqs /\ \A p \in Reqs : CallOK(req[p])
    /\ DOMAIN orphan = Reqs /\ \A p \in Reqs : JobOK(orphan[p])
    /\ \A p \in Reqs : req[p].generation <= cache.next_generation
    /\ DOMAIN cells = CellIds /\ Outcomes(cells)
    /\ epoch \in [Roots -> Nat] /\ artifacts \in [Roots -> Nat]
    /\ published \in [Roots -> SUBSET Nat]

IInv ==
    /\ TypeOK
    /\ PlaceInv(cache, places, cells, published)
    /\ \A p \in Reqs : CallInv(req[p], cache, epoch, artifacts)
    /\ StateInv(cache, epoch)
    /\ SharedInv(req, cells)

-----------------------------------------------------------------------------
(* How a step moves the places, the cells and the markers.                 *)
MarkersShrink(c, d, live, cleared) ==
    /\ c.next_generation \in Nat /\ d.next_generation \in Nat
    /\ d.next_generation >= c.next_generation
    /\ \A s \in Roots :
          /\ c.states[s].generation \in Nat /\ d.states[s].generation \in Nat
          /\ \/ /\ d.states[s].generation = c.states[s].generation
                /\ \/ d.states[s].in_flight = c.states[s].in_flight
                   \/ /\ d.states[s].in_flight = None
                      /\ c.states[s].in_flight.cell \notin live \/ s \in cleared
             \/ /\ d.states[s].in_flight = None
                /\ d.states[s].generation = 0 \/ d.states[s].generation > c.next_generation

LEMMA WeakerShrinks ==
    ASSUME NEW c, NEW d, NEW live, NEW cleared, CacheOK(c), Weaker(c, d, live)
    PROVE  MarkersShrink(c, d, live, cleared)
BY DEF Weaker, CacheOK, StateOK, Reduced, MarkersShrink

(* Markers whose cells nobody holds and states nobody waits for may go.    *)
LEMMA ShrinkPlaces ==
    ASSUME NEW c, NEW d, NEW at, NEW cell, NEW done, NEW live,
           PlaceInv(c, at, cell, done), MarkersShrink(c, d, live, {}),
           \A h \in Holders : at[h].cell # None => at[h].cell \in live
    PROVE  PlaceInv(d, at, cell, done)
<1>1. PlacesOK(d, at)
  BY DEF PlaceInv, PlacesOK, MarkersShrink
<1>2. Marked(d, at, cell, done)
  <2> SUFFICES ASSUME NEW h \in Holders, Waits(h, at, cell, done),
                      IsCurrent(d, at[h].root, at[h].generation)
               PROVE  /\ d.states[at[h].root].in_flight # None
                      /\ d.states[at[h].root].in_flight.cell = at[h].cell
    BY DEF Marked
  <2>1. /\ at[h].root \in Roots /\ at[h].generation <= c.next_generation
        /\ at[h].generation \in Nat /\ at[h].cell \in live
    BY DEF PlaceInv, PlacesOK, Waits
  <2>2. d.states[at[h].root].generation = c.states[at[h].root].generation
    BY <2>1 DEF MarkersShrink, IsCurrent, Present
  <2>3. /\ c.states[at[h].root].in_flight # None
        /\ c.states[at[h].root].in_flight.cell = at[h].cell
    BY <2>2 DEF PlaceInv, Marked, IsCurrent, Present
  <2> QED
    BY <2>1, <2>2, <2>3 DEF MarkersShrink, IsCurrent, Present
<1>3. MarkersOK(d, at, cell)
  <2>1. ASSUME NEW s \in Roots, d.states[s].in_flight # None
        PROVE  d.states[s].in_flight = c.states[s].in_flight
               /\ d.states[s].generation = c.states[s].generation
    BY <2>1 DEF MarkersShrink
  <2> QED
    BY <2>1 DEF PlaceInv, MarkersOK, Present
<1> QED
  BY <1>1, <1>2, <1>3 DEF PlaceInv

(* A build ends: its cell gets an outcome and no marker keeps the cell.    *)
LEMMA ClosePlaces ==
    ASSUME NEW c, NEW d, NEW at, NEW cell, NEW done, NEW live, NEW h \in Holders,
           NEW cleared, NEW to, NEW outcome,
           PlaceInv(c, at, cell, done), MarkersShrink(c, d, live, cleared),
           \A k \in Holders : at[k].cell # None => at[k].cell \in live,
           h[2] = "call", at[h].cell # None, at[h].level \in Locked,
           \/ cleared = {}
           \/ /\ cleared = {at[h].root}
              /\ c.states[at[h].root].generation = at[h].generation,
           \A s \in Roots : d.states[s].in_flight # None
                               => d.states[s].in_flight.cell # at[h].cell,
           \A k \in Holders \ {h} : to[k] = at[k],
           to[h].cell = at[h].cell, to[h].root = at[h].root,
           to[h].generation = at[h].generation, to[h].level = "waiting",
           outcome # Open, DOMAIN cell = CellIds
    PROVE  PlaceInv(d, to, [cell EXCEPT ![at[h].cell] = outcome], done)
<1> DEFINE m == at[h].cell
           new == [cell EXCEPT ![m] = outcome]
<1>0. /\ \A k \in Holders : to[k].cell = at[k].cell /\ to[k].root = at[k].root
                            /\ to[k].generation = at[k].generation
      /\ \A k \in Holders : to[k].level \in Locked => at[k].level \in Locked /\ k # h
      /\ \A k \in Holders : to[k].level \in Entered => at[k].level \in Entered /\ k # h
      /\ \A k \in Holders : to[k].level = "built" => at[k].level = "built"
  BY DEF Locked, Entered
<1>e. \A k \in Holders : to[k].level = "entered" => at[k].level = "entered"
  OBVIOUS
<1>m. m \in CellIds /\ at[h].level \in Entered
  BY DEF PlaceInv, PlacesOK, Locked, Entered
<1>n. \A n \in CellIds : new[n] = Open => n # m /\ cell[n] = Open
  BY <1>m
<1>1. PlacesOK(d, to) /\ SameCell(to)
  BY <1>0, <1>e DEF PlaceInv, PlacesOK, SameCell, MarkersShrink
<1>2. OneOwner(to)
  BY <1>0 DEF PlaceInv, OneOwner
<1>3. CellsOK(to, new)
  <2>1. ASSUME NEW k \in Holders, to[k].cell # None, to[k].level \in Entered
        PROVE  new[to[k].cell] = Open
    <3>1. at[k].cell # None /\ at[k].level \in Entered /\ k # h
      BY <1>0, <2>1
    <3>2. cell[at[k].cell] = Open /\ at[k].cell \in CellIds
      BY <3>1 DEF PlaceInv, CellsOK, PlacesOK
    <3>3. at[k].cell # m
      <4>1. CASE k[2] = "call"
        BY <3>1, <4>1, <1>m DEF PlaceInv, OneOwner
      <4>2. CASE k[2] # "call"
        <5>2. CASE at[k].level \in Locked
          BY <3>1, <5>2 DEF PlaceInv, OneOwner
        <5>3. CASE at[k].level \notin Locked
          BY <3>1, <4>2, <5>3 DEF PlaceInv, PlacesOK, Locked, Holders
        <5> QED
          BY <5>2, <5>3
      <4> QED
        BY <4>1, <4>2
    <3> QED
      BY <1>0, <3>2, <3>3
  <2>2. ASSUME NEW n \in CellIds, new[n] # Open
        PROVE  \E k \in Holders : k[2] = "call" /\ to[k].cell = n
    <3>1. CASE n = m
      BY <3>1, <1>0
    <3>2. CASE n # m
      <4>1. cell[n] # Open
        BY <2>2, <3>2
      <4> QED
        BY <4>1, <1>0 DEF PlaceInv, CellsOK
    <3> QED
      BY <3>1, <3>2
  <2> QED
    BY <2>1, <2>2 DEF CellsOK
<1>4. \A k \in Holders : Waits(k, to, new, done) => Waits(k, at, cell, done) /\ at[k].cell # m
  BY <1>0, <1>n DEF Waits, PlaceInv, PlacesOK
<1> HIDE DEF new
<1>5. OneCell(to, new, done)
  BY <1>0, <1>4 DEF PlaceInv, OneCell
<1>6. Marked(d, to, new, done)
  <2> SUFFICES ASSUME NEW k \in Holders, Waits(k, to, new, done),
                      IsCurrent(d, to[k].root, to[k].generation)
               PROVE  /\ d.states[to[k].root].in_flight # None
                      /\ d.states[to[k].root].in_flight.cell = to[k].cell
    BY DEF Marked
  <2>1. /\ at[k].root \in Roots /\ at[k].generation <= c.next_generation
        /\ at[k].generation \in Nat /\ at[k].cell \in live /\ at[k].cell # m
        /\ Waits(k, at, cell, done)
    BY <1>4 DEF PlaceInv, PlacesOK, Waits
  <2>2. d.states[at[k].root].generation = c.states[at[k].root].generation
        /\ c.states[at[k].root].generation = at[k].generation
    BY <1>0, <2>1 DEF MarkersShrink, IsCurrent, Present
  <2>3. /\ c.states[at[k].root].in_flight # None
        /\ c.states[at[k].root].in_flight.cell = at[k].cell
    BY <1>0, <2>1, <2>2 DEF PlaceInv, Marked, IsCurrent, Present
  <2>4. at[k].root \notin cleared
    <3> SUFFICES ASSUME at[k].root \in cleared
                 PROVE  FALSE
      OBVIOUS
    <3>1. at[k].root = at[h].root /\ at[k].generation = at[h].generation
      BY <2>2
    <3>2. Waits(h, at, cell, done)
      BY <1>m, <2>1, <3>1 DEF Waits, PlaceInv, CellsOK
    <3> QED
      BY <2>1, <3>1, <3>2 DEF PlaceInv, OneCell
  <2> QED
    BY <1>0, <2>1, <2>2, <2>3, <2>4 DEF MarkersShrink, IsCurrent, Present
<1>7. MarkersOK(d, to, new)
  <2>1. ASSUME NEW s \in Roots, d.states[s].in_flight # None
        PROVE  /\ d.states[s].in_flight = c.states[s].in_flight
               /\ d.states[s].generation = c.states[s].generation
               /\ d.states[s].in_flight.cell # m
    BY <2>1 DEF MarkersShrink
  <2>2. ASSUME NEW s \in Roots, d.states[s].in_flight # None
        PROVE  LET marker == d.states[s].in_flight
               IN  /\ marker.cell \in CellIds /\ new[marker.cell] = Open
                   /\ marker.generation = d.states[s].generation /\ Present(d, s)
    BY <2>1, <2>2 DEF PlaceInv, MarkersOK, Present, new
  <2>3. ASSUME NEW s \in Roots, d.states[s].in_flight # None, NEW k \in Holders,
               to[k].cell = d.states[s].in_flight.cell
        PROVE  to[k].root = s /\ to[k].generation = d.states[s].generation
               /\ to[k].level # "built"
    BY <1>0, <2>1, <2>3 DEF PlaceInv, MarkersOK
  <2>4. ASSUME NEW s \in Roots, d.states[s].in_flight # None,
               NEW t \in Roots \ {s}, d.states[t].in_flight # None
        PROVE  d.states[t].in_flight.cell # d.states[s].in_flight.cell
    BY <2>1, <2>4 DEF PlaceInv, MarkersOK
  <2> QED
    BY <2>2, <2>3, <2>4 DEF MarkersOK
<1> QED
  BY <1>1, <1>2, <1>3, <1>5, <1>6, <1>7 DEF PlaceInv, new

Recorded(done, r, g) == [done EXCEPT ![r] = @ \union {g}]

(* The publication of the current generation ends its marker. *)
LEMMA PublishPlaces ==
    ASSUME NEW c, NEW d, NEW at, NEW cell, NEW done, NEW live, NEW h \in Holders,
           NEW to, NEW r, NEW cleared, NEW after,
           PlaceInv(c, at, cell, done), MarkersShrink(c, d, live, cleared), cleared = {r},
           \A k \in Holders : at[k].cell # None => at[k].cell \in live,
           h[2] = "call", at[h].cell # None, at[h].level = "working", r = at[h].root,
           IsCurrent(c, r, at[h].generation), d.states[r].in_flight = None,
           \A k \in Holders \ {h} : to[k] = at[k],
           to[h].cell = at[h].cell, to[h].root = at[h].root,
           to[h].generation = at[h].generation, to[h].level = "built",
           DOMAIN done = Roots, after = Recorded(done, r, at[h].generation)
    PROVE  PlaceInv(d, to, cell, after)
<1>r. r \in Roots
  BY DEF PlaceInv, PlacesOK
<1>0. /\ \A k \in Holders : to[k].cell = at[k].cell /\ to[k].root = at[k].root
                            /\ to[k].generation = at[k].generation
      /\ \A k \in Holders : to[k].level \in Locked => at[k].level \in Locked
      /\ \A k \in Holders : to[k].level \in Entered => at[k].level \in Entered
      /\ \A k \in Holders : to[k].level = "built" => at[k].level = "built" \/ k = h
      /\ \A k \in Holders : to[k].level = "entered" => at[k].level = "entered"
  BY DEF Locked, Entered
<1>1. PlacesOK(d, to) /\ SameCell(to)
  BY <1>0 DEF PlaceInv, PlacesOK, SameCell, MarkersShrink
<1>2. OneOwner(to) /\ CellsOK(to, cell)
  BY <1>0 DEF PlaceInv, OneOwner, CellsOK
<1>3. \A k \in Holders : Waits(k, to, cell, after) =>
         /\ Waits(k, at, cell, done)
         /\ at[k].root = r => at[k].generation # at[h].generation
  BY <1>0, <1>r DEF Waits, PlaceInv, PlacesOK, Recorded
<1>4. OneCell(to, cell, after)
  BY <1>0, <1>3 DEF PlaceInv, OneCell
<1>5. Marked(d, to, cell, after)
  <2> SUFFICES ASSUME NEW k \in Holders, Waits(k, to, cell, after),
                      IsCurrent(d, to[k].root, to[k].generation)
               PROVE  /\ d.states[to[k].root].in_flight # None
                      /\ d.states[to[k].root].in_flight.cell = to[k].cell
    BY DEF Marked
  <2>1. /\ at[k].root \in Roots /\ at[k].generation <= c.next_generation
        /\ at[k].generation \in Nat /\ at[k].cell \in live
        /\ Waits(k, at, cell, done)
    BY <1>3 DEF PlaceInv, PlacesOK, Waits
  <2>2. d.states[at[k].root].generation = c.states[at[k].root].generation
        /\ c.states[at[k].root].generation = at[k].generation
    BY <1>0, <2>1 DEF MarkersShrink, IsCurrent, Present
  <2>3. /\ c.states[at[k].root].in_flight # None
        /\ c.states[at[k].root].in_flight.cell = at[k].cell
    BY <1>0, <2>1, <2>2 DEF PlaceInv, Marked, IsCurrent, Present
  <2>4. at[k].root # r
    BY <1>3, <2>2 DEF IsCurrent
  <2> QED
    BY <1>0, <2>1, <2>2, <2>3, <2>4 DEF MarkersShrink, IsCurrent, Present
<1>6. MarkersOK(d, to, cell)
  <2>1. ASSUME NEW s \in Roots, d.states[s].in_flight # None
        PROVE  /\ d.states[s].in_flight = c.states[s].in_flight
               /\ d.states[s].generation = c.states[s].generation
               /\ d.states[s].in_flight.cell # at[h].cell
    BY <2>1 DEF MarkersShrink, PlaceInv, MarkersOK
  <2> QED
    BY <1>0, <2>1 DEF PlaceInv, MarkersOK, Present
<1> QED
  BY <1>1, <1>2, <1>4, <1>5, <1>6 DEF PlaceInv

(* The other holders do not move. *)
Elsewhere(at, to, h) == \A k \in Holders \ {h} : to[k] = at[k]

(* A call joins the cell of a marker. *)
LEMMA JoinPlaces ==
    ASSUME NEW c, NEW at, NEW cell, NEW done, NEW h \in Holders, NEW to, NEW r \in Roots,
           PlaceInv(c, at, cell, done), h[2] = "call", at[h].cell = None,
           c.states[r].in_flight # None,
           c.next_generation \in Nat, c.states[r].generation \in Nat,
           c.states[r].generation <= c.next_generation,
           Elsewhere(at, to, h),
           to[h].cell = c.states[r].in_flight.cell, to[h].root = r,
           to[h].generation = c.states[r].generation, to[h].level = "waiting"
    PROVE  PlaceInv(c, to, cell, done)
<1> USE DEF Elsewhere
<1>0. /\ to[h].cell \in CellIds /\ cell[to[h].cell] = Open /\ Present(c, r)
      /\ \A k \in Holders : at[k].cell = to[h].cell =>
            at[k].root = r /\ at[k].generation = c.states[r].generation
  BY DEF PlaceInv, MarkersOK
<1>1. PlacesOK(c, to)
  BY <1>0 DEF PlaceInv, PlacesOK
<1>2. SameCell(to)
  BY <1>0 DEF PlaceInv, SameCell
<1>3. OneOwner(to)
  BY DEF PlaceInv, OneOwner, Locked, Entered
<1>4. CellsOK(to, cell)
  <2>1. \A k \in Holders : to[k].cell # None /\ to[k].level \in Entered => cell[to[k].cell] = Open
    BY <1>0 DEF PlaceInv, CellsOK
  <2>2. ASSUME NEW m \in CellIds, cell[m] # Open
        PROVE  \E k \in Holders : k[2] = "call" /\ to[k].cell = m
    <3>1. PICK k \in Holders : k[2] = "call" /\ at[k].cell = m
      BY <2>2 DEF PlaceInv, CellsOK
    <3>2. k # h
      BY <3>1, NoneAssumption DEF CellIds
    <3> QED
      BY <3>1, <3>2
  <2> QED
    BY <2>1, <2>2 DEF CellsOK
<1>5. ASSUME NEW k \in Holders, k # h
      PROVE  Waits(k, to, cell, done) <=> Waits(k, at, cell, done)
  BY <1>5 DEF Waits
<1>6. Marked(c, to, cell, done)
  BY <1>5 DEF PlaceInv, Marked
<1>7. OneCell(to, cell, done)
  <2> SUFFICES ASSUME NEW k \in Holders, k # h, Waits(h, to, cell, done),
                      Waits(k, to, cell, done), to[k].root = r,
                      to[k].generation = c.states[r].generation
               PROVE  to[k].cell = to[h].cell
    BY <1>5 DEF PlaceInv, OneCell
  <2> QED
    BY <1>0, <1>6 DEF Marked, IsCurrent
<1>8. MarkersOK(c, to, cell)
  <2>1. ASSUME NEW s \in Roots, c.states[s].in_flight # None,
               to[h].cell = c.states[s].in_flight.cell
        PROVE  s = r
    <3>1. \A t \in Roots \ {r} :
             c.states[t].in_flight # None
                => c.states[t].in_flight.cell # c.states[r].in_flight.cell
      BY DEF PlaceInv, MarkersOK
    <3> QED
      BY <2>1, <3>1
  <2>2. ASSUME NEW s \in Roots, c.states[s].in_flight # None, NEW k \in Holders,
               to[k].cell = c.states[s].in_flight.cell
        PROVE  to[k].root = s /\ to[k].generation = c.states[s].generation
               /\ to[k].level # "built"
    <3>1. CASE k = h
      BY <2>1, <2>2, <3>1
    <3>2. CASE k # h
      BY <2>2, <3>2 DEF PlaceInv, MarkersOK
    <3> QED
      BY <3>1, <3>2
  <2> QED
    BY <2>2 DEF PlaceInv, MarkersOK
<1> QED
  BY <1>1, <1>2, <1>3, <1>4, <1>6, <1>7, <1>8 DEF PlaceInv

(* A marker with a fresh cell for a generation that has none. *)
LEMMA MarkPlaces ==
    ASSUME NEW c, NEW d, NEW at, NEW cell, NEW done, NEW r \in Roots, NEW fresh \in CellIds,
           PlaceInv(c, at, cell, done), c.states[r].in_flight = None,
           c.states[r].generation \in Nat, Present(c, r),
           \A h \in Holders : at[h].cell # fresh,
           \A s \in Roots : c.states[s].in_flight # None => c.states[s].in_flight.cell # fresh,
           d.next_generation = c.next_generation,
           \A s \in Roots : d.states[s].generation = c.states[s].generation,
           \A s \in Roots \ {r} : d.states[s].in_flight = c.states[s].in_flight,
           d.states[r].in_flight.cell = fresh,
           d.states[r].in_flight.generation = c.states[r].generation
    PROVE  PlaceInv(d, at, cell, done)
<1>1. d.states[r].in_flight.cell = fresh
      /\ d.states[r].in_flight.generation = c.states[r].generation
  OBVIOUS
<1>2. cell[fresh] = Open
  BY DEF PlaceInv, CellsOK
<1>3. Marked(d, at, cell, done)
  <2> SUFFICES ASSUME NEW h \in Holders, Waits(h, at, cell, done),
                      IsCurrent(d, at[h].root, at[h].generation)
               PROVE  /\ d.states[at[h].root].in_flight # None
                      /\ d.states[at[h].root].in_flight.cell = at[h].cell
    BY DEF Marked
  <2>1. at[h].root \in Roots
    BY DEF PlaceInv, PlacesOK, Waits
  <2>2. IsCurrent(c, at[h].root, at[h].generation)
    BY <2>1 DEF IsCurrent, Present
  <2>3. c.states[at[h].root].in_flight # None
        /\ c.states[at[h].root].in_flight.cell = at[h].cell
    BY <2>2 DEF PlaceInv, Marked
  <2> QED
    BY <2>1, <2>3
<1>4. MarkersOK(d, at, cell)
  <2>1. ASSUME NEW s \in Roots, s # r, d.states[s].in_flight # None
        PROVE  /\ c.states[s].in_flight # None
               /\ d.states[s].in_flight = c.states[s].in_flight
               /\ d.states[s].generation = c.states[s].generation
    BY <2>1
  <2> SUFFICES ASSUME NEW s \in Roots, d.states[s].in_flight # None
               PROVE  LET marker == d.states[s].in_flight
                      IN  /\ marker.cell \in CellIds /\ cell[marker.cell] = Open
                          /\ marker.generation = d.states[s].generation /\ Present(d, s)
                          /\ \A h \in Holders : at[h].cell = marker.cell =>
                                /\ at[h].root = s /\ at[h].generation = d.states[s].generation
                                /\ at[h].level # "built"
                          /\ \A t \in Roots \ {s} :
                                d.states[t].in_flight # None
                                    => d.states[t].in_flight.cell # marker.cell
    BY DEF MarkersOK
  <2>2. CASE s = r
    BY <1>1, <1>2, <2>1, <2>2 DEF Present
  <2>3. CASE s # r
    <3>1. LET marker == d.states[s].in_flight
          IN  /\ marker.cell \in CellIds /\ cell[marker.cell] = Open /\ marker.cell # fresh
              /\ marker.generation = d.states[s].generation /\ Present(d, s)
              /\ \A h \in Holders : at[h].cell = marker.cell =>
                    /\ at[h].root = s /\ at[h].generation = d.states[s].generation
                    /\ at[h].level # "built"
      BY <2>1, <2>3 DEF PlaceInv, MarkersOK, Present
    <3>2. ASSUME NEW t \in Roots \ {s}, d.states[t].in_flight # None
          PROVE  d.states[t].in_flight.cell # d.states[s].in_flight.cell
      <4>1. CASE t = r
        BY <1>1, <3>1, <4>1
      <4>2. CASE t # r
        BY <2>1, <2>3, <3>2, <4>2 DEF PlaceInv, MarkersOK
      <4> QED
        BY <4>1, <4>2
    <3> QED
      BY <3>1, <3>2
  <2> QED
    BY <2>2, <2>3
<1>5. PlacesOK(d, at)
  BY DEF PlaceInv, PlacesOK
<1> QED
  BY <1>3, <1>4, <1>5 DEF PlaceInv

(* One call runs get_or_init, then takes the owner lock. *)
LEMMA RaisePlaces ==
    ASSUME NEW c, NEW at, NEW cell, NEW done, NEW h \in Holders, NEW to,
           PlaceInv(c, at, cell, done), h[2] = "call", at[h].cell # None,
           cell[at[h].cell] = Open,
           \A k \in Holders \ {h} : to[k] = at[k],
           to[h].cell = at[h].cell, to[h].root = at[h].root,
           to[h].generation = at[h].generation,
           \/ /\ at[h].level = "waiting" /\ to[h].level = "entered"
              /\ \A k \in Holders : k[2] = "call" /\ at[k].cell = at[h].cell
                                       => at[k].level \notin Entered
           \/ /\ at[h].level = "entered" /\ to[h].level = "working"
              /\ \A k \in Holders : at[k].cell = at[h].cell => at[k].level \notin Locked
    PROVE  PlaceInv(c, to, cell, done)
<1>0. \A k \in Holders : to[k].cell = at[k].cell /\ to[k].root = at[k].root
                         /\ to[k].generation = at[k].generation
  OBVIOUS
<1>1. PlacesOK(c, to) /\ SameCell(to)
  BY <1>0 DEF PlaceInv, PlacesOK, SameCell
<1>2. OneOwner(to)
  BY <1>0 DEF PlaceInv, OneOwner, Locked, Entered
<1>3. CellsOK(to, cell)
  BY <1>0 DEF PlaceInv, CellsOK
<1>4. OneCell(to, cell, done) /\ Marked(c, to, cell, done)
  BY <1>0 DEF PlaceInv, OneCell, Marked, Waits
<1>5. MarkersOK(c, to, cell)
  BY <1>0 DEF PlaceInv, MarkersOK
<1> QED
  BY <1>1, <1>2, <1>3, <1>4, <1>5 DEF PlaceInv

(* A call leaves its cell, perhaps with a job in its place, and the last   *)
(* clone of the cell frees it.                                             *)
Leaves(at, to, h, j) ==
    /\ \A k \in Holders \ {h, j} : to[k] = at[k]
    /\ to[h].cell = None
    /\ \/ to[j] = at[j] \/ to[j].cell = None
       \/ /\ at[h].level = "working" /\ to[j].cell = at[h].cell
          /\ to[j].root = at[h].root /\ to[j].generation = at[h].generation
          /\ to[j].level = "working"

Frees(c, at, cell, new, h) ==
    \/ /\ new = cell
       /\ \/ \E k \in Holders \ {h} : k[2] = "call" /\ at[k].cell = at[h].cell
          \/ \E r \in Roots : c.states[r].in_flight # None
                               /\ c.states[r].in_flight.cell = at[h].cell
    \/ /\ new = [cell EXCEPT ![at[h].cell] = Open]
       /\ \A k \in Holders \ {h} : k[2] = "call" => at[k].cell # at[h].cell

LEMMA LeavePlaces ==
    ASSUME NEW c, NEW at, NEW cell, NEW done, NEW h \in Holders, NEW j \in Holders,
           NEW to, NEW new,
           PlaceInv(c, at, cell, done), DOMAIN cell = CellIds,
           h[2] = "call", j[2] = "job", at[h].cell # None,
           Leaves(at, to, h, j), Frees(c, at, cell, new, h)
    PROVE  PlaceInv(c, to, new, done)
<1> USE DEF Leaves, Frees
<1> DEFINE m == at[h].cell
<1>h. h # j /\ m \in CellIds
  BY DEF PlaceInv, PlacesOK
<1>j. to[j] = at[j] \/ to[j].cell = None
      \/ (/\ at[h].level = "working" /\ to[j].cell = m
          /\ to[j].root = at[h].root /\ to[j].generation = at[h].generation
          /\ to[j].level = "working")
  OBVIOUS
<1> DEFINE from(k) == IF k = j /\ to[j] # at[j] THEN h ELSE k
(* Every holder that is left stands where another holder stood before. *)
<1>0. ASSUME NEW k \in Holders, to[k].cell # None
      PROVE  /\ k # h /\ from(k) \in Holders /\ at[from(k)].cell = to[k].cell
             /\ at[from(k)].root = to[k].root /\ at[from(k)].generation = to[k].generation
             /\ at[from(k)].level = to[k].level
             /\ k[2] = "call" => from(k) = k
  BY <1>0, <1>h, <1>j
<1>1. ASSUME NEW k \in Holders, to[k].cell # None, NEW l \in Holders, to[l].cell # None,
             k # l, from(k) = from(l)
      PROVE  FALSE
  BY <1>0, <1>1, <1>h
<1> HIDE DEF from
<1>2. PlacesOK(c, to)
  BY <1>0, <1>j, <1>h DEF PlaceInv, PlacesOK
<1>3. SameCell(to)
  <2> SUFFICES ASSUME NEW k \in Holders, NEW l \in Holders, to[k].cell # None,
                      to[k].cell = to[l].cell
               PROVE  to[k].root = to[l].root /\ to[k].generation = to[l].generation
    BY DEF SameCell
  <2>1. at[from(k)].cell # None /\ at[from(k)].cell = at[from(l)].cell
        /\ from(k) \in Holders /\ from(l) \in Holders
    BY <1>0
  <2>2. at[from(k)].root = at[from(l)].root
        /\ at[from(k)].generation = at[from(l)].generation
    BY <2>1 DEF PlaceInv, SameCell
  <2> QED
    BY <1>0, <2>2
<1>4. OneOwner(to)
  <2> SUFFICES ASSUME NEW k \in Holders, NEW l \in Holders, k # l, to[k].cell # None,
                      to[k].cell = to[l].cell
               PROVE  /\ ~(to[k].level \in Locked /\ to[l].level \in Locked)
                      /\ ~(k[2] = "call" /\ l[2] = "call"
                             /\ to[k].level \in Entered /\ to[l].level \in Entered)
    BY DEF OneOwner
  <2>1. /\ from(k) # from(l) /\ from(k) \in Holders /\ from(l) \in Holders
        /\ at[from(k)].cell # None /\ at[from(k)].cell = at[from(l)].cell
        /\ at[from(k)].level = to[k].level /\ at[from(l)].level = to[l].level
        /\ k[2] = "call" => from(k) = k
        /\ l[2] = "call" => from(l) = l
    BY <1>0, <1>1
  <2>2. ~(at[from(k)].level \in Locked /\ at[from(l)].level \in Locked)
    BY <2>1 DEF PlaceInv, OneOwner
  <2>3. k[2] = "call" /\ l[2] = "call" =>
            ~(at[k].level \in Entered /\ at[l].level \in Entered)
    BY <2>1 DEF PlaceInv, OneOwner
  <2> QED
    BY <2>1, <2>2, <2>3
(* The cells of the holders that are left keep what they hold. *)
<1>5. ASSUME NEW k \in Holders, to[k].cell # None
      PROVE  new[to[k].cell] = cell[to[k].cell]
  <2>1. CASE new = cell
    BY <2>1
  <2>2. CASE /\ new = [cell EXCEPT ![at[h].cell] = Open]
             /\ \A l \in Holders \ {h} : l[2] = "call" => at[l].cell # at[h].cell
    <3>1. to[k].cell \in CellIds
      BY <1>2, <1>5 DEF PlacesOK
    <3>2. CASE to[k].cell # m
      BY <2>2, <3>1, <3>2
    <3>3. CASE to[k].cell = m
      <4>1. k[2] # "call"
        BY <1>0, <1>5, <2>2, <3>3
      <4>2. k[2] = "job"
        BY <4>1 DEF Holders
      <4>3. cell[m] = Open
        <5>1. CASE from(k) = h
          <6>1. at[h].level = "working"
            BY <1>0, <1>5, <1>j, <1>h, <5>1 DEF from
          <6> QED
            BY <6>1 DEF PlaceInv, CellsOK, Entered
        <5>2. CASE from(k) # h
          <6>1. from(k) = k
            BY <5>2 DEF from
          <6>2. at[k].level \in Entered
            BY <1>0, <1>5, <4>2, <6>1 DEF PlaceInv, PlacesOK, Entered
          <6> QED
            BY <1>0, <1>5, <3>3, <6>1, <6>2 DEF PlaceInv, CellsOK
        <5> QED
          BY <5>1, <5>2
      <4> QED
        BY <2>2, <3>3, <4>3, <1>h
    <3> QED
      BY <3>2, <3>3
  <2> QED
    BY <2>1, <2>2
<1>6. ASSUME NEW n \in CellIds
      PROVE  /\ cell[n] = Open => new[n] = Open
             /\ new[n] # Open => \E k \in Holders \ {h} : k[2] = "call" /\ at[k].cell = n
  <2>1. cell[n] = Open => new[n] = Open
    OBVIOUS
  <2>2. ASSUME new[n] # Open
        PROVE  \E k \in Holders \ {h} : k[2] = "call" /\ at[k].cell = n
    <3>0. cell[n] # Open
      BY <2>2
    <3>1. PICK k \in Holders : k[2] = "call" /\ at[k].cell = n
      BY <3>0 DEF PlaceInv, CellsOK
    <3>2. CASE n # m
      BY <3>1, <3>2
    <3>3. CASE n = m
      <4>1. ~ \E r \in Roots : c.states[r].in_flight # None
                                      /\ c.states[r].in_flight.cell = at[h].cell
        BY <3>0, <3>3 DEF PlaceInv, MarkersOK
      <4>2. new # [cell EXCEPT ![at[h].cell] = Open]
        BY <2>2, <3>3, <1>h
      <4> QED
        BY <4>1, <4>2, <3>3
    <3> QED
      BY <3>2, <3>3
  <2> QED
    BY <2>1, <2>2
<1>7. CellsOK(to, new)
  <2>1. ASSUME NEW k \in Holders, to[k].cell # None, to[k].level \in Entered
        PROVE  new[to[k].cell] = Open
    BY <1>0, <1>5, <2>1 DEF PlaceInv, CellsOK
  <2>2. ASSUME NEW n \in CellIds, new[n] # Open
        PROVE  \E k \in Holders : k[2] = "call" /\ to[k].cell = n
    BY <1>6, <2>2, <1>h
  <2> QED
    BY <2>1, <2>2 DEF CellsOK
<1>8. ASSUME NEW k \in Holders, Waits(k, to, new, done)
      PROVE  /\ to[k].cell # None
             /\ Waits(from(k), at, cell, done)
  BY <1>0, <1>5, <1>8 DEF Waits
<1>9. OneCell(to, new, done)
  <2> SUFFICES ASSUME NEW k \in Holders, NEW l \in Holders, Waits(k, to, new, done),
                      Waits(l, to, new, done), to[k].root = to[l].root,
                      to[k].generation = to[l].generation
               PROVE  to[k].cell = to[l].cell
    BY DEF OneCell
  <2>1. /\ Waits(from(k), at, cell, done) /\ Waits(from(l), at, cell, done)
        /\ from(k) \in Holders /\ from(l) \in Holders
        /\ at[from(k)].root = at[from(l)].root
        /\ at[from(k)].generation = at[from(l)].generation
        /\ at[from(k)].cell = to[k].cell /\ at[from(l)].cell = to[l].cell
    BY <1>0, <1>8
  <2> QED
    BY <2>1 DEF PlaceInv, OneCell
<1>10. Marked(c, to, new, done)
  BY <1>0, <1>8 DEF PlaceInv, Marked
<1>11. MarkersOK(c, to, new)
  <2> SUFFICES ASSUME NEW r \in Roots, c.states[r].in_flight # None
               PROVE  LET marker == c.states[r].in_flight
                      IN  /\ new[marker.cell] = Open
                          /\ \A k \in Holders : to[k].cell = marker.cell =>
                                /\ to[k].root = r /\ to[k].generation = c.states[r].generation
                                /\ to[k].level # "built"
    BY DEF PlaceInv, MarkersOK
  <2>1. new[c.states[r].in_flight.cell] = Open /\ c.states[r].in_flight.cell # None
    BY <1>6, NoneAssumption DEF PlaceInv, MarkersOK, CellIds
  <2>2. ASSUME NEW k \in Holders, to[k].cell = c.states[r].in_flight.cell
        PROVE  /\ to[k].root = r /\ to[k].generation = c.states[r].generation
               /\ to[k].level # "built"
    <3>1. from(k) \in Holders /\ at[from(k)].cell = c.states[r].in_flight.cell
      BY <1>0, <2>1, <2>2
    <3>2. at[from(k)].root = r /\ at[from(k)].generation = c.states[r].generation
          /\ at[from(k)].level # "built"
      BY <3>1 DEF PlaceInv, MarkersOK
    <3> QED
      BY <1>0, <2>1, <2>2, <3>2
  <2> QED
    BY <2>1, <2>2
<1> QED
  BY <1>2, <1>3, <1>4, <1>7, <1>9, <1>10, <1>11 DEF PlaceInv

(* An abandoned job ends. *)
LEMMA JobEndsPlaces ==
    ASSUME NEW c, NEW at, NEW cell, NEW done, NEW h \in Holders, NEW to,
           PlaceInv(c, at, cell, done), h[2] = "job",
           \A k \in Holders \ {h} : to[k] = at[k], to[h].cell = None
    PROVE  PlaceInv(c, to, cell, done)
<1>1. PlacesOK(c, to) /\ SameCell(to) /\ OneOwner(to)
  BY DEF PlaceInv, PlacesOK, SameCell, OneOwner
<1>2. CellsOK(to, cell)
  <2>1. ASSUME NEW m \in CellIds, cell[m] # Open
        PROVE  \E k \in Holders : k[2] = "call" /\ to[k].cell = m
    <3>1. PICK k \in Holders : k[2] = "call" /\ at[k].cell = m
      BY <2>1 DEF PlaceInv, CellsOK
    <3>2. k # h
      BY <3>1
    <3> QED
      BY <3>1, <3>2
  <2> QED
    BY <2>1 DEF PlaceInv, CellsOK
<1>3. \A k \in Holders : Waits(k, to, cell, done) => k # h /\ Waits(k, at, cell, done)
  BY DEF Waits
<1>4. OneCell(to, cell, done) /\ Marked(c, to, cell, done)
  BY <1>3 DEF PlaceInv, OneCell, Marked
<1>5. MarkersOK(c, to, cell)
  <2>1. ASSUME NEW r \in Roots, c.states[r].in_flight # None, NEW k \in Holders,
               to[k].cell = c.states[r].in_flight.cell
        PROVE  k # h
    BY <2>1, NoneAssumption DEF PlaceInv, MarkersOK, CellIds
  <2> QED
    BY <2>1 DEF PlaceInv, MarkersOK
<1> QED
  BY <1>1, <1>2, <1>4, <1>5 DEF PlaceInv

-----------------------------------------------------------------------------
(* A fresh cell is one that nobody uses: there are more cells than calls,  *)
(* jobs and markers.                                                       *)
LEMMA ImageBound ==
    ASSUME NEW S, IsFiniteSet(S), NEW f, DOMAIN f = S
    PROVE  LET T == {f[x] : x \in S}
           IN  IsFiniteSet(T) /\ Cardinality(T) \in Nat /\ Cardinality(T) <= Cardinality(S)
<1> DEFINE T == {f[x] : x \in S}
           g == [x \in S |-> f[x]]
<1>1. g \in Surjection(S, T)
  BY DEF Surjection
<1> HIDE DEF T, g
<1> QED
  BY <1>1, FS_Surjection, FS_CardinalityType DEF T

LEMMA FreshCellUnused ==
    FreshCell \in CellIds /\ FreshCell \notin UsedCells
<1> DEFINE a == [p \in Reqs |-> req[p].cell]
           b == [p \in Reqs |-> orphan[p].cell]
           d == [r \in Roots |-> cache.states[r].in_flight.cell]
           A == {a[p] : p \in Reqs}
           B == {b[p] : p \in Reqs}
           D == {d[r] : r \in Roots}
           n == Cardinality(Reqs)
           k == Cardinality(Roots)
<1>1. /\ IsFiniteSet(A) /\ Cardinality(A) \in Nat /\ Cardinality(A) <= n
      /\ IsFiniteSet(B) /\ Cardinality(B) \in Nat /\ Cardinality(B) <= n
      /\ IsFiniteSet(D) /\ Cardinality(D) \in Nat /\ Cardinality(D) <= k
      /\ n \in Nat /\ k \in Nat
  <2>0. IsFiniteSet(Reqs) /\ IsFiniteSet(Roots)
    BY ServiceAssumption, CacheAssumption
  <2>1. n \in Nat /\ k \in Nat
    BY <2>0, FS_CardinalityType
  <2>2. DOMAIN a = Reqs /\ DOMAIN b = Reqs /\ DOMAIN d = Roots
    OBVIOUS
  <2> HIDE DEF a, b, d
  <2> QED
    BY <2>0, <2>1, <2>2, ImageBound
<1>2. UsedCells \subseteq (A \union B) \union D
  BY DEF UsedCells, LiveCells
<1> HIDE DEF A, B, D
<1>3. /\ IsFiniteSet(A \union B)
      /\ Cardinality(A \union B) \in Nat /\ Cardinality(A \union B) <= 2 * n
  <2>1. /\ IsFiniteSet(A \union B)
        /\ Cardinality(A \union B) = Cardinality(A) + Cardinality(B) - Cardinality(A \cap B)
    BY <1>1, FS_Union
  <2>2. Cardinality(A \cap B) \in Nat /\ Cardinality(A \union B) \in Nat
    BY <1>1, <2>1, FS_Subset, FS_CardinalityType
  <2> QED
    BY <1>1, <2>1, <2>2
<1> DEFINE E == (A \union B) \union D
<1>4. /\ IsFiniteSet(E) /\ Cardinality(E) \in Nat /\ Cardinality(E) <= 2 * n + k
  <2>1. /\ IsFiniteSet(E)
        /\ Cardinality(E) = Cardinality(A \union B) + Cardinality(D)
                               - Cardinality((A \union B) \cap D)
    BY <1>1, <1>3, FS_Union
  <2>2. Cardinality((A \union B) \cap D) \in Nat /\ Cardinality(E) \in Nat
    BY <1>1, <1>3, <2>1, FS_Subset, FS_CardinalityType
  <2> HIDE DEF n, k, E
  <2> QED
    BY <1>1, <1>3, <2>1, <2>2
<1>5. /\ IsFiniteSet(CellIds) /\ Cardinality(CellIds) = 2 * n + k + 1
      /\ CellIds \subseteq Nat
  <2>1. 2 * n + k + 1 \in Nat /\ 1 <= 2 * n + k + 1
    <3> HIDE DEF n, k
    <3> QED
      BY <1>1
  <2>2. CellIds = 1 .. (2 * n + k + 1)
    BY DEF CellIds
  <2> HIDE DEF n, k
  <2> QED
    BY <1>1, <2>1, <2>2, FS_Interval
<1> HIDE DEF E, n, k
<1>6. ~(CellIds \subseteq E)
  <2> SUFFICES ASSUME CellIds \subseteq E
               PROVE  FALSE
    OBVIOUS
  <2>1. Cardinality(CellIds) <= Cardinality(E)
    BY <1>4, FS_Subset
  <2> QED
    BY <1>1, <1>4, <1>5, <2>1
<1>7. CellIds \ UsedCells # {} /\ CellIds \ UsedCells \subseteq Nat
  BY <1>2, <1>5, <1>6 DEF E
<1>8. FreshCell \in CellIds \ UsedCells
  BY <1>7, MinIs DEF FreshCell
<1> QED
  BY <1>8

LEMMA LiveCellsHeld ==
    ASSUME TypeOK
    PROVE  \A h \in Holders : /\ places[h].cell # None => places[h].cell \in LiveCells
                              /\ places[h].cell # FreshCell
<1> SUFFICES ASSUME NEW h \in Holders, places[h].cell # None
             PROVE  places[h].cell \in LiveCells
  BY FreshCellUnused, NoneAssumption DEF UsedCells, CellIds
<1>1. PICK p \in Reqs, t \in {"call", "job"} : h = <<p, t>>
  BY DEF Holders
<1>2. CASE t = "call"
  <2>1. places[h] = CallPlace(req[p])
    BY <1>1, <1>2 DEF places
  <2>2. req[p].cell # None /\ places[h].cell = req[p].cell
    BY <2>1 DEF CallPlace, Outside
  <2> QED
    BY <2>2 DEF LiveCells
<1>3. CASE t = "job"
  <2>1. places[h] = JobPlace(orphan[p])
    BY <1>1, <1>3 DEF places
  <2>2. orphan[p] # None /\ orphan[p].cell # None /\ places[h].cell = orphan[p].cell
    BY <2>1 DEF JobPlace, Outside
  <2> QED
    BY <2>2 DEF LiveCells
<1> QED
  BY <1>1, <1>2, <1>3

-----------------------------------------------------------------------------
(* What a step may do to the world a call lives in: a generation stays     *)
(* current only while no epoch begins and no full rebuild is asked for.    *)
Onward(c, d, ep, later, art, edited) ==
    \A r \in Roots :
        /\ \/ /\ d.states[r].generation = c.states[r].generation
              /\ d.states[r].full_rebuild => c.states[r].full_rebuild
              /\ later[r] = ep[r]
           \/ d.states[r].generation = 0 \/ d.states[r].generation > c.next_generation
        /\ ep[r] \in Nat /\ later[r] \in Nat /\ later[r] >= ep[r]
        /\ art[r] \in Nat /\ edited[r] \in Nat /\ edited[r] >= art[r]

LEMMA CallInvOnward ==
    ASSUME NEW q, CallOK(q), NEW c, NEW d, NEW ep, NEW later, NEW art, NEW edited,
           c.next_generation \in Nat, q.generation <= c.next_generation,
           Onward(c, d, ep, later, art, edited), CallInv(q, c, ep, art)
    PROVE  CallInv(q, d, later, edited)
<1>1. CASE q.pc \in Quiet
  BY <1>1 DEF CallInv, Quiet, Owning, Finishing
<1>2. CASE q.pc \notin Quiet
  <2>1. q.root \in Roots /\ q.generation \in Nat
    BY <1>2 DEF CallOK
  <2>2. IsCurrent(d, q.root, q.generation) =>
           /\ IsCurrent(c, q.root, q.generation)
           /\ d.states[q.root].full_rebuild => c.states[q.root].full_rebuild
           /\ later[q.root] = ep[q.root]
    BY <2>1 DEF Onward, IsCurrent, Present
  <2>3. /\ ep[q.root] \in Nat /\ later[q.root] \in Nat /\ later[q.root] >= ep[q.root]
        /\ art[q.root] \in Nat /\ edited[q.root] \in Nat /\ edited[q.root] >= art[q.root]
    BY <2>1 DEF Onward
  <2>4. q.since \in Nat /\ q.stamps \in Nat
    BY DEF CallOK
  <2> QED
    BY <2>2, <2>3, <2>4 DEF CallInv
<1> QED
  BY <1>1, <1>2

LEMMA StateInvWeaker ==
    ASSUME NEW c, NEW d, NEW live, NEW ep, Weaker(c, d, live), StateInv(c, ep)
    PROVE  StateInv(d, ep)
<1> SUFFICES ASSUME NEW r \in Roots
             PROVE  /\ ~Present(d, r) => d.states[r].index = None /\ d.states[r].in_flight = None
                    /\ d.states[r].index # None =>
                          /\ d.states[r].index.began = ep[r]
                          /\ d.states[r].index.content = d.states[r].index.stamps
  BY DEF StateInv
<1>1. Reduced(c.states[r], d.states[r], live, c.next_generation)
  BY DEF Weaker
<1> QED
  BY <1>1 DEF StateInv, Reduced, Present

LEMMA WeakerOnward ==
    ASSUME NEW c, NEW d, NEW live, NEW ep \in [Roots -> Nat], NEW art \in [Roots -> Nat],
           Weaker(c, d, live)
    PROVE  Onward(c, d, ep, ep, art, art)
BY DEF Weaker, Reduced, Onward

(* The call p moves and no other call does. *)
Moves(p) == DOMAIN req' = Reqs /\ \A x \in Reqs \ {p} : req'[x] = req[x]

(* It stays outside the cells, or at its work in its cell. *)
Stays(q, t) ==
    \/ q.cell = None /\ t.cell = None
    \/ /\ q.pc \in Owning /\ t.pc \in Owning /\ Level(t.pc) = Level(q.pc)
       /\ t.cell = q.cell /\ t.root = q.root /\ t.generation = q.generation
       /\ t.since = q.since /\ t.began = q.began

LEMMA PlacesSame ==
    ASSUME NEW p \in Reqs, Moves(p), orphan' = orphan, Stays(req[p], req'[p])
    PROVE  places' = places
<1>1. CallPlace(req'[p]) = CallPlace(req[p])
  BY DEF Stays, CallPlace
<1>2. \A x \in Reqs : CallPlace(req'[x]) = CallPlace(req[x])
  BY <1>1 DEF Moves
<1>3. ASSUME NEW h \in Holders
      PROVE  h[1] \in Reqs
  BY DEF Holders
<1> QED
  BY <1>2, <1>3 DEF places

LEMMA Frame ==
    ASSUME IInv, NEW p \in Reqs, Moves(p), Stays(req[p], req'[p]), CallOK(req'[p]),
           req'[p].generation <= cache'.next_generation,
           UNCHANGED <<cells, orphan, published>>,
           CacheOK(cache'), MarkersShrink(cache, cache', LiveCells, {}),
           epoch' \in [Roots -> Nat], artifacts' \in [Roots -> Nat],
           Onward(cache, cache', epoch, epoch', artifacts, artifacts'),
           StateInv(cache', epoch'), CallInv(req'[p], cache', epoch', artifacts')
    PROVE  IInv'
<1>1. TypeOK'
  <2>1. ASSUME NEW x \in Reqs
        PROVE  CallOK(req'[x]) /\ req'[x].generation <= cache'.next_generation
    <3>1. CASE x = p
      BY <3>1
    <3>2. CASE x # p
      <4>1. /\ CallOK(req[x]) /\ req[x].generation <= cache.next_generation
            /\ req'[x] = req[x]
        BY <3>2 DEF IInv, TypeOK, Moves
      <4>2. req[x].generation \in Nat
        BY <4>1 DEF CallOK
      <4> QED
        BY <4>1, <4>2 DEF MarkersShrink
    <3> QED
      BY <3>1, <3>2
  <2> QED
    BY <2>1 DEF IInv, TypeOK, Moves
<1>2. PlaceInv(cache', places', cells', published')
  <2>1. places' = places
    BY PlacesSame
  <2> QED
    BY <2>1, ShrinkPlaces, LiveCellsHeld DEF IInv
<1>3. ASSUME NEW x \in Reqs
      PROVE  CallInv(req'[x], cache', epoch', artifacts')
  <2>1. CASE x # p
    <3>1. /\ CallOK(req[x]) /\ req[x].generation <= cache.next_generation
          /\ req'[x] = req[x] /\ CallInv(req[x], cache, epoch, artifacts)
          /\ cache.next_generation \in Nat
      BY <2>1 DEF IInv, TypeOK, Moves, CacheOK
    <3> QED
      BY <3>1, CallInvOnward
  <2> QED
    BY <2>1
<1>4. SharedInv(req', cells')
  <2>1. \A x \in Reqs : /\ req'[x].cell = req[x].cell
                        /\ req[x].cell # None =>
                              /\ req'[x].since = req[x].since /\ req'[x].began = req[x].began
                              /\ req'[x].pc \in Owning => req[x].pc \in Owning
    BY DEF Moves, Stays
  <2> QED
    BY <2>1 DEF IInv, SharedInv
<1> QED
  BY <1>1, <1>2, <1>3, <1>4 DEF IInv

(* A step that only weakens the cache. *)
LEMMA Ordinary ==
    ASSUME IInv, NEW p \in Reqs, Moves(p), Stays(req[p], req'[p]), CallOK(req'[p]),
           req'[p].generation <= cache'.next_generation,
           UNCHANGED <<cells, orphan, published, epoch, artifacts>>,
           Weaker(cache, cache', LiveCells),
           CallInv(req[p], cache', epoch, artifacts)
              => CallInv(req'[p], cache', epoch, artifacts)
    PROVE  IInv'
<1>1. CacheOK(cache) /\ CacheOK(cache') /\ MarkersShrink(cache, cache', LiveCells, {})
  BY WeakerShrinks DEF IInv, TypeOK, Weaker
<1>2. epoch \in [Roots -> Nat] /\ artifacts \in [Roots -> Nat]
  BY DEF IInv, TypeOK
<1>3. Onward(cache, cache', epoch, epoch', artifacts, artifacts')
  BY <1>2, WeakerOnward
<1>4. StateInv(cache', epoch')
  BY StateInvWeaker DEF IInv
<1>5. CallInv(req[p], cache', epoch, artifacts)
  BY <1>1, <1>3, CallInvOnward DEF IInv, TypeOK, CacheOK
<1> QED
  BY <1>1, <1>2, <1>3, <1>4, <1>5, Frame

Kept(q, t, changed) == DOMAIN t = Fields /\ \A f \in Fields \ changed : t[f] = q[f]

(* A step of a build after it took the owner lock. *)
LEMMA Works ==
    ASSUME IInv, NEW p \in Reqs, Moves(p),
           Kept(req[p], req'[p], {"pc", "classpath", "stamps", "reuse", "changed", "index"}),
           req[p].pc \in Owning, req'[p].pc \in Owning, Level(req'[p].pc) = Level(req[p].pc),
           req'[p].stamps \in Nat, req'[p].reuse \in BOOLEAN, req'[p].changed \in BOOLEAN,
           UNCHANGED <<cells, orphan, published, epoch, artifacts>>,
           Weaker(cache, cache', LiveCells),
           CallInv(req[p], cache', epoch, artifacts)
              => CallInv(req'[p], cache', epoch, artifacts)
    PROVE  IInv'
<1>1. /\ CallOK(req[p]) /\ req[p].generation <= cache.next_generation
      /\ cache.next_generation \in Nat
  BY DEF IInv, TypeOK, CacheOK
<1>2. /\ req'[p].cell = req[p].cell /\ req'[p].root = req[p].root
      /\ req'[p].generation = req[p].generation /\ req'[p].since = req[p].since
      /\ req'[p].began = req[p].began /\ DOMAIN req'[p] = Fields
  BY DEF Kept, Fields
<1>3. req[p].pc \notin Quiet /\ req[p].pc \in Members
      /\ req'[p].pc \notin Quiet /\ req'[p].pc \in Members
  BY DEF Owning, Quiet, Members
<1>4. CallOK(req'[p])
  BY <1>1, <1>2, <1>3 DEF CallOK
<1>5. req'[p].generation <= cache'.next_generation
  BY <1>1, <1>2 DEF Weaker, CacheOK, CallOK
<1>6. Stays(req[p], req'[p])
  BY <1>2 DEF Stays
<1> QED
  BY <1>4, <1>5, <1>6, Ordinary

(* A step outside the cells. *)
LEMMA Passes ==
    ASSUME IInv, NEW p \in Reqs, Moves(p), CallOK(req'[p]),
           req[p].pc \notin Members, req'[p].pc \notin Members,
           req'[p].generation <= cache'.next_generation,
           UNCHANGED <<cells, orphan, published, epoch, artifacts>>,
           Weaker(cache, cache', LiveCells),
           CallInv(req[p], cache', epoch, artifacts)
              => CallInv(req'[p], cache', epoch, artifacts)
    PROVE  IInv'
<1>1. Stays(req[p], req'[p])
  BY DEF IInv, TypeOK, CallOK, Stays
<1> QED
  BY <1>1, Ordinary

LEMMA EnvLive == ASSUME NEW p PROVE EnvOf(p).live = LiveCells
BY DEF EnvOf

LEMMA EndedCall ==
    ASSUME NEW pc \in Quiet
    PROVE  /\ CallOK(Ended(pc)) /\ Ended(pc).generation = 0 /\ Ended(pc).pc = pc
           /\ Ended(pc).cell = None /\ pc \notin Members
           /\ \A c, ep, art : CallInv(Ended(pc), c, ep, art)
<1>1. /\ DOMAIN Ended(pc) = Fields /\ Ended(pc).pc = pc /\ Ended(pc).generation = 0
      /\ Ended(pc).since = 0 /\ Ended(pc).began = 0 /\ Ended(pc).stamps = 0
      /\ Ended(pc).reuse \in BOOLEAN /\ Ended(pc).changed \in BOOLEAN
      /\ Ended(pc).cell = None
  BY DEF Ended, Idle, Fields
<1>2. pc \notin Members /\ pc \notin Owning
  BY DEF Quiet, Members, Owning
<1>3. CallOK(Ended(pc))
  BY <1>1, <1>2 DEF CallOK
<1>4. pc \notin {"verify", "publish", "validate", "use", "reserve", "flag", "build"}
      /\ pc \notin Finishing
  BY DEF Quiet, Finishing
<1>5. \A c, ep, art : CallInv(Ended(pc), c, ep, art)
  BY <1>1, <1>2, <1>4 DEF CallInv
<1> QED
  BY <1>1, <1>2, <1>3, <1>5

(* The steps at which a call has nothing to show but its epoch. *)
Plain == {"refresh", "forget", "runner", "discover", "install", "running", "lookup",
          "cell", "owner"}

LEMMA PlainCall ==
    ASSUME NEW q, q.pc \in Plain, NEW c, NEW ep, NEW art
    PROVE  CallInv(q, c, ep, art) <=> q.since <= ep[q.root]
BY DEF Plain, CallInv, Owning, Quiet, Finishing

LEMMA StartStep ==
    ASSUME IInv, NEW p \in Reqs, Start(p)
    PROVE  IInv'
<1>1. CallOK(req[p]) /\ DOMAIN req = Reqs /\ req[p].pc = "idle"
  BY DEF IInv, TypeOK, Start, At
<1>2. PICK kind \in Kinds[p], r \in Roots : Receive(p, kind, r)
  BY DEF Start
<1>3. /\ Moves(p) /\ Kept(req[p], req'[p], {"kind", "root", "pc", "since"})
      /\ req'[p].root = r /\ req'[p].since = epoch[r] /\ req'[p].pc \in {"refresh", "runner"}
  BY <1>1, <1>2 DEF Receive, Moves, Kept, CallOK, Fields
<1>4. epoch[r] \in Nat /\ req[p].cell = None /\ req[p].pc \notin Members
      /\ req'[p].pc \notin Members /\ req'[p].pc \notin Quiet /\ req'[p].pc \in Plain
  BY <1>1, <1>3 DEF IInv, TypeOK, CallOK, Members, Owning, Quiet, Plain
<1>5. CallOK(req'[p]) /\ req'[p].generation = req[p].generation
  BY <1>1, <1>3, <1>4 DEF Kept, CallOK, Fields
<1>6. req'[p].since <= epoch[r] /\ req[p].generation <= cache.next_generation /\ CacheOK(cache)
  BY <1>3, <1>4 DEF IInv, TypeOK
<1>7. CallInv(req'[p], cache', epoch, artifacts)
  BY <1>3, <1>4, <1>5, <1>6, PlainCall
<1>8. Weaker(cache, cache', LiveCells) /\ cache' = cache
      /\ UNCHANGED <<cells, orphan, published, epoch, artifacts>>
  BY <1>6, WeakerReflexive DEF Start, disk, world, history
<1> QED
  BY <1>3, <1>4, <1>5, <1>6, <1>7, <1>8, Passes

(* A call that goes on outside the cells with the same root and epoch. *)
LEMMA PlainStep ==
    ASSUME IInv, NEW p \in Reqs, Moves(p),
           Kept(req[p], req'[p], {"pc", "snapshot", "model"}),
           req[p].pc \in Plain \ {"cell", "owner"}, req'[p].pc \in Plain \ {"cell", "owner"},
           UNCHANGED <<cells, orphan, published, epoch, artifacts>>,
           Weaker(cache, cache', LiveCells)
    PROVE  IInv'
<1>1. CallOK(req[p]) /\ req[p].generation <= cache.next_generation
      /\ cache.next_generation \in Nat
  BY DEF IInv, TypeOK, CacheOK
<1>2. /\ req'[p].cell = req[p].cell /\ req'[p].root = req[p].root
      /\ req'[p].generation = req[p].generation /\ req'[p].since = req[p].since
      /\ req'[p].began = req[p].began /\ DOMAIN req'[p] = Fields
      /\ req'[p].stamps = req[p].stamps /\ req'[p].reuse = req[p].reuse
      /\ req'[p].changed = req[p].changed
  BY DEF Kept, Fields
<1>3. req[p].pc \notin Members /\ req'[p].pc \notin Members
      /\ req[p].pc \notin Quiet /\ req'[p].pc \notin Quiet
  BY DEF Plain, Members, Owning, Quiet
<1>4. CallOK(req'[p])
  BY <1>1, <1>2, <1>3 DEF CallOK
<1>5. req'[p].generation <= cache'.next_generation
  BY <1>1, <1>2 DEF Weaker, CacheOK, CallOK
<1>6. CallInv(req[p], cache', epoch, artifacts) => CallInv(req'[p], cache', epoch, artifacts)
  BY <1>2, PlainCall
<1> QED
  BY <1>3, <1>4, <1>5, <1>6, Passes

(* A call that ends outside the cells. *)
LEMMA EndStep ==
    ASSUME IInv, NEW p \in Reqs, req[p].pc \notin Members, NEW pc \in Quiet,
           req' = [req EXCEPT ![p] = Ended(pc)],
           UNCHANGED <<cells, orphan, published, epoch, artifacts>>,
           Weaker(cache, cache', LiveCells)
    PROVE  IInv'
<1>1. Moves(p) /\ req'[p] = Ended(pc)
  BY DEF Moves, IInv, TypeOK
<1>2. cache'.next_generation \in Nat
  BY DEF Weaker, CacheOK
<1>3. CallOK(req'[p]) /\ req'[p].pc \notin Members
      /\ req'[p].generation <= cache'.next_generation
      /\ CallInv(req'[p], cache', epoch, artifacts)
  BY <1>1, <1>2, EndedCall
<1> QED
  BY <1>1, <1>3, Passes

LEMMA RunnerSteps ==
    ASSUME IInv, NEW p \in Reqs,
           CheckRunner(p) \/ Discover(p) \/ DiscoverFails(p) \/ Install(p)
    PROVE  IInv'
<1>1. /\ CallOK(req[p]) /\ DOMAIN req = Reqs /\ CacheOK(cache)
  BY DEF IInv, TypeOK
<1>2. AfterRunner(p) \in {"running", "lookup"}
  BY DEF AfterRunner
<1>3. CASE CheckRunner(p)
  <2>1. /\ Moves(p) /\ Kept(req[p], req'[p], {"pc", "snapshot", "model"})
        /\ req[p].pc = "runner" /\ req'[p].pc \in {AfterRunner(p), "discover"}
    BY <1>1, <1>3 DEF CheckRunner, Moves, Kept, CallOK, Fields, At
  <2>2. Weaker(cache, cache', LiveCells)
        /\ UNCHANGED <<cells, orphan, published, epoch, artifacts>>
    BY <1>1, <1>3, LookupRunnerWeaker DEF CheckRunner, disk, world, history
  <2>3. req[p].pc \in Plain \ {"cell", "owner"} /\ req'[p].pc \in Plain \ {"cell", "owner"}
    BY <1>2, <2>1 DEF Plain
  <2> QED
    BY <2>1, <2>2, <2>3, PlainStep
<1>4. CASE Discover(p)
  <2>1. /\ Moves(p) /\ Kept(req[p], req'[p], {"pc", "snapshot", "model"})
        /\ req[p].pc = "discover" /\ req'[p].pc = "install"
    BY <1>1, <1>4 DEF Discover, Moves, Kept, CallOK, Fields, At
  <2>2. Weaker(cache, cache', LiveCells)
        /\ UNCHANGED <<cells, orphan, published, epoch, artifacts>>
    BY <1>1, <1>4, WeakerReflexive DEF Discover, disk, world, history
  <2>3. req[p].pc \in Plain \ {"cell", "owner"} /\ req'[p].pc \in Plain \ {"cell", "owner"}
    BY <2>1 DEF Plain
  <2> QED
    BY <2>1, <2>2, <2>3, PlainStep
<1>5. CASE DiscoverFails(p)
  <2>1. req[p].pc = "discover" /\ req' = [req EXCEPT ![p] = Ended("done")]
    BY <1>5 DEF DiscoverFails, At
  <2>2. req[p].pc \notin Members /\ req[p].pc \notin Quiet /\ "done" \in Quiet
    BY <2>1 DEF Members, Owning, Quiet
  <2>3. Weaker(cache, cache', LiveCells)
    BY <1>1, <1>5, <2>2, DiscardProjectWeaker, EnvLive DEF DiscoverFails, CallOK, Root
  <2>4. UNCHANGED <<cells, orphan, published, epoch, artifacts>>
    BY <1>5 DEF DiscoverFails, disk, world, history
  <2> QED
    BY <2>1, <2>2, <2>3, <2>4, EndStep
<1>6. CASE Install(p)
  <2>0. req[p].pc = "install" /\ req[p].root \in Roots
    BY <1>1, <1>6 DEF Install, At, CallOK, Quiet
  <2>1. PICK stamped \in req[p].model .. pom[Root(p)] : InstallStamped(p, stamped)
    BY <1>6 DEF Install
  <2>2. /\ Moves(p) /\ Kept(req[p], req'[p], {"pc", "snapshot", "model"})
        /\ req'[p].pc = AfterRunner(p)
    BY <1>1, <2>1 DEF InstallStamped, Moves, Kept, CallOK, Fields
  <2>3. Weaker(cache, cache', LiveCells)
    BY <1>1, <2>0, <2>1, InstallRunnerWeaker, EnvLive DEF InstallStamped, Root
  <2>4. UNCHANGED <<cells, orphan, published, epoch, artifacts>>
    BY <1>6 DEF Install, disk, world, history
  <2>5. req[p].pc \in Plain \ {"cell", "owner"} /\ req'[p].pc \in Plain \ {"cell", "owner"}
    BY <1>2, <2>0, <2>2 DEF Plain
  <2> QED
    BY <2>2, <2>3, <2>4, <2>5, PlainStep
<1> QED
  BY <1>3, <1>4, <1>5, <1>6

(* A refresh or a finished Maven run begins an epoch of its project. *)
LEMMA EpochBegins ==
    ASSUME IInv, NEW p \in Reqs, NEW r \in Roots, Moves(p), r = req[p].root,
           req[p].pc \in {"refresh", "running"}, req'[p].pc = "forget",
           Kept(req[p], req'[p], {"pc", "since", "snapshot"}),
           req'[p].since \in {req[p].since, epoch[r] + 1},
           epoch' = [epoch EXCEPT ![r] = @ + 1],
           UNCHANGED <<cells, orphan, published, artifacts>>,
           Weaker(cache, cache', LiveCells),
           cache'.states[r].generation = 0
              \/ cache'.states[r].generation > cache.next_generation,
           cache'.states[r].index = None, cache'.states[r].in_flight = None
    PROVE  IInv'
<1>1. /\ CacheOK(cache) /\ CacheOK(cache') /\ MarkersShrink(cache, cache', LiveCells, {})
      /\ CallOK(req[p]) /\ req[p].generation <= cache.next_generation
      /\ epoch \in [Roots -> Nat] /\ artifacts \in [Roots -> Nat]
  BY WeakerShrinks DEF IInv, TypeOK, Weaker
<1>2. /\ epoch' \in [Roots -> Nat] /\ artifacts' \in [Roots -> Nat]
      /\ epoch'[r] = epoch[r] + 1 /\ \A s \in Roots \ {r} : epoch'[s] = epoch[s]
  BY <1>1
<1>3. Onward(cache, cache', epoch, epoch', artifacts, artifacts')
  <2>1. Onward(cache, cache', epoch, epoch, artifacts, artifacts)
    BY <1>1, WeakerOnward
  <2> QED
    BY <1>1, <1>2, <2>1 DEF Onward
<1>4. StateInv(cache', epoch')
  <2>1. StateInv(cache', epoch)
    BY StateInvWeaker DEF IInv
  <2> QED
    BY <1>2, <2>1 DEF StateInv
<1>5. /\ req'[p].cell = req[p].cell /\ req'[p].root = req[p].root
      /\ req'[p].generation = req[p].generation
      /\ req'[p].began = req[p].began /\ DOMAIN req'[p] = Fields
      /\ req'[p].stamps = req[p].stamps /\ req'[p].reuse = req[p].reuse
      /\ req'[p].changed = req[p].changed
  BY DEF Kept, Fields
<1>6. /\ req[p].pc \notin Members /\ req'[p].pc \notin Members
      /\ req[p].pc \notin Quiet /\ req'[p].pc \notin Quiet
      /\ req[p].pc \in Plain /\ req'[p].pc \in Plain
  BY DEF Members, Owning, Quiet, Plain
<1>7. req[p].since <= epoch[r] /\ req[p].since \in Nat /\ epoch[r] \in Nat
  BY <1>1, <1>6, PlainCall DEF IInv, CallOK
<1>8. CallOK(req'[p]) /\ Stays(req[p], req'[p])
  BY <1>1, <1>5, <1>6, <1>7 DEF CallOK, Stays
<1>9. CallInv(req'[p], cache', epoch', artifacts')
  <2>1. req'[p].since <= epoch'[req'[p].root]
    BY <1>2, <1>5, <1>7
  <2> QED
    BY <1>6, <2>1, PlainCall
<1>10. req'[p].generation <= cache'.next_generation
  BY <1>1, <1>5 DEF Weaker, CacheOK, CallOK
<1> QED
  BY <1>1, <1>2, <1>3, <1>4, <1>8, <1>9, <1>10, Frame

LEMMA RefreshStep ==
    ASSUME IInv, NEW p \in Reqs, Refresh(p)
    PROVE  IInv'
<1> DEFINE r == req[p].root
<1>1. /\ CallOK(req[p]) /\ DOMAIN req = Reqs /\ CacheOK(cache) /\ req[p].pc = "refresh"
      /\ StateInv(cache, epoch)
  BY DEF IInv, TypeOK, Refresh, At
<1>2. r \in Roots
  BY <1>1 DEF CallOK, Quiet
<1>3. /\ Moves(p) /\ Kept(req[p], req'[p], {"pc", "since", "snapshot"})
      /\ req'[p].pc = "forget" /\ req'[p].since = epoch[r] + 1
  BY <1>1 DEF Refresh, Moves, Kept, CallOK, Fields, Root
<1>4. ~Present(cache, r) => cache.states[r].index = None /\ cache.states[r].in_flight = None
  BY <1>1, <1>2 DEF StateInv
<1>5. cache' = RequireFullRebuild(InvalidateAfterMaven(cache, r, EnvOf(p)), r)
  BY DEF Refresh, Root
<1>6. /\ Weaker(cache, cache', LiveCells)
      /\ cache'.states[r].generation > cache.next_generation
      /\ cache'.states[r].index = None /\ cache'.states[r].in_flight = None
  <2> HIDE DEF r
  <2> QED
    BY <1>1, <1>2, <1>4, <1>5, RefreshWeaker, EnvLive
<1>7. epoch' = [epoch EXCEPT ![r] = @ + 1]
      /\ UNCHANGED <<cells, orphan, published, artifacts>>
  BY DEF Refresh, Root, disk, world
<1> QED
  BY <1>1, <1>2, <1>3, <1>6, <1>7, EpochBegins

LEMMA InvalidateProjectStep ==
    ASSUME IInv, NEW p \in Reqs, InvalidateProject(p)
    PROVE  IInv'
<1> DEFINE r == req[p].root
<1>1. /\ CallOK(req[p]) /\ DOMAIN req = Reqs /\ CacheOK(cache) /\ req[p].pc = "running"
      /\ StateInv(cache, epoch)
  BY DEF IInv, TypeOK, InvalidateProject, At
<1>2. r \in Roots
  BY <1>1 DEF CallOK, Quiet
<1>3. /\ Moves(p) /\ Kept(req[p], req'[p], {"pc", "since", "snapshot"})
      /\ req'[p].pc = "forget" /\ req'[p].since = req[p].since
  BY <1>1 DEF InvalidateProject, Moves, Kept, CallOK, Fields, Root
<1>4. ~Present(cache, r) => cache.states[r].index = None /\ cache.states[r].in_flight = None
  BY <1>1, <1>2 DEF StateInv
<1>5. cache' = InvalidateAfterMaven(cache, r, EnvOf(p))
  BY DEF InvalidateProject, Root
<1>6. Weaker(cache, cache', LiveCells) /\ Renewed(cache, cache', r)
  <2> HIDE DEF r
  <2> QED
    BY <1>1, <1>2, <1>5, InvalidateAfterMavenWeaker, EnvLive
<1>7. cache'.states[r].index = None /\ cache'.states[r].in_flight = None
  BY <1>2, <1>4, <1>6 DEF Weaker, Reduced, Renewed
<1>8. epoch' = [epoch EXCEPT ![r] = @ + 1]
      /\ UNCHANGED <<cells, orphan, published, artifacts>>
  BY DEF InvalidateProject, Root, disk, world
<1> QED
  BY <1>1, <1>2, <1>3, <1>6, <1>7, <1>8, EpochBegins DEF Renewed

LEMMA ForgottenStep ==
    ASSUME IInv, NEW p \in Reqs, req[p].pc = "forget", Forgotten(p),
           UNCHANGED <<cache, cells, orphan, published, epoch, artifacts>>
    PROVE  IInv'
<1>1. /\ CallOK(req[p]) /\ DOMAIN req = Reqs /\ Weaker(cache, cache', LiveCells)
  BY WeakerReflexive DEF IInv, TypeOK
<1>2. CASE req[p].kind = "refresh"
  <2>1. /\ Moves(p) /\ Kept(req[p], req'[p], {"pc", "snapshot", "model"})
        /\ req'[p].pc = "runner"
    BY <1>1, <1>2 DEF Forgotten, Moves, Kept, CallOK, Fields
  <2>2. req[p].pc \in Plain \ {"cell", "owner"} /\ req'[p].pc \in Plain \ {"cell", "owner"}
    BY <2>1 DEF Plain
  <2> QED
    BY <1>1, <2>1, <2>2, PlainStep
<1>3. CASE req[p].kind # "refresh"
  <2>1. req' = [req EXCEPT ![p] = Ended("done")]
    BY <1>1, <1>3 DEF Forgotten
  <2>2. "done" \in Quiet /\ req[p].pc \notin Members
    BY DEF Quiet, Members, Owning
  <2> QED
    BY <1>1, <2>1, <2>2, EndStep
<1> QED
  BY <1>2, <1>3

LEMMA ForgetStep ==
    ASSUME IInv, NEW p \in Reqs, Forget(p)
    PROVE  IInv'
BY ForgottenStep DEF Forget, At, world, history

LEMMA UseStep ==
    ASSUME IInv, NEW p \in Reqs, req[p].pc \in {"validate", "use", "running"},
           req' = [req EXCEPT ![p] = Ended("done")],
           UNCHANGED <<cache, cells, orphan, published, epoch, artifacts>>
    PROVE  IInv'
<1>1. "done" \in Quiet /\ req[p].pc \notin Members
  BY DEF Quiet, Members, Owning
<1>2. Weaker(cache, cache', LiveCells)
  BY WeakerReflexive DEF IInv, TypeOK
<1> QED
  BY <1>1, <1>2, EndStep

(* A retry keeps the epoch of the call's own invalidation. *)
LEMMA RetriedCall ==
    ASSUME NEW q, CallOK(q), q.pc \notin Quiet, NEW c, NEW ep, NEW art, CallInv(q, c, ep, art)
    PROVE  /\ CallOK(Retried(q)) /\ Retried(q).generation = 0 /\ Retried(q).cell = None
           /\ Retried(q).pc \notin Members /\ CallInv(Retried(q), c, ep, art)
<1>1. CASE q.attempts + 1 < MaxAttempts
  <2>1. /\ DOMAIN Retried(q) = Fields /\ Retried(q).pc = "runner"
        /\ Retried(q).generation = 0
        /\ Retried(q).since = q.since /\ Retried(q).began = 0 /\ Retried(q).stamps = 0
        /\ Retried(q).reuse \in BOOLEAN /\ Retried(q).changed \in BOOLEAN
        /\ Retried(q).cell = None /\ Retried(q).root = q.root
    BY <1>1 DEF Retried, Idle, Fields
  <2>2. "runner" \notin Quiet /\ "runner" \notin Members /\ "runner" \in Plain
    BY DEF Quiet, Members, Owning, Plain
  <2>3. q.since <= ep[q.root]
    BY DEF CallInv
  <2>4. CallOK(Retried(q))
    BY <2>1, <2>2 DEF CallOK
  <2>5. CallInv(Retried(q), c, ep, art)
    BY <2>1, <2>2, <2>3, PlainCall
  <2> QED
    BY <2>1, <2>2, <2>4, <2>5
<1>2. CASE ~(q.attempts + 1 < MaxAttempts)
  <2>1. Retried(q) = Ended("done") /\ "done" \in Quiet
    BY <1>2 DEF Retried, Quiet
  <2> QED
    BY <2>1, EndedCall
<1> QED
  BY <1>1, <1>2

(* A served call holds an index that is as new as its invalidation. *)
LEMMA ServedCall ==
    ASSUME NEW q, CallOK(q), q.pc \notin Quiet, NEW c, NEW ep, NEW art,
           CallInv(q, c, ep, art), NEW index, index.began \in Nat, index.began >= q.since
    PROVE  /\ CallOK(Serve(q, index)) /\ Serve(q, index).generation = 0
           /\ Serve(q, index).cell = None /\ Serve(q, index).pc \notin Members
           /\ CallInv(Serve(q, index), c, ep, art)
<1> SUFFICES ASSUME NEW t, t = Serve(q, index)
             PROVE  /\ CallOK(t) /\ t.generation = 0 /\ t.cell = None
                    /\ t.pc \notin Members /\ CallInv(t, c, ep, art)
  OBVIOUS
<1>1. /\ DOMAIN t = Fields /\ t.pc = "use" /\ t.index = index /\ t.cell = None
      /\ t.generation = 0 /\ t.since = q.since /\ t.began = q.began /\ t.stamps = q.stamps
      /\ t.reuse = q.reuse /\ t.changed = q.changed /\ t.root = q.root
  BY DEF Serve, CallOK, Fields
<1>2. "use" \notin Quiet /\ "use" \notin Members /\ "use" \notin Finishing /\ "use" \notin Owning
  BY DEF Quiet, Members, Owning, Finishing
<1>3. q.since <= ep[q.root]
  BY DEF CallInv
<1>4. CallOK(t)
  BY <1>1, <1>2 DEF CallOK
<1>5. CallInv(t, c, ep, art)
  BY <1>1, <1>2, <1>3 DEF CallInv
<1> QED
  BY <1>1, <1>2, <1>4, <1>5

LEMMA ValidateStep ==
    ASSUME IInv, NEW p \in Reqs, Validate(p)
    PROVE  IInv'
<1>1. /\ CallOK(req[p]) /\ DOMAIN req = Reqs /\ CacheOK(cache) /\ req[p].pc = "validate"
      /\ req[p].generation <= cache.next_generation
      /\ UNCHANGED <<cells, orphan, published, epoch, artifacts>>
  BY DEF IInv, TypeOK, Validate, At, disk, world, history
<1>2. /\ req[p].pc \notin Quiet /\ req[p].pc \notin Members /\ req[p].root \in Roots
      /\ req[p].generation \in Nat
  BY <1>1 DEF CallOK, Quiet, Members, Owning
<1>3. CASE req[p].index.stamps = artifacts[Root(p)]
  <2>1. req' = [req EXCEPT ![p] = Serve(@, @.index)] /\ cache' = RecordHit(cache, Root(p))
    BY <1>3 DEF Validate
  <2>2. Moves(p) /\ req'[p] = Serve(req[p], req[p].index)
    BY <1>1, <2>1 DEF Moves
  <2>3. Weaker(cache, cache', LiveCells)
    BY <1>1, <2>1, LookupRunnerWeaker
  <2>4. /\ CallInv(req[p], cache', epoch, artifacts) => CallInv(req'[p], cache', epoch, artifacts)
        /\ CallInv(req[p], cache, epoch, artifacts) =>
              CallOK(req'[p]) /\ req'[p].generation = 0 /\ req'[p].pc \notin Members
    <3>1. ASSUME NEW c, CallInv(req[p], c, epoch, artifacts)
          PROVE  req[p].index.began \in Nat /\ req[p].index.began >= req[p].since
      BY <1>1, <3>1 DEF CallInv
    <3> QED
      BY <1>1, <1>2, <2>2, <3>1, ServedCall
  <2>5. CallInv(req[p], cache, epoch, artifacts) /\ cache'.next_generation \in Nat
    BY <2>3 DEF IInv, Weaker, CacheOK
  <2> QED
    BY <1>1, <1>2, <2>2, <2>3, <2>4, <2>5, Passes
<1>4. CASE req[p].index.stamps # artifacts[Root(p)]
  <2>1. req' = [req EXCEPT ![p] = Retried(@)]
        /\ cache' = InvalidateGeneration(cache, Root(p), req[p].generation, EnvOf(p))
    BY <1>4 DEF Validate
  <2>2. Moves(p) /\ req'[p] = Retried(req[p])
    BY <1>1, <2>1 DEF Moves
  <2>3. Weaker(cache, cache', LiveCells)
    BY <1>1, <1>2, <2>1, InvalidateGenerationWeaker, EnvLive DEF Root
  <2>4. CallInv(req[p], cache, epoch, artifacts) /\ cache'.next_generation \in Nat
    BY <2>3 DEF IInv, Weaker, CacheOK
  <2> QED
    BY <1>1, <1>2, <2>2, <2>3, <2>4, RetriedCall, Passes
<1> QED
  BY <1>3, <1>4

LEMMA Levels ==
    /\ \A pc \in Owning \ Finishing : Level(pc) = "working"
    /\ \A pc \in Finishing : Level(pc) = "built"
    /\ Level("cell") = "waiting" /\ Level("owner") = "entered"
<1>1. \A pc \in Owning \ Finishing : Level(pc) = "working"
  BY DEF Owning, Finishing, Level
<1>2. \A pc \in Finishing : Level(pc) = "built"
  BY DEF Finishing, Level
<1>3. Level("cell") = "waiting" /\ Level("owner") = "entered"
  BY DEF Level, Finishing
<1> QED
  BY <1>1, <1>2, <1>3

LEMMA ResolveSteps ==
    ASSUME IInv, NEW p \in Reqs, Resolve(p) \/ ResolveWithMaven(p) \/ Stamp(p)
    PROVE  IInv'
<1>1. /\ CallOK(req[p]) /\ DOMAIN req = Reqs /\ CacheOK(cache)
      /\ artifacts \in [Roots -> Nat]
  BY DEF IInv, TypeOK
<1>2. Weaker(cache, cache', LiveCells) /\ cache' = cache
      /\ UNCHANGED <<cells, orphan, published, epoch, artifacts>>
  BY <1>1, WeakerReflexive DEF Resolve, ResolveWithMaven, Stamp, disk, world, history
<1>3. CASE Resolve(p) \/ ResolveWithMaven(p)
  <2>1. /\ Moves(p) /\ Kept(req[p], req'[p], {"pc", "classpath"})
        /\ req[p].pc \in {"resolve", "maven"} /\ req'[p].pc \in {"maven", "stamp"}
    <3>1. CASE Resolve(p)
      BY <1>1, <3>1 DEF Resolve, Moves, Kept, CallOK, Fields, At
    <3>2. CASE ResolveWithMaven(p)
      <4>1. PICK settled \in BOOLEAN : Resolved(p, settled)
        BY <3>2 DEF ResolveWithMaven
      <4>2. req[p].pc = "maven"
        BY <3>2 DEF ResolveWithMaven, At
      <4> QED
        BY <1>1, <4>1, <4>2 DEF Resolved, Moves, Kept, CallOK, Fields
    <3> QED
      BY <1>3, <3>1, <3>2
  <2>2. /\ req[p].pc \in Owning \ Finishing /\ req'[p].pc \in Owning \ Finishing
        /\ req[p].pc \notin Quiet /\ req'[p].pc \notin Quiet
    BY <2>1 DEF Owning, Finishing, Quiet
  <2>3. /\ req'[p].root = req[p].root /\ req'[p].since = req[p].since
        /\ req'[p].generation = req[p].generation /\ req'[p].began = req[p].began
        /\ req'[p].stamps = req[p].stamps /\ req'[p].reuse = req[p].reuse
        /\ req'[p].changed = req[p].changed
        /\ Kept(req[p], req'[p], {"pc", "classpath", "stamps", "reuse", "changed", "index"})
    BY <2>1 DEF Kept, Fields
  <2>4. CallInv(req[p], cache', epoch, artifacts) => CallInv(req'[p], cache', epoch, artifacts)
    BY <2>1, <2>2, <2>3 DEF CallInv
  <2>5. Level(req'[p].pc) = Level(req[p].pc)
    BY <2>2, Levels
  <2>6. req'[p].stamps \in Nat /\ req'[p].reuse \in BOOLEAN /\ req'[p].changed \in BOOLEAN
    BY <1>1, <2>3 DEF CallOK
  <2> QED
    BY <1>2, <2>1, <2>2, <2>3, <2>4, <2>5, <2>6, Works
<1>4. CASE Stamp(p)
  <2>1. /\ Moves(p) /\ Kept(req[p], req'[p], {"pc", "stamps"})
        /\ req[p].pc = "stamp" /\ req'[p].pc = "reserve"
        /\ req'[p].stamps = artifacts[req[p].root]
    BY <1>1, <1>4 DEF Stamp, Moves, Kept, CallOK, Fields, At, Root
  <2>2. /\ req[p].pc \in Owning \ Finishing /\ req'[p].pc \in Owning \ Finishing
        /\ req[p].pc \notin Quiet /\ req'[p].pc \notin Quiet
    BY <2>1 DEF Owning, Finishing, Quiet
  <2>3. /\ req'[p].root = req[p].root /\ req'[p].since = req[p].since
        /\ req'[p].generation = req[p].generation /\ req'[p].began = req[p].began
        /\ req'[p].reuse = req[p].reuse /\ req'[p].changed = req[p].changed
        /\ Kept(req[p], req'[p], {"pc", "classpath", "stamps", "reuse", "changed", "index"})
    BY <2>1 DEF Kept, Fields
  <2>4. artifacts[req[p].root] \in Nat
    BY <1>1, <2>2 DEF CallOK
  <2>5. CallInv(req[p], cache', epoch, artifacts) => CallInv(req'[p], cache', epoch, artifacts)
    BY <2>1, <2>2, <2>3, <2>4 DEF CallInv
  <2>6. Level(req'[p].pc) = Level(req[p].pc)
    BY <2>2, Levels
  <2>7. req'[p].stamps \in Nat /\ req'[p].reuse \in BOOLEAN /\ req'[p].changed \in BOOLEAN
    BY <1>1, <2>1, <2>3, <2>4 DEF CallOK
  <2> QED
    BY <1>2, <2>1, <2>2, <2>3, <2>5, <2>6, <2>7, Works
<1> QED
  BY <1>3, <1>4

LEMMA BuildSteps ==
    ASSUME IInv, NEW p \in Reqs, ReadFlag(p) \/ BuildScoped(p) \/ VerifyBuild(p)
    PROVE  IInv'
<1>1. /\ CallOK(req[p]) /\ DOMAIN req = Reqs /\ CacheOK(cache)
      /\ artifacts \in [Roots -> Nat]
  BY DEF IInv, TypeOK
<1>2. Weaker(cache, cache', LiveCells) /\ cache' = cache
      /\ UNCHANGED <<cells, orphan, published, epoch, artifacts>>
  BY <1>1, WeakerReflexive DEF ReadFlag, BuildScoped, VerifyBuild, disk, world, history
<1>3. SUFFICES ASSUME /\ Moves(p) /\ req[p].pc \in {"flag", "build", "verify"}
                      /\ req'[p].pc \in {"build", "verify", "publish"}
                      /\ Kept(req[p], req'[p], {"pc", "reuse", "changed", "index"})
                      /\ req'[p].reuse \in BOOLEAN /\ req'[p].changed \in BOOLEAN,
                      /\ req'[p].root = req[p].root /\ req'[p].since = req[p].since
                      /\ req'[p].generation = req[p].generation
                      /\ req'[p].began = req[p].began /\ req'[p].stamps = req[p].stamps,
                      CallInv(req[p], cache, epoch, artifacts)
               PROVE  CallInv(req'[p], cache, epoch, artifacts)
  <2>1. /\ Moves(p) /\ req[p].pc \in {"flag", "build", "verify"}
        /\ req'[p].pc \in {"build", "verify", "publish"}
        /\ Kept(req[p], req'[p], {"pc", "reuse", "changed", "index"})
        /\ req'[p].reuse \in BOOLEAN /\ req'[p].changed \in BOOLEAN
    <3>1. CASE ReadFlag(p)
      BY <1>1, <3>1 DEF ReadFlag, Moves, Kept, CallOK, Fields, At
    <3>2. CASE BuildScoped(p)
      BY <1>1, <3>2 DEF BuildScoped, Moves, Kept, CallOK, Fields, At
    <3>3. CASE VerifyBuild(p)
      BY <1>1, <3>3 DEF VerifyBuild, Moves, Kept, CallOK, Fields, At
    <3> QED
      BY <3>1, <3>2, <3>3
  <2>2. /\ req[p].pc \in Owning \ Finishing /\ req'[p].pc \in Owning \ Finishing
    BY <2>1 DEF Owning, Finishing
  <2>3. /\ req'[p].root = req[p].root /\ req'[p].since = req[p].since
        /\ req'[p].generation = req[p].generation /\ req'[p].began = req[p].began
        /\ req'[p].stamps = req[p].stamps
        /\ Kept(req[p], req'[p], {"pc", "classpath", "stamps", "reuse", "changed", "index"})
    BY <2>1 DEF Kept, Fields
  <2>4. req'[p].stamps \in Nat
    BY <1>1, <2>3 DEF CallOK
  <2>5. Level(req'[p].pc) = Level(req[p].pc)
    BY <2>2, Levels
  <2> QED
    BY <1>2, <2>1, <2>2, <2>3, <2>4, <2>5, Works
<1>4. /\ req[p].pc \in Owning /\ req[p].pc \notin Quiet /\ req'[p].pc \notin Quiet
      /\ req'[p].pc \notin Finishing
  BY <1>3 DEF Owning, Quiet, Finishing
<1>5. artifacts[req[p].root] \in Nat /\ req[p].root \in Roots /\ req[p].stamps \in Nat
  BY <1>1, <1>4 DEF CallOK
<1>6. CASE ReadFlag(p)
  <2>1. req[p].pc = "flag" /\ req'[p].pc = "build"
        /\ req'[p].reuse = ~RequiresFullRebuild(cache, req[p].root)
    BY <1>1, <1>6 DEF ReadFlag, CallOK, Fields, At, Root
  <2>2. IsCurrent(cache, req[p].root, req[p].generation)
           /\ cache.states[req[p].root].full_rebuild => ~req'[p].reuse
    BY <2>1 DEF RequiresFullRebuild, IsCurrent
  <2> QED
    BY <1>3, <1>4, <2>1, <2>2 DEF CallInv
<1>7. CASE BuildScoped(p)
  <2>1. /\ req[p].pc = "build" /\ req'[p].pc = "verify"
        /\ req'[p].index.began = req[p].began /\ req'[p].index.stamps = req[p].stamps
        /\ req'[p].index.content = artifacts[req[p].root]
        /\ req'[p].reuse = req[p].reuse
    BY <1>1, <1>7 DEF BuildScoped, CallOK, Fields, At, Root
  <2>2. req'[p].index.reread = ~req[p].reuse
    BY <1>1, <1>7 DEF BuildScoped, CallOK, Fields
  <2>3. ~req'[p].reuse => req'[p].index.reread
    BY <2>1, <2>2, Zenon
  <2> QED
    BY <1>3, <1>4, <1>5, <2>1, <2>3 DEF CallInv
<1>8. CASE VerifyBuild(p)
  <2>1. /\ req[p].pc = "verify" /\ req'[p].pc = "publish"
        /\ req'[p].index = req[p].index /\ req'[p].reuse = req[p].reuse
        /\ ~req'[p].changed => req[p].stamps = artifacts[req[p].root]
    BY <1>1, <1>8 DEF VerifyBuild, CallOK, Fields, At, Root
  <2>2. ~req'[p].changed => req[p].index.content = req[p].index.stamps
    BY <1>3, <1>5, <2>1 DEF CallInv
  <2> QED
    BY <1>3, <1>4, <2>1, <2>2 DEF CallInv
<1> QED
  BY <1>6, <1>7, <1>8

(* Steps that only move on. *)
LEMMA MoveOn ==
    ASSUME IInv, NEW p \in Reqs, NEW pc, req' = [req EXCEPT ![p].pc = pc],
           \/ req[p].pc = "reserve" /\ pc = "flag"
           \/ req[p].pc = "persist" /\ pc = "recheck"
           \/ req[p].pc = "recheck" /\ pc = "unpersist",
           UNCHANGED <<cells, orphan, published, epoch, artifacts>>,
           Weaker(cache, cache', LiveCells)
    PROVE  IInv'
<1>1. CallOK(req[p]) /\ DOMAIN req = Reqs
  BY DEF IInv, TypeOK
<1>2. Moves(p) /\ Kept(req[p], req'[p], {"pc"}) /\ req'[p].pc = pc
  BY <1>1 DEF Moves, Kept, CallOK, Fields
<1>3. /\ req[p].pc \in Owning /\ pc \in Owning /\ req[p].pc \notin Quiet /\ pc \notin Quiet
      /\ Level(pc) = Level(req[p].pc)
  <2>1. CASE req[p].pc = "reserve" /\ pc = "flag"
    <3>1. req[p].pc \in Owning \ Finishing /\ pc \in Owning \ Finishing
          /\ req[p].pc \notin Quiet /\ pc \notin Quiet
      BY <2>1 DEF Owning, Finishing, Quiet
    <3> QED
      BY <3>1, Levels
  <2>2. CASE \/ req[p].pc = "persist" /\ pc = "recheck"
             \/ req[p].pc = "recheck" /\ pc = "unpersist"
    <3>1. req[p].pc \in Owning \cap Finishing /\ pc \in Owning \cap Finishing
          /\ req[p].pc \notin Quiet /\ pc \notin Quiet
      BY <2>2 DEF Owning, Finishing, Quiet
    <3> QED
      BY <3>1, Levels
  <2> QED
    BY <2>1, <2>2
<1>4. /\ req'[p].root = req[p].root /\ req'[p].since = req[p].since
      /\ req'[p].generation = req[p].generation /\ req'[p].began = req[p].began
      /\ req'[p].stamps = req[p].stamps /\ req'[p].reuse = req[p].reuse
      /\ req'[p].changed = req[p].changed /\ req'[p].index = req[p].index
      /\ Kept(req[p], req'[p], {"pc", "classpath", "stamps", "reuse", "changed", "index"})
  BY <1>2 DEF Kept, Fields
<1>5. CallInv(req[p], cache', epoch, artifacts) => CallInv(req'[p], cache', epoch, artifacts)
  BY <1>2, <1>3, <1>4 DEF CallInv, Finishing
<1>6. req'[p].stamps \in Nat /\ req'[p].reuse \in BOOLEAN /\ req'[p].changed \in BOOLEAN
  BY <1>1, <1>4 DEF CallOK
<1> QED
  BY <1>2, <1>3, <1>4, <1>5, <1>6, Works

-----------------------------------------------------------------------------
(* Steps that move a call into, through or out of a cell: what is left to  *)
(* show is the place, the sharers and the call itself.                     *)
LEMMA Assemble ==
    ASSUME IInv, NEW p \in Reqs, Moves(p), CallOK(req'[p]),
           req'[p].generation <= cache'.next_generation,
           DOMAIN cells' = CellIds, Outcomes(cells'), published' \in [Roots -> SUBSET Nat],
           DOMAIN orphan' = Reqs, \A x \in Reqs : JobOK(orphan'[x]),
           CacheOK(cache'), cache'.next_generation >= cache.next_generation,
           UNCHANGED <<epoch, artifacts>>,
           Onward(cache, cache', epoch, epoch, artifacts, artifacts),
           StateInv(cache', epoch), CallInv(req'[p], cache', epoch, artifacts),
           PlaceInv(cache', places', cells', published'), SharedInv(req', cells')
    PROVE  IInv'
<1>1. ASSUME NEW x \in Reqs
      PROVE  /\ CallOK(req'[x]) /\ req'[x].generation <= cache'.next_generation
             /\ CallInv(req'[x], cache', epoch', artifacts')
  <2>1. CASE x = p
    BY <2>1
  <2>2. CASE x # p
    <3>1. /\ CallOK(req[x]) /\ req[x].generation <= cache.next_generation
          /\ req'[x] = req[x] /\ CallInv(req[x], cache, epoch, artifacts)
          /\ cache.next_generation \in Nat /\ cache'.next_generation \in Nat
      BY <2>2 DEF IInv, TypeOK, Moves, CacheOK
    <3>2. req[x].generation \in Nat
      BY <3>1 DEF CallOK
    <3>3. CallInv(req'[x], cache', epoch', artifacts')
      BY <3>1, CallInvOnward
    <3> QED
      BY <3>1, <3>2, <3>3
  <2> QED
    BY <2>1, <2>2
<1>2. TypeOK'
  BY <1>1 DEF IInv, TypeOK, Moves
<1> QED
  BY <1>1, <1>2 DEF IInv

(* The places a moving call changes. *)
LEMMA CallMoves ==
    ASSUME NEW p \in Reqs, Moves(p), NEW h, h = <<p, "call">>
    PROVE  /\ h \in Holders /\ h[1] = p /\ h[2] = "call"
           /\ places[h] = CallPlace(req[p]) /\ places'[h] = CallPlace(req'[p])
           /\ orphan' = orphan => \A k \in Holders \ {h} : places'[k] = places[k]
           /\ \A k \in Holders : k[2] = "call" => /\ k[1] \in Reqs /\ k = <<k[1], "call">>
                                                  /\ places[k] = CallPlace(req[k[1]])
           /\ \A k \in Holders : k[2] # "call" => /\ k[1] \in Reqs /\ k = <<k[1], "job">>
                                                  /\ places[k] = JobPlace(orphan[k[1]])
<1>1. h \in Holders /\ h[1] = p /\ h[2] = "call"
  BY DEF Holders
<1>2. \A k \in Holders : k[1] \in Reqs /\ (k[2] = "call" \/ k[2] = "job") /\ k = <<k[1], k[2]>>
  BY DEF Holders
<1>3. places[h] = CallPlace(req[p]) /\ places'[h] = CallPlace(req'[p])
  BY <1>1 DEF places
<1>4. ASSUME orphan' = orphan, NEW k \in Holders \ {h}
      PROVE  places'[k] = places[k]
  <2>1. CASE k[2] = "call"
    <3>1. k[1] # p
      BY <1>2, <2>1
    <3> QED
      BY <1>2, <2>1, <3>1 DEF places, Moves
  <2>2. CASE k[2] # "call"
    BY <1>2, <1>4, <2>2 DEF places
  <2> QED
    BY <2>1, <2>2
<1>5. \A k \in Holders : /\ k[2] = "call" => places[k] = CallPlace(req[k[1]])
                         /\ k[2] # "call" => places[k] = JobPlace(orphan[k[1]])
  BY DEF places
<1> QED
  BY <1>1, <1>2, <1>3, <1>4, <1>5

(* A member of a cell stands in it. *)
LEMMA MemberPlace ==
    ASSUME NEW q, CallOK(q)
    PROVE  /\ q.pc \in Members => /\ q.cell # None /\ CallPlace(q).cell = q.cell
                                  /\ CallPlace(q).level = Level(q.pc)
                                  /\ CallPlace(q).root = q.root
                                  /\ CallPlace(q).generation = q.generation
           /\ q.pc \notin Members => q.cell = None /\ CallPlace(q).cell = None
<1>1. q.pc \in Members => q.cell \in CellIds /\ q.cell # None
  BY NoneAssumption DEF CallOK, CellIds
<1>2. q.pc \notin Members => q.cell = None
  BY DEF CallOK
<1> QED
  BY <1>1, <1>2 DEF CallPlace, Outside

LEMMA MemberLevels ==
    /\ \A pc \in Members : Level(pc) \in Locked => pc \in Owning
    /\ \A pc \in Members : Level(pc) \in Entered => pc \in Owning \union {"owner"}
    /\ \A pc \in Owning : Level(pc) \in Locked
    /\ \A pc \in Owning \union {"owner"} : Level(pc) \in Entered
    /\ Level("cell") \notin Entered /\ Level("owner") \notin Locked
<1>1. Level("cell") = "waiting" /\ Level("owner") = "entered"
  BY Levels
<1>2. \A pc \in Owning : Level(pc) = "working" \/ Level(pc) = "built"
  BY Levels
<1> QED
  BY <1>1, <1>2 DEF Members, Locked, Entered

(* A waiter becomes the initialiser of its cell, then takes the owner lock *)
(* once no abandoned job keeps it.                                         *)
LEMMA EnterStep ==
    ASSUME IInv, NEW p \in Reqs, EnterCell(p) \/ AcquireOwner(p)
    PROVE  IInv'
<1> DEFINE h == <<p, "call">>
           m == req[p].cell
<1>1. /\ CallOK(req[p]) /\ DOMAIN req = Reqs /\ CacheOK(cache)
      /\ artifacts \in [Roots -> Nat] /\ epoch \in [Roots -> Nat]
      /\ req[p].generation <= cache.next_generation /\ cache.next_generation \in Nat
  BY DEF IInv, TypeOK, CacheOK
<1>2. UNCHANGED <<cache, cells, orphan, published, epoch, artifacts>>
  BY DEF EnterCell, AcquireOwner, disk, world, history
<1>3. /\ Moves(p) /\ Kept(req[p], req'[p], {"pc", "began"}) /\ req'[p].began \in Nat
      /\ \/ /\ req[p].pc = "cell" /\ req'[p].pc = "owner" /\ cells[m] = Open
            /\ ~Initializing(m)
         \/ /\ req[p].pc = "owner" /\ req'[p].pc = "resolve" /\ ~OwnerLocked(m)
            /\ req'[p].began = epoch[req[p].root]
  <2>1. CASE EnterCell(p)
    BY <1>1, <2>1 DEF EnterCell, Goto, Moves, Kept, CallOK, Fields, At
  <2>2. CASE AcquireOwner(p)
    <3>1. req[p].pc = "owner" /\ ~OwnerLocked(m)
      BY <2>2 DEF AcquireOwner, At
    <3>2. req[p].root \in Roots
      BY <1>1, <3>1 DEF CallOK, Quiet
    <3>3. req' = [req EXCEPT ![p].pc = "resolve", ![p].began = epoch[req[p].root]]
      BY <2>2 DEF AcquireOwner, Root
    <3>4. epoch[req[p].root] \in Nat
      BY <1>1, <3>2
    <3>5. Moves(p) /\ req'[p].pc = "resolve" /\ req'[p].began = epoch[req[p].root]
          /\ Kept(req[p], req'[p], {"pc", "began"})
      BY <1>1, <3>3 DEF Moves, Kept, CallOK, Fields
    <3> QED
      BY <3>1, <3>4, <3>5
  <2> QED
    BY <2>1, <2>2
<1>4. /\ req'[p].root = req[p].root /\ req'[p].since = req[p].since
      /\ req'[p].generation = req[p].generation /\ req'[p].cell = req[p].cell
      /\ req'[p].stamps = req[p].stamps /\ req'[p].reuse = req[p].reuse
      /\ req'[p].changed = req[p].changed /\ DOMAIN req'[p] = Fields
  BY <1>3 DEF Kept, Fields
<1>5. /\ req[p].pc \in Members /\ req'[p].pc \in Members
      /\ req[p].pc \notin Quiet /\ req'[p].pc \notin Quiet
  BY <1>3 DEF Members, Owning, Quiet
<1>6. CallOK(req'[p])
  BY <1>1, <1>3, <1>4, <1>5 DEF CallOK
<1>7. /\ places[h] = CallPlace(req[p]) /\ places'[h] = CallPlace(req'[p]) /\ h \in Holders
      /\ h[2] = "call" /\ \A k \in Holders \ {h} : places'[k] = places[k]
  BY <1>2, <1>3, CallMoves
<1>8. /\ places[h].cell = m /\ m # None /\ places[h].level = Level(req[p].pc)
      /\ places[h].root = req[p].root /\ places[h].generation = req[p].generation
      /\ places'[h].cell = m /\ places'[h].level = Level(req'[p].pc)
      /\ places'[h].root = req[p].root /\ places'[h].generation = req[p].generation
  BY <1>1, <1>4, <1>5, <1>6, <1>7, MemberPlace
<1>9. cells[m] = Open
  <2>1. CASE req[p].pc = "owner"
    BY <1>7, <1>8, <2>1, MemberLevels DEF IInv, PlaceInv, CellsOK
  <2> QED
    BY <1>3, <2>1
<1>10. \/ /\ places[h].level = "waiting" /\ places'[h].level = "entered"
          /\ \A k \in Holders : k[2] = "call" /\ places[k].cell = places[h].cell
                                   => places[k].level \notin Entered
       \/ /\ places[h].level = "entered" /\ places'[h].level = "working"
          /\ \A k \in Holders : places[k].cell = places[h].cell => places[k].level \notin Locked
  <2>0. ASSUME NEW k \in Holders, k[2] = "call", places[k].cell = m
        PROVE  /\ k[1] \in Reqs /\ req[k[1]].cell = m /\ req[k[1]].pc \in Members
               /\ places[k].level = Level(req[k[1]].pc)
    <3>1. k[1] \in Reqs /\ places[k] = CallPlace(req[k[1]])
      BY <1>3, <2>0, CallMoves
    <3>2. CallOK(req[k[1]])
      BY <3>1 DEF IInv, TypeOK
    <3> QED
      BY <1>8, <2>0, <3>1, <3>2, MemberPlace
  <2>1. CASE req[p].pc = "cell"
    <3>1. ~Initializing(m) /\ req'[p].pc = "owner"
      BY <1>3, <2>1
    <3>2. ASSUME NEW k \in Holders, k[2] = "call", places[k].cell = m
          PROVE  places[k].level \notin Entered
      BY <2>0, <3>1, <3>2, MemberLevels DEF Initializing
    <3> QED
      BY <1>8, <2>1, <3>1, <3>2, Levels
  <2>2. CASE req[p].pc = "owner"
    <3>1. ~OwnerLocked(m) /\ req'[p].pc = "resolve"
      BY <1>3, <2>2
    <3>2. ASSUME NEW k \in Holders, places[k].cell = m
          PROVE  places[k].level \notin Locked
      <4>1. CASE k[2] = "call"
        BY <2>0, <3>1, <3>2, <4>1, MemberLevels DEF OwnerLocked
      <4>2. CASE k[2] # "call"
        <5>1. k[1] \in Reqs /\ places[k] = JobPlace(orphan[k[1]])
          BY <1>3, <4>2, CallMoves
        <5>2. orphan[k[1]] # None /\ orphan[k[1]].cell = m
          BY <1>8, <3>2, <5>1 DEF JobPlace, Outside
        <5> QED
          BY <3>1, <5>1, <5>2 DEF OwnerLocked
      <4> QED
        BY <4>1, <4>2
    <3>3. Level("resolve") = "working"
      BY DEF Level, Finishing
    <3> QED
      BY <1>8, <2>2, <3>1, <3>2, <3>3, Levels
  <2> QED
    BY <1>3, <2>1, <2>2
<1>11. PlaceInv(cache', places', cells', published')
  <2>1. PlaceInv(cache, places, cells, published)
    BY DEF IInv
  <2>2. /\ places[h].cell # None /\ cells[places[h].cell] = Open
        /\ places'[h].cell = places[h].cell /\ places'[h].root = places[h].root
        /\ places'[h].generation = places[h].generation
    BY <1>8, <1>9
  <2> HIDE DEF h
  <2>3. PlaceInv(cache, places', cells, published)
    BY <1>7, <1>10, <2>1, <2>2, RaisePlaces
  <2> QED
    BY <1>2, <2>3
<1>12. CallInv(req[p], cache, epoch, artifacts) /\ req[p].since <= epoch[req[p].root]
  BY <1>5 DEF IInv, CallInv
<1>13. CallInv(req'[p], cache', epoch, artifacts)
  <2>1. CASE req[p].pc = "cell"
    BY <1>3, <1>4, <1>12, <2>1, PlainCall DEF Plain
  <2>2. CASE req[p].pc = "owner"
    BY <1>3, <1>4, <1>12, <2>2 DEF CallInv, Finishing
  <2> QED
    BY <1>3, <2>1, <2>2
<1>14. SharedInv(req', cells')
  <2> SUFFICES ASSUME NEW x \in Reqs, req'[x].cell # None
               PROVE  /\ \A y \in Reqs :
                            req'[y].cell = req'[x].cell /\ req'[y].pc \in Owning
                                => req'[y].began >= req'[x].since
                      /\ cells'[req'[x].cell].kind = "Built" =>
                            /\ cells'[req'[x].cell].index.began \in Nat
                            /\ cells'[req'[x].cell].index.began >= req'[x].since
    BY DEF SharedInv
  <2>1. req'[x].cell = req[x].cell /\ req'[x].since = req[x].since
    BY <1>3, <1>4 DEF Moves
  <2>2. ASSUME NEW y \in Reqs, req'[y].cell = req'[x].cell, req'[y].pc \in Owning
        PROVE  req'[y].began >= req'[x].since
    <3>1. CASE y # p
      BY <1>3, <2>1, <2>2, <3>1 DEF IInv, SharedInv, Moves
    <3>2. CASE y = p
      <4>1. req'[p].began = epoch[req[p].root] /\ req[x].cell = m
        BY <1>3, <1>4, <2>1, <2>2, <3>2 DEF Owning
      <4>2. CallOK(req[x]) /\ CallInv(req[x], cache, epoch, artifacts)
        BY DEF IInv, TypeOK
      <4>3. places[<<x, "call">>].cell = m /\ places[<<x, "call">>].root = req[x].root
            /\ <<x, "call">> \in Holders /\ req[x].pc \in Members
        BY <1>8, <2>1, <4>1, <4>2, MemberPlace DEF places, Holders
      <4>4. req[x].root = req[p].root
        BY <1>7, <1>8, <4>3 DEF IInv, PlaceInv, SameCell
      <4>5. req[x].pc \notin Quiet /\ req[x].since \in Nat /\ epoch[req[p].root] \in Nat
        BY <1>1, <1>5, <4>2, <4>3 DEF Members, Owning, Quiet, CallOK
      <4>6. req[x].since <= epoch[req[p].root]
        BY <4>2, <4>4, <4>5 DEF CallInv
      <4> QED
        BY <2>1, <3>2, <4>1, <4>5, <4>6
    <3> QED
      BY <3>1, <3>2
  <2> QED
    BY <1>2, <2>1, <2>2 DEF IInv, SharedInv
<1>15. /\ DOMAIN cells' = CellIds /\ Outcomes(cells') /\ published' \in [Roots -> SUBSET Nat]
       /\ DOMAIN orphan' = Reqs /\ \A x \in Reqs : JobOK(orphan'[x])
       /\ StateInv(cache', epoch)
  BY <1>2 DEF IInv, TypeOK
<1>16. Onward(cache, cache', epoch, epoch, artifacts, artifacts)
  BY <1>1, <1>2 DEF Onward
<1> QED
  BY <1>1, <1>2, <1>3, <1>4, <1>6, <1>11, <1>13, <1>14, <1>15, <1>16, Assemble

(* A build ends: its cell gets the outcome and its caller reads it.        *)
LEMMA CloseStep ==
    ASSUME IInv, NEW p \in Reqs, req[p].pc \in Owning, NEW outcome, Complete(p, outcome),
           outcome # Open, outcome.kind \in {"Built", "Failed", "Stale"},
           outcome.kind = "Built" => outcome.index.began = req[p].began,
           UNCHANGED <<orphan, published, epoch, artifacts>>,
           CacheOK(cache'), NEW cleared, MarkersShrink(cache, cache', LiveCells, cleared),
           \/ cleared = {}
           \/ /\ cleared = {req[p].root}
              /\ cache.states[req[p].root].generation = req[p].generation,
           \A s \in Roots : cache'.states[s].in_flight # None
                               => cache'.states[s].in_flight.cell # req[p].cell,
           Onward(cache, cache', epoch, epoch, artifacts, artifacts),
           StateInv(cache', epoch)
    PROVE  IInv'
<1> DEFINE h == <<p, "call">>
           m == req[p].cell
<1>1. /\ CallOK(req[p]) /\ DOMAIN req = Reqs /\ DOMAIN cells = CellIds /\ Outcomes(cells)
      /\ req[p].generation <= cache.next_generation
      /\ published \in [Roots -> SUBSET Nat]
      /\ DOMAIN orphan' = Reqs /\ \A x \in Reqs : JobOK(orphan'[x])
  BY DEF IInv, TypeOK
<1>2. /\ cells' = [cells EXCEPT ![m] = outcome]
      /\ req' = [req EXCEPT ![p].pc = "cell", ![p].classpath = None, ![p].index = None,
                            ![p].stamps = 0, ![p].began = 0, ![p].reuse = FALSE,
                            ![p].changed = FALSE]
  BY DEF Complete
<1>3. /\ Moves(p) /\ DOMAIN req'[p] = Fields /\ req'[p].pc = "cell"
      /\ req'[p].root = req[p].root /\ req'[p].since = req[p].since
      /\ req'[p].generation = req[p].generation /\ req'[p].cell = m
      /\ req'[p].stamps = 0 /\ req'[p].began = 0
      /\ req'[p].reuse \in BOOLEAN /\ req'[p].changed \in BOOLEAN
  BY <1>1, <1>2 DEF Moves, CallOK, Fields
<1>4. /\ req[p].pc \in Members /\ req'[p].pc \in Members /\ req[p].pc \notin Quiet
      /\ req'[p].pc \notin Quiet /\ req'[p].pc \notin Owning /\ req'[p].pc \in Plain
  BY <1>3 DEF Members, Owning, Quiet, Plain
<1>5. CallOK(req'[p])
  BY <1>1, <1>3, <1>4 DEF CallOK
<1>6. /\ places[h] = CallPlace(req[p]) /\ places'[h] = CallPlace(req'[p]) /\ h \in Holders
      /\ h[2] = "call" /\ \A k \in Holders \ {h} : places'[k] = places[k]
  BY <1>3, CallMoves
<1>7. /\ places[h].cell = m /\ m # None /\ places[h].level \in Locked
      /\ places[h].root = req[p].root /\ places[h].generation = req[p].generation
      /\ places'[h].cell = m /\ places'[h].level = "waiting"
      /\ places'[h].root = req[p].root /\ places'[h].generation = req[p].generation
  BY <1>1, <1>3, <1>4, <1>5, <1>6, MemberPlace, MemberLevels, Levels
<1>8. PlaceInv(cache', places', cells', published')
  <2>1. PlaceInv(cache, places, cells, published)
        /\ \A k \in Holders : places[k].cell # None => places[k].cell \in LiveCells
    BY LiveCellsHeld DEF IInv
  <2>2. /\ places[h].cell # None
        /\ places'[h].cell = places[h].cell /\ places'[h].root = places[h].root
        /\ places'[h].generation = places[h].generation
        /\ \A s \in Roots : cache'.states[s].in_flight # None
                               => cache'.states[s].in_flight.cell # places[h].cell
        /\ \/ cleared = {}
           \/ /\ cleared = {places[h].root}
              /\ cache.states[places[h].root].generation = places[h].generation
    BY <1>7
  <2> HIDE DEF h
  <2>3. PlaceInv(cache', places', [cells EXCEPT ![places[h].cell] = outcome], published)
    BY <1>1, <1>6, <1>7, <2>1, <2>2, ClosePlaces
  <2> QED
    BY <1>2, <1>7, <2>3
<1>9. CallInv(req'[p], cache', epoch, artifacts)
  <2>1. req[p].since <= epoch[req[p].root]
    BY <1>4 DEF IInv, CallInv
  <2> QED
    BY <1>3, <1>4, <2>1, PlainCall
<1>10. SharedInv(req', cells')
  <2> SUFFICES ASSUME NEW x \in Reqs, req'[x].cell # None
               PROVE  /\ \A y \in Reqs :
                            req'[y].cell = req'[x].cell /\ req'[y].pc \in Owning
                                => req'[y].began >= req'[x].since
                      /\ cells'[req'[x].cell].kind = "Built" =>
                            /\ cells'[req'[x].cell].index.began \in Nat
                            /\ cells'[req'[x].cell].index.began >= req'[x].since
    BY DEF SharedInv
  <2>1. \A y \in Reqs : req'[y].cell = req[y].cell /\ req'[y].since = req[y].since
    BY <1>3 DEF Moves
  <2>2. ASSUME NEW y \in Reqs, req'[y].cell = req'[x].cell, req'[y].pc \in Owning
        PROVE  req'[y].began >= req'[x].since
    <3>1. y # p /\ req'[y] = req[y]
      BY <1>3, <1>4, <2>2 DEF Moves
    <3> QED
      BY <2>1, <2>2, <3>1 DEF IInv, SharedInv
  <2>3. ASSUME cells'[req'[x].cell].kind = "Built"
        PROVE  /\ cells'[req'[x].cell].index.began \in Nat
               /\ cells'[req'[x].cell].index.began >= req'[x].since
    <3>1. CASE req[x].cell = m
      <4>1. cells'[m] = outcome
        BY <1>1, <1>2, <1>4 DEF CallOK
      <4>2. req[p].began >= req[x].since /\ req[p].began \in Nat
        BY <1>1, <2>1, <3>1 DEF IInv, SharedInv, CallOK
      <4> QED
        BY <2>1, <2>3, <3>1, <4>1, <4>2
    <3>2. CASE req[x].cell # m
      <4>1. cells'[req[x].cell] = cells[req[x].cell]
        BY <1>2, <3>2
      <4> QED
        BY <2>1, <2>3, <4>1 DEF IInv, SharedInv
    <3> QED
      BY <3>1, <3>2
  <2> QED
    BY <2>2, <2>3
<1>11. DOMAIN cells' = CellIds /\ cache'.next_generation >= cache.next_generation
       /\ req'[p].generation <= cache'.next_generation
  <2>1. req[p].generation \in Nat
    BY <1>1 DEF CallOK
  <2> QED
    BY <1>1, <1>2, <1>3, <2>1 DEF MarkersShrink
<1>12. Outcomes(cells')
  BY <1>1, <1>2 DEF Outcomes
<1> QED
  BY <1>1, <1>3, <1>5, <1>8, <1>9, <1>10, <1>11, <1>12, Assemble

(* It ends while its marker is gone: the generation is not current, or it  *)
(* was published.                                                          *)
LEMMA CloseUnmarked ==
    ASSUME IInv, NEW p \in Reqs, req[p].pc \in Owning, NEW outcome, Complete(p, outcome),
           outcome # Open, outcome.kind \in {"Built", "Failed", "Stale"},
           outcome.kind = "Built" => outcome.index.began = req[p].began,
           UNCHANGED <<orphan, published, epoch, artifacts>>,
           Weaker(cache, cache', LiveCells),
           \/ ~IsCurrent(cache, req[p].root, req[p].generation)
           \/ ~IsCurrent(cache', req[p].root, req[p].generation)
           \/ req[p].pc \in Finishing
    PROVE  IInv'
<1> DEFINE h == <<p, "call">>
<1>1. CacheOK(cache) /\ CacheOK(cache') /\ MarkersShrink(cache, cache', LiveCells, {})
  BY WeakerShrinks DEF IInv, TypeOK, Weaker
<1>2. Onward(cache, cache', epoch, epoch, artifacts, artifacts) /\ StateInv(cache', epoch)
  BY WeakerOnward, StateInvWeaker DEF IInv, TypeOK
<1>3. /\ places[h].cell = req[p].cell /\ req[p].cell # None
      /\ places[h].level = Level(req[p].pc) /\ h \in Holders
      /\ places[h].root = req[p].root /\ places[h].generation = req[p].generation
  <2>1. CallOK(req[p]) /\ req[p].pc \in Members
    BY DEF IInv, TypeOK, Members
  <2> QED
    BY <2>1, MemberPlace DEF places, Holders
<1>4. ASSUME NEW s \in Roots, cache'.states[s].in_flight # None,
             cache'.states[s].in_flight.cell = req[p].cell
      PROVE  FALSE
  <2>1. /\ cache'.states[s].in_flight = cache.states[s].in_flight
        /\ cache'.states[s].generation = cache.states[s].generation
    BY <1>1, <1>4 DEF MarkersShrink
  <2>2. /\ Present(cache, s) /\ places[h].root = s /\ places[h].level # "built"
        /\ places[h].generation = cache.states[s].generation
    BY <1>3, <1>4, <2>1 DEF IInv, PlaceInv, MarkersOK
  <2>3. IsCurrent(cache, req[p].root, req[p].generation)
        /\ IsCurrent(cache', req[p].root, req[p].generation)
    BY <1>3, <2>1, <2>2 DEF IsCurrent, Present
  <2>4. req[p].pc \notin Finishing
    BY <1>3, <2>2, Levels
  <2> QED
    BY <2>3, <2>4
<1>5. \A s \in Roots : cache'.states[s].in_flight # None
                           => cache'.states[s].in_flight.cell # req[p].cell
  BY <1>4
<1> QED
  BY <1>1, <1>2, <1>5, CloseStep

(* What a weaker cache than the settled one is to the cache itself.        *)
LEMMA SettledShrinks ==
    ASSUME NEW c, CacheOK(c), NEW r \in Roots, NEW index, NEW d, NEW live,
           Weaker(Settled(c, r, index), d, live)
    PROVE  CacheOK(d) /\ MarkersShrink(c, d, live, {r}) /\ d.states[r].in_flight = None
<1> DEFINE f == Settled(c, r, index)
<1>1. /\ CacheOK(f) /\ f.next_generation = c.next_generation
      /\ \A s \in Roots \ {r} : f.states[s] = c.states[s]
      /\ f.states[r].generation = c.states[r].generation
      /\ f.states[r].full_rebuild = c.states[r].full_rebuild
      /\ f.states[r].in_flight = None
  BY SettledOK
<1>2. Weaker(f, d, live)
  OBVIOUS
<1> HIDE DEF f
<1>3. MarkersShrink(f, d, live, {}) /\ CacheOK(d)
  BY <1>1, <1>2, WeakerShrinks DEF Weaker
<1>4. d.states[r].in_flight = None
  BY <1>1, <1>2 DEF Weaker, Reduced
<1>5. ASSUME NEW s \in Roots
      PROVE  /\ c.states[s].generation \in Nat /\ d.states[s].generation \in Nat
             /\ \/ /\ d.states[s].generation = c.states[s].generation
                   /\ \/ d.states[s].in_flight = c.states[s].in_flight
                      \/ /\ d.states[s].in_flight = None
                         /\ c.states[s].in_flight.cell \notin live \/ s \in {r}
                \/ /\ d.states[s].in_flight = None
                   /\ d.states[s].generation = 0 \/ d.states[s].generation > c.next_generation
  <2>1. CASE s = r
    BY <1>1, <1>3, <1>4, <2>1 DEF MarkersShrink, CacheOK, StateOK
  <2>2. CASE s # r
    BY <1>1, <1>3, <2>2 DEF MarkersShrink, CacheOK, StateOK
  <2> QED
    BY <2>1, <2>2
<1>6. MarkersShrink(c, d, live, {r})
  BY <1>1, <1>3, <1>5 DEF MarkersShrink
<1> QED
  BY <1>3, <1>4, <1>6

LEMMA SettledOnward ==
    ASSUME NEW c, CacheOK(c), NEW r \in Roots, NEW index, NEW d, NEW live,
           Weaker(Settled(c, r, index), d, live),
           NEW ep \in [Roots -> Nat], NEW art \in [Roots -> Nat]
    PROVE  Onward(c, d, ep, ep, art, art)
<1> DEFINE f == Settled(c, r, index)
<1>1. /\ CacheOK(f) /\ f.next_generation = c.next_generation
      /\ \A s \in Roots \ {r} : f.states[s] = c.states[s]
      /\ f.states[r].generation = c.states[r].generation
      /\ f.states[r].full_rebuild = c.states[r].full_rebuild
  BY SettledOK
<1>2. Weaker(f, d, live)
  OBVIOUS
<1> HIDE DEF f
<1>3. Onward(f, d, ep, ep, art, art)
  BY <1>1, <1>2, WeakerOnward
<1> QED
  BY <1>1, <1>3 DEF Onward

LEMMA SettledStates ==
    ASSUME NEW c, CacheOK(c), NEW r \in Roots, NEW index, NEW d, NEW live,
           Weaker(Settled(c, r, index), d, live), NEW ep, StateInv(c, ep), Present(c, r),
           \/ index = c.states[r].index
           \/ index.began = ep[r] /\ index.content = index.stamps
    PROVE  StateInv(d, ep)
<1> DEFINE f == Settled(c, r, index)
<1>1. /\ \A s \in Roots \ {r} : f.states[s] = c.states[s]
      /\ f.states[r].generation = c.states[r].generation
      /\ f.states[r].in_flight = None /\ f.states[r].index = index
  BY SettledOK
<1> HIDE DEF f
<1>2. StateInv(f, ep)
  BY <1>1 DEF StateInv, Present
<1> QED
  BY <1>2, StateInvWeaker DEF f

LEMMA SettledMonotone ==
    ASSUME NEW c, NEW d, NEW live, CacheOK(c), Weaker(c, d, live), NEW r \in Roots
    PROVE  /\ CacheOK(Settled(c, r, c.states[r].index))
           /\ Weaker(Settled(c, r, c.states[r].index), Settled(d, r, d.states[r].index), live)
<1> DEFINE f == Settled(c, r, c.states[r].index)
           g == Settled(d, r, d.states[r].index)
<1>1. /\ CacheOK(f) /\ f.next_generation = c.next_generation
      /\ \A s \in Roots \ {r} : f.states[s] = c.states[s]
      /\ f.states[r].generation = c.states[r].generation
      /\ f.states[r].full_rebuild = c.states[r].full_rebuild
      /\ f.states[r].in_flight = None /\ f.states[r].index = c.states[r].index
  BY SettledOK
<1>2. /\ CacheOK(g) /\ g.next_generation = d.next_generation
      /\ \A s \in Roots \ {r} : g.states[s] = d.states[s]
      /\ g.states[r].generation = d.states[r].generation
      /\ g.states[r].full_rebuild = d.states[r].full_rebuild
      /\ g.states[r].in_flight = None /\ g.states[r].index = d.states[r].index
  BY SettledOK DEF Weaker
<1> HIDE DEF f, g
<1>3. ASSUME NEW s \in Roots
      PROVE  Reduced(f.states[s], g.states[s], live, f.next_generation)
  <2>1. Reduced(c.states[s], d.states[s], live, c.next_generation)
    BY DEF Weaker
  <2>2. CASE s = r
    BY <1>1, <1>2, <2>1, <2>2 DEF Reduced
  <2>3. CASE s # r
    BY <1>1, <1>2, <2>1, <2>3
  <2> QED
    BY <2>2, <2>3
<1>4. Weaker(f, g, live)
  BY <1>1, <1>2, <1>3 DEF Weaker
<1> QED
  BY <1>1, <1>4 DEF f, g

(* A generation that is not current never becomes current again.           *)
LEMMA NeverAgain ==
    ASSUME NEW c, NEW d, NEW live, CacheOK(c), Weaker(c, d, live), NEW r \in Roots,
           NEW generation \in Nat, generation <= c.next_generation,
           IsCurrent(d, r, generation)
    PROVE  IsCurrent(c, r, generation)
<1>1. Reduced(c.states[r], d.states[r], live, c.next_generation)
      /\ c.next_generation \in Nat /\ d.states[r].generation \in Nat
  BY DEF Weaker, CacheOK, StateOK
<1> QED
  BY <1>1 DEF Reduced, IsCurrent, Present

(* finish_failed after a failed build, perhaps with evictions before it.   *)
LEMMA FailStep ==
    ASSUME IInv, NEW p \in Reqs, req[p].pc \in Owning, Complete(p, Failed),
           UNCHANGED <<orphan, published, epoch, artifacts>>,
           NEW c, NEW e, Weaker(cache, c, LiveCells), e.live = LiveCells,
           cache' = FinishFailed(c, req[p].root, req[p].generation, e)
    PROVE  IInv'
<1> DEFINE r == req[p].root
           g == req[p].generation
           h == <<p, "call">>
<1>1. /\ CallOK(req[p]) /\ CacheOK(cache) /\ CacheOK(c) /\ g <= cache.next_generation
      /\ epoch \in [Roots -> Nat] /\ artifacts \in [Roots -> Nat]
  BY DEF IInv, TypeOK, Weaker
<1>2. r \in Roots /\ g \in Nat /\ req[p].pc \in Members
  BY <1>1 DEF CallOK, Owning, Quiet, Members
<1>3. Failed # Open /\ Failed.kind = "Failed"
  BY DEF Failed, Open
<1>4. CASE ~IsCurrent(c, r, g)
  <2>1. Weaker(c, cache', LiveCells)
    BY <1>1, <1>2, <1>4, FinishFailedWeaker
  <2>2. Weaker(cache, cache', LiveCells)
    BY <1>1, <2>1, WeakerTransitive
  <2>3. g <= c.next_generation
    BY <1>1, <1>2 DEF Weaker, CacheOK
  <2>4. ~IsCurrent(cache', r, g)
    BY <1>1, <1>2, <1>4, <2>1, <2>3, NeverAgain
  <2> QED
    BY <1>3, <2>2, <2>4, CloseUnmarked
<1>5. CASE IsCurrent(c, r, g)
  <2> DEFINE f == Settled(cache, r, cache.states[r].index)
  <2>1. Weaker(Settled(c, r, c.states[r].index), cache', LiveCells)
    BY <1>1, <1>2, <1>5, FinishFailedWeaker
  <2>2. CacheOK(f) /\ Weaker(f, Settled(c, r, c.states[r].index), LiveCells)
    BY <1>1, <1>2, SettledMonotone
  <2>3. Weaker(f, cache', LiveCells)
    <3> HIDE DEF f
    <3> QED
      BY <2>1, <2>2, WeakerTransitive
  <2>4. IsCurrent(cache, r, g)
    BY <1>1, <1>2, <1>5, NeverAgain
  <2>5. /\ CacheOK(cache') /\ MarkersShrink(cache, cache', LiveCells, {r})
        /\ cache'.states[r].in_flight = None
        /\ Onward(cache, cache', epoch, epoch, artifacts, artifacts)
    BY <1>1, <1>2, <2>3, SettledShrinks, SettledOnward
  <2>6. StateInv(cache', epoch)
    BY <1>1, <1>2, <2>3, <2>4, SettledStates DEF IInv, IsCurrent
  <2>7. /\ places[h].cell = req[p].cell /\ req[p].cell # None /\ h \in Holders
        /\ places[h].root = r
    BY <1>1, <1>2, MemberPlace DEF places, Holders
  <2>8. ASSUME NEW s \in Roots, cache'.states[s].in_flight # None
        PROVE  cache'.states[s].in_flight.cell # req[p].cell
    <3>1. s # r /\ cache'.states[s].in_flight = cache.states[s].in_flight
      BY <2>5, <2>8 DEF MarkersShrink
    <3> QED
      BY <2>7, <2>8, <3>1 DEF IInv, PlaceInv, MarkersOK
  <2> QED
    BY <1>3, <2>4, <2>5, <2>6, <2>8, CloseStep DEF IsCurrent
<1> QED
  BY <1>4, <1>5

LEMMA BuiltStep ==
    ASSUME IInv, NEW p \in Reqs, req[p].pc \in Finishing, Built(p),
           UNCHANGED <<cache, orphan, published, epoch, artifacts>>
    PROVE  IInv'
<1> DEFINE outcome == [kind |-> "Built", index |-> req[p].index]
<1>1. req[p].pc \in Owning
  BY DEF Finishing, Owning
<1>2. req[p].index.began = req[p].began
  BY DEF IInv, CallInv
<1>3. outcome # Open /\ outcome.index = req[p].index /\ outcome.kind = "Built"
  BY DEF Open
<1>4. Complete(p, outcome)
  BY DEF Built
<1>5. Weaker(cache, cache', LiveCells)
  BY WeakerReflexive DEF IInv, TypeOK
<1> HIDE DEF outcome
<1> QED
  BY <1>1, <1>2, <1>3, <1>4, <1>5, CloseUnmarked

LEMMA PersistSteps ==
    ASSUME IInv, NEW p \in Reqs, Persist(p) \/ Recheck(p) \/ Unpersist(p)
    PROVE  IInv'
<1>1. Weaker(cache, cache', LiveCells) /\ UNCHANGED <<cache, orphan, published, epoch, artifacts>>
  BY WeakerReflexive DEF IInv, TypeOK, Persist, Recheck, Unpersist, world, history
<1>2. CASE Persist(p)
  BY <1>1, <1>2, MoveOn DEF Persist, At, Goto
<1>3. CASE Recheck(p)
  <2>1. CASE Built(p)
    BY <1>1, <1>3, <2>1, BuiltStep DEF Recheck, At, Finishing
  <2>2. CASE Goto(p, "unpersist") /\ UNCHANGED cells
    BY <1>1, <1>3, <2>2, MoveOn DEF Recheck, At, Goto
  <2> QED
    BY <1>3, <2>1, <2>2 DEF Recheck
<1>4. CASE Unpersist(p)
  BY <1>1, <1>4, BuiltStep DEF Unpersist, At, Finishing
<1> QED
  BY <1>2, <1>3, <1>4

LEMMA StaleOutcome == Stale # Open /\ Stale.kind = "Stale"
BY DEF Stale, Open

LEMMA ReserveStep ==
    ASSUME IInv, NEW p \in Reqs, ReserveMemory(p)
    PROVE  IInv'
<1> DEFINE r == req[p].root
           g == req[p].generation
           c == Reserve(cache, r, ReserveBytes[r], EnvOf(p))
<1>1. req[p].pc = "reserve" /\ CacheOK(cache) /\ CallOK(req[p])
  BY DEF ReserveMemory, At, IInv, TypeOK
<1>2. req[p].pc \in Owning /\ r \in Roots
  BY <1>1 DEF Owning, CallOK, Quiet
<1>3. Weaker(cache, c, LiveCells) /\ Weaker(cache, Prune(cache, EnvOf(p)), LiveCells)
  BY <1>1, <1>2, ReserveWeaker, PruneWeaker, EnvLive
<1>4. UNCHANGED <<orphan, published, epoch, artifacts>>
  BY DEF ReserveMemory, world, history
<1>5. CASE /\ ~IsCurrent(cache, r, g) /\ cache' = Prune(cache, EnvOf(p))
           /\ Complete(p, Stale)
  BY <1>2, <1>3, <1>4, <1>5, StaleOutcome, CloseUnmarked
<1>6. CASE cache' = c /\ Goto(p, "flag") /\ UNCHANGED cells
  <2> HIDE DEF c
  <2> QED
    BY <1>1, <1>3, <1>4, <1>6, MoveOn DEF Goto
<1>7. CASE cache' = FinishFailed(c, r, g, EnvOf(p)) /\ Complete(p, Failed)
  <2>1. EnvOf(p).live = LiveCells
    BY EnvLive
  <2> HIDE DEF c
  <2> QED
    BY <1>2, <1>3, <1>4, <1>7, <2>1, FailStep
<1> QED
  BY <1>5, <1>6, <1>7 DEF ReserveMemory, Root

LEMMA PublishedStep ==
    ASSUME IInv, NEW p \in Reqs, req[p].pc = "publish", ~req[p].changed,
           IsCurrent(cache, req[p].root, req[p].generation),
           NEW e, e.live = LiveCells,
           cache' = FinishFullRebuild(Publish(cache, req[p].root, req[p].index, e),
                                      req[p].root, req[p].generation),
           published' = Recorded(published, req[p].root, req[p].generation),
           Goto(p, "persist"), UNCHANGED <<cells, orphan, epoch, artifacts>>
    PROVE  IInv'
<1> DEFINE r == req[p].root
           g == req[p].generation
           h == <<p, "call">>
<1>1. /\ CallOK(req[p]) /\ CacheOK(cache) /\ DOMAIN req = Reqs /\ g <= cache.next_generation
      /\ epoch \in [Roots -> Nat] /\ artifacts \in [Roots -> Nat]
      /\ published \in [Roots -> SUBSET Nat] /\ DOMAIN cells' = CellIds /\ Outcomes(cells')
      /\ DOMAIN orphan' = Reqs /\ \A x \in Reqs : JobOK(orphan'[x])
      /\ CallInv(req[p], cache, epoch, artifacts) /\ StateInv(cache, epoch)
      /\ cache.next_generation \in Nat
  BY DEF IInv, TypeOK, CacheOK
<1>2. /\ r \in Roots /\ g \in Nat /\ req[p].pc \in Members /\ req[p].pc \in Owning
      /\ req[p].pc \notin Quiet
  BY <1>1 DEF CallOK, Owning, Quiet, Members
<1>3. /\ Moves(p) /\ Kept(req[p], req'[p], {"pc"}) /\ req'[p].pc = "persist"
  BY <1>1 DEF Goto, Moves, Kept, CallOK, Fields
<1>4. /\ req'[p].root = r /\ req'[p].since = req[p].since
      /\ req'[p].generation = g /\ req'[p].cell = req[p].cell /\ req'[p].began = req[p].began
      /\ req'[p].stamps = req[p].stamps /\ req'[p].reuse = req[p].reuse
      /\ req'[p].changed = req[p].changed /\ req'[p].index = req[p].index
      /\ DOMAIN req'[p] = Fields
  BY <1>3 DEF Kept, Fields
<1>5. req'[p].pc \in Members /\ req'[p].pc \notin Quiet /\ req'[p].pc \in Owning
      /\ req'[p].pc \in Finishing
  BY <1>3 DEF Members, Owning, Quiet, Finishing
<1>6. CallOK(req'[p])
  BY <1>1, <1>2, <1>4, <1>5 DEF CallOK
<1>7. req[p].index.began = epoch[r] /\ req[p].index.content = req[p].index.stamps
  BY <1>1, <1>2 DEF CallInv
<1>8. Present(cache, r)
  BY DEF IsCurrent
<1>9. /\ CacheOK(cache') /\ MarkersShrink(cache, cache', LiveCells, {r})
      /\ cache'.states[r].in_flight = None
      /\ Onward(cache, cache', epoch, epoch, artifacts, artifacts)
      /\ StateInv(cache', epoch) /\ cache'.next_generation >= cache.next_generation
  <2>1. PICK x \in {cache.states[r].index, req[p].index} :
           Weaker(Settled(cache, r, x), cache', LiveCells)
    BY <1>1, <1>2, PublishWeaker
  <2>2. /\ CacheOK(cache) /\ StateInv(cache, epoch) /\ r \in Roots
        /\ epoch \in [Roots -> Nat] /\ artifacts \in [Roots -> Nat]
    BY <1>1, <1>2
  <2>3. \/ x = cache.states[r].index
        \/ x.began = epoch[r] /\ x.content = x.stamps
    BY <1>7, <2>1
  <2> HIDE DEF r, g
  <2>4. StateInv(cache', epoch)
    BY <1>8, <2>1, <2>2, <2>3, SettledStates
  <2>5. /\ CacheOK(cache') /\ MarkersShrink(cache, cache', LiveCells, {r})
        /\ cache'.states[r].in_flight = None
    BY <2>1, <2>2, SettledShrinks
  <2>7. Onward(cache, cache', epoch, epoch, artifacts, artifacts)
    BY <2>1, <2>2, SettledOnward
  <2>6. cache'.next_generation >= cache.next_generation
    BY <2>5 DEF MarkersShrink
  <2> QED
    BY <2>4, <2>5, <2>6, <2>7 DEF r
<1>11. CallInv(req'[p], cache', epoch, artifacts)
  <2>1. CallInv(req[p], cache', epoch, artifacts)
    BY <1>1, <1>9, CallInvOnward
  <2> QED
    BY <1>2, <1>3, <1>4, <1>5, <2>1 DEF CallInv
<1>12. /\ places[h] = CallPlace(req[p]) /\ places'[h] = CallPlace(req'[p]) /\ h \in Holders
       /\ h[2] = "call" /\ \A k \in Holders \ {h} : places'[k] = places[k]
  BY <1>3, CallMoves
<1>13. Level("publish") = "working" /\ Level("persist") = "built"
  BY DEF Level, Finishing
<1>14. PlaceInv(cache', places', cells', published')
  <2>1. PlaceInv(cache, places, cells, published)
        /\ \A k \in Holders : places[k].cell # None => places[k].cell \in LiveCells
    BY LiveCellsHeld DEF IInv
  <2>2. /\ places[h].cell # None /\ places[h].level = "working" /\ r = places[h].root
        /\ places[h].generation = g
        /\ places'[h].cell = places[h].cell /\ places'[h].root = places[h].root
        /\ places'[h].generation = places[h].generation /\ places'[h].level = "built"
    BY <1>1, <1>2, <1>3, <1>4, <1>5, <1>6, <1>12, <1>13, MemberPlace
  <2>3. IsCurrent(cache, r, places[h].generation)
    BY <2>2
  <2> DEFINE after == published'
  <2>4. DOMAIN published = Roots
        /\ after = Recorded(published, r, places[h].generation)
    BY <1>1, <2>2
  <2> DEFINE cleared == {r}
  <2>5. MarkersShrink(cache, cache', LiveCells, cleared) /\ cleared = {r}
        /\ cache'.states[r].in_flight = None
    BY <1>9
  <2> HIDE DEF h, after, r, g, cleared
  <2>6. PlaceInv(cache', places', cells, after)
    BY <1>12, <2>1, <2>2, <2>3, <2>4, <2>5, PublishPlaces
  <2> QED
    BY <2>6 DEF after
<1>15. SharedInv(req', cells')
  <2>1. \A y \in Reqs : /\ req'[y].cell = req[y].cell /\ req'[y].since = req[y].since
                        /\ req'[y].began = req[y].began
                        /\ req'[y].pc \in Owning => req[y].pc \in Owning
    BY <1>2, <1>3, <1>4 DEF Moves
  <2> QED
    BY <2>1 DEF IInv, SharedInv
<1>16. published' \in [Roots -> SUBSET Nat]
  BY <1>1, <1>2 DEF Recorded
<1>17. req'[p].generation <= cache'.next_generation
  <2>1. cache'.next_generation \in Nat
    BY <1>9 DEF CacheOK
  <2> QED
    BY <1>1, <1>2, <1>4, <1>9, <2>1
<1> QED
  BY <1>1, <1>3, <1>6, <1>9, <1>11, <1>14, <1>15, <1>16, <1>17, Assemble

LEMMA PublishStep ==
    ASSUME IInv, NEW p \in Reqs, PublishBuild(p)
    PROVE  IInv'
<1> DEFINE r == req[p].root
           g == req[p].generation
<1>1. req[p].pc = "publish" /\ CacheOK(cache) /\ CallOK(req[p]) /\ g <= cache.next_generation
  BY DEF PublishBuild, At, IInv, TypeOK
<1>2. req[p].pc \in Owning /\ r \in Roots /\ g \in Nat
  BY <1>1 DEF Owning, CallOK, Quiet
<1>3. UNCHANGED <<orphan, epoch, artifacts>> /\ EnvOf(p).live = LiveCells
  BY EnvLive DEF PublishBuild, world, history
<1>4. CASE /\ cache' = InvalidateGeneration(cache, r, g, EnvOf(p))
           /\ Complete(p, Stale) /\ UNCHANGED published
  <2>1. Weaker(cache, cache', LiveCells) /\ ~IsCurrent(cache', r, g)
    BY <1>1, <1>2, <1>3, <1>4, InvalidateGenerationWeaker
  <2> QED
    BY <1>2, <1>3, <1>4, <2>1, StaleOutcome, CloseUnmarked
<1>5. CASE /\ ~IsCurrent(cache, r, g) /\ cache' = Prune(cache, EnvOf(p))
           /\ Complete(p, Stale) /\ UNCHANGED published
  <2>1. Weaker(cache, cache', LiveCells)
    BY <1>1, <1>3, <1>5, PruneWeaker
  <2> QED
    BY <1>2, <1>3, <1>5, <2>1, StaleOutcome, CloseUnmarked
<1>6. CASE /\ ~req[p].changed /\ IsCurrent(cache, r, g)
           /\ cache' = FinishFullRebuild(Publish(cache, r, req[p].index, EnvOf(p)), r, g)
           /\ published' = [published EXCEPT ![r] = @ \union {g}]
           /\ Goto(p, "persist") /\ UNCHANGED cells
  BY <1>1, <1>3, <1>6, PublishedStep DEF Recorded
<1> QED
  BY <1>4, <1>5, <1>6 DEF PublishBuild, Root, history

-----------------------------------------------------------------------------
(* lookup_index *)
WithMarker(d, r, marker) == [d EXCEPT !.states[r].in_flight = marker]

LEMMA MarkerAdded ==
    ASSUME NEW d, CacheOK(d), NEW r \in Roots, NEW marker, NEW f,
           f = WithMarker(d, r, marker)
    PROVE  /\ CacheOK(f) /\ f.next_generation = d.next_generation
           /\ \A s \in Roots \ {r} : f.states[s] = d.states[s]
           /\ f.states[r].generation = d.states[r].generation
           /\ f.states[r].index = d.states[r].index
           /\ f.states[r].full_rebuild = d.states[r].full_rebuild
           /\ f.states[r].in_flight = marker
<1> DEFINE t == [d.states[r] EXCEPT !.in_flight = marker]
<1>1. /\ DOMAIN f = DOMAIN d /\ f.next_generation = d.next_generation
      /\ f.states = [d.states EXCEPT ![r] = t]
  BY DEF CacheOK, WithMarker
<1>2. /\ StateOK(t) /\ t.generation = d.states[r].generation
      /\ t.full_rebuild = d.states[r].full_rebuild
      /\ t.index = d.states[r].index /\ t.in_flight = marker
  BY DEF CacheOK, StateOK
<1> HIDE DEF t
<1>3. CacheOK(f)
  BY <1>1, <1>2, StateKept
<1> QED
  BY <1>1, <1>2, <1>3 DEF CacheOK

(* The marker's cell is one that nobody holds and no other marker has.     *)
LEMMA MarkedFresh ==
    ASSUME IInv, NEW d, CacheOK(d), Weaker(cache, d, LiveCells), NEW r \in Roots,
           d.states[r].generation # 0, ~Joinable(d.states[r]), NEW f,
           f.next_generation = d.next_generation,
           \A s \in Roots \ {r} : f.states[s] = d.states[s],
           f.states[r].generation = d.states[r].generation,
           f.states[r].in_flight.cell = FreshCell,
           f.states[r].in_flight.generation = d.states[r].generation
    PROVE  PlaceInv(f, places, cells, published)
<1>1. PlaceInv(d, places, cells, published) /\ MarkersShrink(cache, d, LiveCells, {})
  <2>1. MarkersShrink(cache, d, LiveCells, {})
    BY WeakerShrinks DEF IInv, TypeOK
  <2> QED
    BY <2>1, ShrinkPlaces, LiveCellsHeld DEF IInv
<1>2. d.states[r].in_flight = None
  BY <1>1 DEF PlaceInv, MarkersOK, Joinable
<1>3. FreshCell \in CellIds /\ \A h \in Holders : places[h].cell # FreshCell
  BY FreshCellUnused, LiveCellsHeld DEF IInv
<1>4. ASSUME NEW s \in Roots, d.states[s].in_flight # None
      PROVE  d.states[s].in_flight.cell # FreshCell
  <2>1. d.states[s].in_flight = cache.states[s].in_flight
    BY <1>1, <1>4 DEF MarkersShrink
  <2> QED
    BY <1>4, <2>1, FreshCellUnused DEF UsedCells
<1>5. /\ \A s \in Roots : f.states[s].generation = d.states[s].generation
      /\ \A s \in Roots \ {r} : f.states[s].in_flight = d.states[s].in_flight
  OBVIOUS
<1>6. d.states[r].generation \in Nat /\ Present(d, r)
  BY DEF CacheOK, StateOK, Present
<1> DEFINE fresh == FreshCell
<1>7. /\ f.states[r].in_flight.cell = fresh /\ fresh \in CellIds
      /\ \A h \in Holders : places[h].cell # fresh
      /\ \A s \in Roots : d.states[s].in_flight # None => d.states[s].in_flight.cell # fresh
  BY <1>3, <1>4
<1> HIDE DEF fresh
<1> QED
  BY <1>1, <1>2, <1>5, <1>6, <1>7, MarkPlaces

LEMMA LookupResult ==
    ASSUME IInv, NEW r \in Roots, NEW fingerprint, NEW e, e.live = LiveCells, NEW f,
           f = LookupIndex(cache, r, fingerprint, FreshCell, e)
    PROVE  /\ CacheOK(f) /\ f.next_generation >= cache.next_generation
           /\ Present(f, r) /\ f.states[r].generation <= f.next_generation
           /\ PlaceInv(f, places, cells, published)
           /\ Onward(cache, f, epoch, epoch, artifacts, artifacts) /\ StateInv(f, epoch)
           /\ IF f.states[r].index # None THEN Weaker(cache, f, LiveCells)
              ELSE f.states[r].in_flight # None
<1>1. /\ CacheOK(cache) /\ epoch \in [Roots -> Nat] /\ artifacts \in [Roots -> Nat]
      /\ StateInv(cache, epoch)
  BY DEF IInv, TypeOK
<1>2. PICK d : /\ CacheOK(d) /\ Weaker(cache, d, LiveCells) /\ d.states[r].generation # 0
               /\ \/ f = d /\ (d.states[r].index # None \/ Joinable(d.states[r]))
                  \/ /\ d.states[r].index = None /\ ~Joinable(d.states[r])
                     /\ f = [d EXCEPT !.states[r].in_flight =
                                [cell |-> FreshCell, generation |-> d.states[r].generation]]
  BY <1>1, LookupIndexWeaker
<1>3. /\ Onward(cache, d, epoch, epoch, artifacts, artifacts) /\ StateInv(d, epoch)
      /\ d.next_generation >= cache.next_generation /\ d.next_generation \in Nat
  <2>1. Onward(cache, d, epoch, epoch, artifacts, artifacts)
    BY <1>1, <1>2, WeakerOnward
  <2>2. StateInv(d, epoch)
    BY <1>1, <1>2, StateInvWeaker
  <2> QED
    BY <1>2, <2>1, <2>2 DEF Weaker, CacheOK
<1>4. CASE f = d /\ (d.states[r].index # None \/ Joinable(d.states[r]))
  <2>1. PlaceInv(d, places, cells, published)
    BY <1>1, <1>2, WeakerShrinks, ShrinkPlaces, LiveCellsHeld DEF IInv
  <2>2. Present(d, r) /\ d.states[r].generation <= d.next_generation
    BY <1>2 DEF Present, CacheOK
  <2> QED
    BY <1>2, <1>3, <1>4, <2>1, <2>2 DEF Joinable
<1>5. CASE /\ d.states[r].index = None /\ ~Joinable(d.states[r])
           /\ f = [d EXCEPT !.states[r].in_flight =
                      [cell |-> FreshCell, generation |-> d.states[r].generation]]
  <2> DEFINE marker == [cell |-> FreshCell, generation |-> d.states[r].generation]
  <2>1. /\ CacheOK(f) /\ f.next_generation = d.next_generation
        /\ \A s \in Roots \ {r} : f.states[s] = d.states[s]
        /\ f.states[r].generation = d.states[r].generation
        /\ f.states[r].index = None
        /\ f.states[r].full_rebuild = d.states[r].full_rebuild
        /\ f.states[r].in_flight = marker
    <3>1. f = WithMarker(d, r, marker)
      BY <1>5 DEF WithMarker
    <3>2. d.states[r].index = None
      BY <1>5
    <3> HIDE DEF marker
    <3> QED
      BY <1>2, <3>1, <3>2, MarkerAdded
  <2>2. marker # None
    <3>1. d.states[r].generation \in Nat /\ FreshCell \in Nat
      BY <1>2, FreshCellUnused DEF CacheOK, StateOK, CellIds
    <3>2. marker \in [cell : Nat, generation : Nat]
      BY <3>1
    <3> QED
      BY <3>2, NoneAssumption
  <2>3. PlaceInv(f, places, cells, published)
    <3>1. marker.cell = FreshCell /\ marker.generation = d.states[r].generation
      OBVIOUS
    <3>2. ~Joinable(d.states[r])
      BY <1>5
    <3> HIDE DEF marker
    <3> QED
      BY <1>2, <2>1, <3>1, <3>2, MarkedFresh
  <2> HIDE DEF marker
  <2>4. Present(f, r) /\ f.states[r].generation <= f.next_generation
    BY <1>2, <2>1 DEF Present, CacheOK
  <2>5. Onward(cache, f, epoch, epoch, artifacts, artifacts)
    BY <1>3, <2>1 DEF Onward
  <2>6. StateInv(f, epoch)
    BY <1>3, <2>1, <2>4 DEF StateInv, Present
  <2> QED
    BY <1>3, <2>1, <2>2, <2>3, <2>4, <2>5, <2>6
<1> QED
  BY <1>2, <1>4, <1>5

LEMMA LookupStep ==
    ASSUME IInv, NEW p \in Reqs, Lookup(p)
    PROVE  IInv'
<1> DEFINE r == req[p].root
           h == <<p, "call">>
           s == cache'.states[r]
<1>1. /\ CallOK(req[p]) /\ DOMAIN req = Reqs /\ req[p].pc = "lookup"
      /\ epoch \in [Roots -> Nat] /\ CallInv(req[p], cache, epoch, artifacts)
  BY DEF IInv, TypeOK, Lookup, At
<1>2. r \in Roots /\ req[p].pc \notin Quiet /\ req[p].pc \notin Members
      /\ req[p].since \in Nat
  BY <1>1 DEF CallOK, Quiet, Members, Owning
<1>3. UNCHANGED <<cells, orphan, published, epoch, artifacts>>
  BY DEF Lookup, world, history
<1>4. req' = [req EXCEPT ![p] =
              IF s.index # None
              THEN [@ EXCEPT !.pc = "validate", !.generation = s.generation, !.index = s.index]
              ELSE [@ EXCEPT !.pc = "cell", !.generation = s.generation,
                             !.cell = s.in_flight.cell]]
  BY DEF Lookup, Root
<1>5. /\ CacheOK(cache') /\ cache'.next_generation >= cache.next_generation
      /\ Present(cache', r) /\ s.generation <= cache'.next_generation
      /\ PlaceInv(cache', places, cells, published)
      /\ Onward(cache, cache', epoch, epoch, artifacts, artifacts) /\ StateInv(cache', epoch)
      /\ IF s.index # None THEN Weaker(cache, cache', LiveCells) ELSE s.in_flight # None
  <2> DEFINE fingerprint == req[p].snapshot.fingerprint
             e == EnvOf(p)
  <2>1. cache' = LookupIndex(cache, r, fingerprint, FreshCell, e) /\ e.live = LiveCells
    BY EnvLive DEF Lookup, Root
  <2> HIDE DEF fingerprint, e
  <2> QED
    BY <1>2, <2>1, LookupResult
<1>6. s.generation \in Nat
  BY <1>2, <1>5 DEF CacheOK, StateOK
<1>7. req[p].since <= epoch[r] /\ epoch[r] \in Nat
  BY <1>1, <1>2 DEF CallInv
<1>8. CASE s.index # None
  <2>1. /\ Moves(p) /\ DOMAIN req'[p] = Fields /\ req'[p].pc = "validate"
        /\ req'[p].generation = s.generation /\ req'[p].index = s.index
        /\ req'[p].root = r /\ req'[p].since = req[p].since /\ req'[p].cell = req[p].cell
        /\ req'[p].stamps = req[p].stamps /\ req'[p].began = req[p].began
        /\ req'[p].reuse = req[p].reuse /\ req'[p].changed = req[p].changed
    BY <1>1, <1>4, <1>8 DEF Moves, CallOK, Fields
  <2>2. /\ req'[p].pc \notin Members /\ req'[p].pc \notin Quiet
        /\ req'[p].pc \notin Owning /\ req'[p].pc \notin Finishing
    BY <2>1 DEF Members, Owning, Quiet, Finishing
  <2>3. CallOK(req'[p])
    BY <1>1, <1>2, <1>6, <2>1, <2>2 DEF CallOK
  <2>4. s.index.began = epoch[r]
    BY <1>2, <1>5, <1>8 DEF StateInv
  <2>5. CallInv(req'[p], cache', epoch, artifacts)
    BY <1>2, <1>7, <2>1, <2>2, <2>4 DEF CallInv
  <2> QED
    BY <1>2, <1>3, <1>5, <1>8, <2>1, <2>2, <2>3, <2>5, Passes
<1>9. CASE s.index = None
  <2> DEFINE m == s.in_flight.cell
  <2>1. /\ Moves(p) /\ DOMAIN req'[p] = Fields /\ req'[p].pc = "cell"
        /\ req'[p].generation = s.generation /\ req'[p].cell = m
        /\ req'[p].root = r /\ req'[p].since = req[p].since
        /\ req'[p].stamps = req[p].stamps /\ req'[p].began = req[p].began
        /\ req'[p].reuse = req[p].reuse /\ req'[p].changed = req[p].changed
    BY <1>1, <1>4, <1>9 DEF Moves, CallOK, Fields
  <2>2. /\ req'[p].pc \in Members /\ req'[p].pc \notin Quiet
        /\ req'[p].pc \notin Owning /\ req'[p].pc \in Plain
    BY <2>1 DEF Members, Owning, Quiet, Plain
  <2>3. /\ m \in CellIds /\ cells[m] = Open /\ s.in_flight # None
        /\ \A k \in Holders : places[k].cell = m =>
              places[k].root = r /\ places[k].generation = s.generation
    BY <1>2, <1>5, <1>9 DEF PlaceInv, MarkersOK
  <2>4. CallOK(req'[p])
    BY <1>1, <1>2, <1>6, <2>1, <2>2, <2>3 DEF CallOK
  <2>5. CallInv(req'[p], cache', epoch, artifacts)
    BY <1>7, <2>1, <2>2, PlainCall
  <2>6. /\ places[h] = CallPlace(req[p]) /\ places'[h] = CallPlace(req'[p]) /\ h \in Holders
        /\ h[2] = "call" /\ \A k \in Holders \ {h} : places'[k] = places[k]
    BY <1>3, <2>1, CallMoves
  <2>7. PlaceInv(cache', places', cells', published')
    <3>1. /\ places[h].cell = None /\ places'[h].cell = m /\ places'[h].root = r
          /\ places'[h].generation = s.generation /\ places'[h].level = "waiting"
      BY <1>1, <1>2, <2>1, <2>2, <2>4, <2>6, MemberPlace, Levels
    <3>2. cache'.next_generation \in Nat
      BY <1>5 DEF CacheOK
    <3> DEFINE c == cache'
               to == places'
    <3>3. /\ PlaceInv(c, places, cells, published) /\ c.states[r].in_flight # None
          /\ c.next_generation \in Nat /\ c.states[r].generation \in Nat
          /\ c.states[r].generation <= c.next_generation
      BY <1>5, <1>6, <2>3, <3>2
    <3>4. /\ h \in Holders /\ h[2] = "call" /\ places[h].cell = None
          /\ to[h].cell = c.states[r].in_flight.cell /\ to[h].root = r
          /\ to[h].generation = c.states[r].generation /\ to[h].level = "waiting"
          /\ Elsewhere(places, to, h)
      BY <2>6, <3>1 DEF Elsewhere
    <3> HIDE DEF h, r, c, to
    <3>5. PlaceInv(c, to, cells, published)
      BY <1>2, <3>3, <3>4, JoinPlaces
    <3> QED
      BY <1>3, <3>5 DEF c, to
  <2>8. SharedInv(req', cells')
    <3> SUFFICES ASSUME NEW x \in Reqs, req'[x].cell # None
                 PROVE  /\ \A y \in Reqs :
                              req'[y].cell = req'[x].cell /\ req'[y].pc \in Owning
                                  => req'[y].began >= req'[x].since
                        /\ cells'[req'[x].cell].kind = "Built" =>
                              /\ cells'[req'[x].cell].index.began \in Nat
                              /\ cells'[req'[x].cell].index.began >= req'[x].since
      BY DEF SharedInv
    <3>1. \A y \in Reqs : req'[y].pc \in Owning => y # p /\ req'[y] = req[y]
      BY <2>1, <2>2 DEF Moves
    <3>2. CASE x # p
      <4>1. req'[x] = req[x]
        BY <2>1, <3>2 DEF Moves
      <4> QED
        BY <1>3, <3>1, <4>1 DEF IInv, SharedInv
    <3>3. CASE x = p
      <4>1. ASSUME NEW y \in Reqs, req'[y].cell = m, req'[y].pc \in Owning
            PROVE  req'[y].began >= req[p].since
        <5>1. /\ req'[y] = req[y] /\ CallOK(req[y]) /\ req[y].pc \in Members
              /\ CallInv(req[y], cache, epoch, artifacts)
              /\ req[y].generation <= cache.next_generation /\ cache.next_generation \in Nat
          BY <3>1, <4>1 DEF IInv, TypeOK, CacheOK, Members
        <5>2. /\ places[<<y, "call">>].cell = m /\ <<y, "call">> \in Holders
              /\ places[<<y, "call">>].root = req[y].root
              /\ places[<<y, "call">>].generation = req[y].generation
          BY <4>1, <5>1, MemberPlace DEF places, Holders
        <5>3. req[y].root = r /\ req[y].generation = s.generation
          BY <2>3, <5>2
        <5>4. CallInv(req[y], cache', epoch, artifacts)
          BY <1>5, <5>1, CallInvOnward
        <5>5. req[y].began = epoch[r]
          BY <1>5, <4>1, <5>1, <5>3, <5>4 DEF CallInv, IsCurrent
        <5> QED
          BY <1>2, <1>7, <5>1, <5>5
      <4>2. cells'[m].kind # "Built"
        BY <1>3, <2>3 DEF Open
      <4> QED
        BY <2>1, <3>3, <4>1, <4>2
    <3> QED
      BY <3>2, <3>3
  <2>9. /\ DOMAIN cells' = CellIds /\ Outcomes(cells') /\ published' \in [Roots -> SUBSET Nat]
        /\ DOMAIN orphan' = Reqs /\ \A x \in Reqs : JobOK(orphan'[x])
    BY <1>3 DEF IInv, TypeOK
  <2> QED
    BY <1>3, <1>5, <2>1, <2>4, <2>5, <2>7, <2>8, <2>9, Assemble
<1> QED
  BY <1>8, <1>9

-----------------------------------------------------------------------------
(* A call leaves its cell, perhaps with a job that keeps the owner lock.   *)
LEMMA JobLeft ==
    ASSUME NEW p \in Reqs, CallOK(req[p]), req[p].pc \notin Quiet
    PROVE  /\ JobOK(Job(p))
           /\ Job(p) # None =>
                 \/ JobPlace(Job(p)).cell = None
                 \/ /\ req[p].pc \in Members /\ Level(req[p].pc) = "working"
                    /\ JobPlace(Job(p)).cell = req[p].cell
                    /\ JobPlace(Job(p)).root = req[p].root
                    /\ JobPlace(Job(p)).generation = req[p].generation
                    /\ JobPlace(Job(p)).level = "working"
           /\ req[p].cell = None => JobPlace(Job(p)).cell = None
<1> DEFINE q == req[p]
           keeps == q.pc \in {"resolve", "maven", "stamp", "build", "verify"}
<1>1. /\ Job(p).cell = (IF keeps THEN q.cell ELSE None)
      /\ Job(p).building = (q.pc \in Building)
      /\ Job(p).root = q.root /\ Job(p).generation = q.generation
  BY DEF Job
<1>2. keeps => q.pc \in Members /\ q.pc \in Owning \ Finishing
  BY DEF Members, Owning, Finishing
<1>3. /\ q.root \in Roots /\ q.generation \in Nat
      /\ q.pc \in Members => q.cell \in CellIds /\ q.cell # None
  BY MemberPlace DEF CallOK
<1>4. q.pc \in Building => keeps
  BY DEF Building
<1>5. Job(p).building => keeps
  BY <1>1, <1>4, Zenon
<1> HIDE DEF keeps
<1>6. JobOK(Job(p))
  BY <1>1, <1>2, <1>3, <1>5 DEF JobOK
<1>7. CASE keeps
  <2>1. /\ Job(p).cell = q.cell /\ q.cell # None /\ q.pc \in Members
        /\ Level(q.pc) = "working"
    BY <1>1, <1>2, <1>3, <1>7, Levels
  <2>2. Job(p) # None => JobPlace(Job(p)) = [cell |-> q.cell, level |-> "working",
                                             root |-> q.root, generation |-> q.generation]
    BY <1>1, <2>1 DEF JobPlace
  <2> QED
    BY <1>6, <2>1, <2>2
<1>8. CASE ~keeps
  BY <1>1, <1>6, <1>8 DEF JobPlace, Outside
<1> QED
  BY <1>6, <1>7, <1>8

LEMMA LeaveStep ==
    ASSUME IInv, NEW p \in Reqs, req[p].pc \in Members, LeaveCell(p), Moves(p),
           CallOK(req'[p]), req'[p].cell = None, req'[p].generation = 0,
           CallInv(req'[p], cache, epoch, artifacts),
           UNCHANGED <<cache, published, epoch, artifacts>>,
           orphan' = orphan \/ orphan' = [orphan EXCEPT ![p] = Job(p)]
    PROVE  IInv'
<1> DEFINE h == <<p, "call">>
           j == <<p, "job">>
           m == req[p].cell
           shared == \/ \E q \in Reqs \ {p} : req[q].cell = m
                     \/ \E r \in Roots : /\ cache.states[r].in_flight # None
                                          /\ cache.states[r].in_flight.cell = m
<1>1. /\ CallOK(req[p]) /\ CacheOK(cache) /\ DOMAIN cells = CellIds /\ Outcomes(cells)
      /\ DOMAIN orphan = Reqs /\ \A x \in Reqs : JobOK(orphan[x])
      /\ published' \in [Roots -> SUBSET Nat] /\ StateInv(cache', epoch)
      /\ epoch \in [Roots -> Nat] /\ artifacts \in [Roots -> Nat]
  BY DEF IInv, TypeOK
<1>2. m \in CellIds /\ m # None /\ req[p].pc \notin Quiet
  BY <1>1, MemberPlace DEF CallOK, Members, Owning, Quiet
<1>3. cells' = IF shared THEN cells ELSE [cells EXCEPT ![m] = Open]
  BY DEF LeaveCell
<1>4. /\ places[h] = CallPlace(req[p]) /\ places'[h] = CallPlace(req'[p]) /\ h \in Holders
      /\ h[2] = "call"
      /\ \A k \in Holders : k[2] = "call" => /\ k[1] \in Reqs /\ k = <<k[1], "call">>
                                             /\ places[k] = CallPlace(req[k[1]])
  BY CallMoves
<1>5. /\ places[h].cell = m /\ places[h].level = Level(req[p].pc)
      /\ places[h].root = req[p].root /\ places[h].generation = req[p].generation
      /\ places'[h].cell = None
  BY <1>1, <1>4, MemberPlace DEF CallPlace, Outside
<1>6. j \in Holders /\ j[2] = "job" /\ j[1] = p
      /\ places[j] = JobPlace(orphan[p]) /\ places'[j] = JobPlace(orphan'[p])
  BY DEF Holders, places
<1>7. ASSUME NEW k \in Holders \ {h, j}
      PROVE  places'[k] = places[k]
  <2>1. k[1] \in Reqs /\ (k[2] = "call" \/ k[2] = "job") /\ k = <<k[1], k[2]>>
    BY DEF Holders
  <2>2. k[1] # p
    BY <2>1
  <2>3. orphan'[k[1]] = orphan[k[1]] /\ req'[k[1]] = req[k[1]]
    BY <1>1, <2>1, <2>2 DEF Moves
  <2> QED
    BY <2>1, <2>3 DEF places
<1>8. \/ places'[j] = places[j] \/ places'[j].cell = None
      \/ /\ places[h].level = "working" /\ places'[j].cell = places[h].cell
         /\ places'[j].root = places[h].root /\ places'[j].generation = places[h].generation
         /\ places'[j].level = "working"
  <2>1. CASE orphan' = orphan
    BY <1>6, <2>1
  <2>2. CASE orphan' = [orphan EXCEPT ![p] = Job(p)]
    <3>1. places'[j] = JobPlace(Job(p))
      BY <1>1, <1>6, <2>2
    <3>2. Job(p) = None => JobPlace(Job(p)).cell = None
      BY DEF JobPlace, Outside
    <3> QED
      BY <1>1, <1>2, <1>5, <3>1, <3>2, JobLeft
  <2> QED
    BY <2>1, <2>2
<1>9. \/ /\ cells' = cells
         /\ \/ \E k \in Holders \ {h} : k[2] = "call" /\ places[k].cell = places[h].cell
            \/ \E r \in Roots : cache.states[r].in_flight # None
                                 /\ cache.states[r].in_flight.cell = places[h].cell
      \/ /\ cells' = [cells EXCEPT ![places[h].cell] = Open]
         /\ \A k \in Holders \ {h} : k[2] = "call" => places[k].cell # places[h].cell
  <2>1. CASE \E q \in Reqs \ {p} : req[q].cell = m
    <3>1. PICK q \in Reqs \ {p} : req[q].cell = m
      BY <2>1
    <3>2. <<q, "call">> \in Holders \ {h} /\ <<q, "call">>[2] = "call"
          /\ places[<<q, "call">>] = CallPlace(req[q])
      BY DEF Holders, places
    <3>3. CallPlace(req[q]).cell = m
      BY <1>2, <3>1 DEF CallPlace
    <3> QED
      BY <1>3, <1>5, <3>1, <3>2, <3>3
  <2>2. CASE shared /\ ~(\E q \in Reqs \ {p} : req[q].cell = m)
    BY <1>3, <1>5, <2>2
  <2>3. CASE ~shared
    <3>1. ASSUME NEW k \in Holders \ {h}, k[2] = "call"
          PROVE  places[k].cell # m
      <4>1. k[1] \in Reqs \ {p} /\ places[k] = CallPlace(req[k[1]])
        BY <1>4, <3>1
      <4>2. req[k[1]].cell # m
        BY <2>3, <4>1
      <4> QED
        BY <1>2, <4>1, <4>2 DEF CallPlace, Outside
    <3> QED
      BY <1>3, <1>5, <2>3, <3>1
  <2> QED
    BY <2>1, <2>2, <2>3
<1>10. PlaceInv(cache', places', cells', published')
  <2>1. PlaceInv(cache, places, cells, published)
    BY DEF IInv
  <2> DEFINE to == places'
             new == cells'
  <2>2. Leaves(places, to, h, j) /\ Frees(cache, places, cells, new, h)
    BY <1>5, <1>7, <1>8, <1>9 DEF Leaves, Frees
  <2>3. /\ h \in Holders /\ j \in Holders /\ h[2] = "call" /\ j[2] = "job"
        /\ places[h].cell # None
    BY <1>2, <1>4, <1>5, <1>6
  <2> HIDE DEF h, j, to, new
  <2>4. PlaceInv(cache, to, new, published)
    BY <1>1, <2>1, <2>2, <2>3, LeavePlaces
  <2> QED
    BY <2>4 DEF to, new
<1>11. \A x \in Reqs : req'[x].cell # None =>
          /\ x # p /\ req'[x] = req[x] /\ req[x].cell # None
          /\ cells'[req[x].cell] = cells[req[x].cell]
  <2> SUFFICES ASSUME NEW x \in Reqs, req'[x].cell # None
               PROVE  /\ x # p /\ req'[x] = req[x] /\ req[x].cell # None
                      /\ cells'[req[x].cell] = cells[req[x].cell]
    OBVIOUS
  <2>1. x # p /\ req'[x] = req[x]
    BY DEF Moves
  <2>2. CASE req[x].cell = m
    BY <1>3, <2>1, <2>2
  <2>3. CASE req[x].cell # m
    BY <1>3, <2>1, <2>3
  <2> QED
    BY <2>1, <2>2, <2>3
<1>12. SharedInv(req', cells')
  BY <1>11 DEF IInv, SharedInv
<1>13. DOMAIN cells' = CellIds /\ Outcomes(cells')
  <2> HIDE DEF shared
  <2> QED
    BY <1>1, <1>2, <1>3 DEF Outcomes
<1>14. DOMAIN orphan' = Reqs /\ \A x \in Reqs : JobOK(orphan'[x])
  BY <1>1, <1>2, JobLeft
<1>15. Onward(cache, cache', epoch, epoch, artifacts, artifacts)
  BY <1>1 DEF Onward
<1>16. /\ CacheOK(cache') /\ cache'.next_generation >= cache.next_generation
       /\ req'[p].generation <= cache'.next_generation
  BY <1>1 DEF CacheOK
<1> QED
  BY <1>1, <1>10, <1>12, <1>13, <1>14, <1>15, <1>16, Assemble

LEMMA ReadStep ==
    ASSUME IInv, NEW p \in Reqs, ReadCell(p)
    PROVE  IInv'
<1> DEFINE m == req[p].cell
           outcome == cells[m]
           q == req[p]
<1>1. /\ CallOK(q) /\ DOMAIN req = Reqs /\ q.pc = "cell" /\ outcome # Open
      /\ CallInv(q, cache, epoch, artifacts) /\ LeaveCell(p) /\ Outcomes(cells)
      /\ UNCHANGED <<cache, orphan, published, epoch, artifacts>>
  BY DEF IInv, TypeOK, ReadCell, At, world, history
<1>2. q.pc \in Members /\ q.pc \notin Quiet
  BY <1>1 DEF Members, Quiet
<1>3. m \in CellIds /\ m # None
  BY <1>1, <1>2, MemberPlace DEF CallOK
<1>4. outcome.kind \in {"Built", "Failed", "Stale"}
  BY <1>1, <1>3 DEF Outcomes
<1>5. req' = [req EXCEPT ![p] = CASE outcome.kind = "Built" -> Serve(@, outcome.index)
                                  [] outcome.kind = "Failed" -> Ended("done")
                                  [] outcome.kind = "Stale" -> Retried(@)]
  BY DEF ReadCell
<1>6. Moves(p)
  BY <1>1, <1>5 DEF Moves
<1>7. /\ outcome.kind = "Built" => req'[p] = Serve(q, outcome.index)
      /\ outcome.kind = "Failed" => req'[p] = Ended("done")
      /\ outcome.kind = "Stale" => req'[p] = Retried(q)
  BY <1>1, <1>5
<1>8. /\ CallOK(req'[p]) /\ req'[p].cell = None /\ req'[p].generation = 0
      /\ CallInv(req'[p], cache, epoch, artifacts)
  <2>1. CASE outcome.kind = "Built"
    <3>1. outcome.index.began \in Nat /\ outcome.index.began >= q.since
      BY <1>3, <2>1 DEF IInv, SharedInv
    <3> DEFINE index == outcome.index
    <3> HIDE DEF q
    <3> QED
      BY <1>1, <1>2, <1>7, <2>1, <3>1, ServedCall
  <2>2. CASE outcome.kind = "Failed"
    BY <1>7, <2>2, EndedCall DEF Quiet
  <2>3. CASE outcome.kind = "Stale"
    <3> HIDE DEF q
    <3> QED
      BY <1>1, <1>2, <1>7, <2>3, RetriedCall
  <2> QED
    BY <1>4, <2>1, <2>2, <2>3
<1> QED
  BY <1>1, <1>2, <1>6, <1>8, LeaveStep

LEMMA CancelStep ==
    ASSUME IInv, NEW p \in Reqs, Cancel(p)
    PROVE  IInv'
<1> DEFINE q == req[p]
<1>1. /\ CallOK(q) /\ DOMAIN req = Reqs /\ q.pc \in Awaits /\ CacheOK(cache)
      /\ req' = [req EXCEPT ![p] = Ended("dropped")]
      /\ UNCHANGED <<cache, published, epoch, artifacts>>
      /\ orphan' = orphan \/ orphan' = [orphan EXCEPT ![p] = Job(p)]
  BY DEF IInv, TypeOK, Cancel, world, history
<1>2. q.pc \notin Quiet /\ "dropped" \in Quiet
  BY <1>1 DEF Awaits, Jobs, Quiet
<1>3. /\ Moves(p) /\ CallOK(req'[p]) /\ req'[p].cell = None /\ req'[p].generation = 0
      /\ CallInv(req'[p], cache, epoch, artifacts)
  BY <1>1, <1>2, EndedCall DEF Moves
<1>4. CASE q.pc \in Members
  <2>1. LeaveCell(p)
    BY <1>1, <1>4, MemberPlace DEF Cancel
  <2> QED
    BY <1>1, <1>3, <1>4, <2>1, LeaveStep
<1>5. CASE q.pc \notin Members
  <2>1. q.cell = None /\ cells' = cells
    BY <1>1, <1>5, MemberPlace DEF Cancel
  <2>2. /\ DOMAIN orphan = Reqs /\ \A x \in Reqs : JobOK(orphan[x])
        /\ DOMAIN cells = CellIds /\ Outcomes(cells)
        /\ published \in [Roots -> SUBSET Nat] /\ StateInv(cache, epoch)
        /\ epoch \in [Roots -> Nat] /\ artifacts \in [Roots -> Nat]
    BY DEF IInv, TypeOK
  <2> DEFINE h == <<p, "call">>
             j == <<p, "job">>
  <2>3. ASSUME NEW k \in Holders
        PROVE  places'[k] = places[k] \/ (k = j /\ places'[k].cell = None)
    <3>1. k[1] \in Reqs /\ (k[2] = "call" \/ k[2] = "job") /\ k = <<k[1], k[2]>>
      BY DEF Holders
    <3>2. CASE k[1] # p
      <4>1. orphan'[k[1]] = orphan[k[1]] /\ req'[k[1]] = req[k[1]]
        BY <1>1, <1>3, <2>2, <3>1, <3>2 DEF Moves
      <4> QED
        BY <3>1, <4>1 DEF places
    <3>3. CASE k = h
      BY <1>3, <2>1, <3>3 DEF places, CallPlace
    <3>4. CASE k = j
      <4>1. places[j] = JobPlace(orphan[p]) /\ places'[j] = JobPlace(orphan'[p])
        BY <3>4 DEF places
      <4>2. CASE orphan' = orphan
        BY <3>4, <4>1, <4>2
      <4>3. CASE orphan' = [orphan EXCEPT ![p] = Job(p)]
        <5>1. orphan'[p] = Job(p)
          BY <2>2, <4>3
        <5>2. JobPlace(Job(p)).cell = None
          BY <1>1, <1>2, <2>1, JobLeft
        <5> QED
          BY <3>4, <4>1, <5>1, <5>2
      <4> QED
        BY <1>1, <4>2, <4>3
    <3> QED
      BY <3>1, <3>2, <3>3, <3>4
  <2>4. PlaceInv(cache', places', cells', published')
    <3>1. PlaceInv(cache, places, cells, published) /\ j \in Holders /\ j[2] = "job"
      BY DEF IInv, Holders
    <3>2. CASE places'[j].cell = None
      <4> DEFINE to == places'
      <4>1. to[j].cell = None /\ \A k \in Holders \ {j} : to[k] = places[k]
        BY <2>3, <3>2
      <4> HIDE DEF to, j
      <4>2. PlaceInv(cache, to, cells, published)
        BY <3>1, <4>1, JobEndsPlaces
      <4> QED
        BY <1>1, <2>1, <4>2 DEF to
    <3>3. CASE places'[j].cell # None
      <4>1. \A k \in Holders : places'[k] = places[k]
        BY <2>3, <3>3
      <4>2. places' = places
        BY <4>1 DEF places
      <4> QED
        BY <1>1, <2>1, <3>1, <4>2
    <3> QED
      BY <3>2, <3>3
  <2>5. SharedInv(req', cells')
    <3>1. \A x \in Reqs : req'[x].cell # None => req'[x] = req[x]
      BY <1>3 DEF Moves
    <3> QED
      BY <2>1, <3>1 DEF IInv, SharedInv
  <2>6. DOMAIN orphan' = Reqs /\ \A x \in Reqs : JobOK(orphan'[x])
    BY <1>1, <1>2, <2>2, JobLeft
  <2>7. Onward(cache, cache', epoch, epoch, artifacts, artifacts)
    BY <1>1, <2>2 DEF Onward
  <2>8. /\ CacheOK(cache') /\ cache'.next_generation >= cache.next_generation
        /\ req'[p].generation <= cache'.next_generation
    BY <1>1, <1>3 DEF CacheOK
  <2> QED
    BY <1>1, <1>3, <2>1, <2>2, <2>4, <2>5, <2>6, <2>7, <2>8, Assemble
<1> QED
  BY <1>4, <1>5

LEMMA OrphanStep ==
    ASSUME IInv, NEW p \in Reqs, OrphanEnds(p)
    PROVE  IInv'
<1> DEFINE j == <<p, "job">>
<1>1. /\ orphan' = [orphan EXCEPT ![p] = None] /\ DOMAIN orphan = Reqs
      /\ UNCHANGED <<cache, req, cells, published, epoch, artifacts>>
  BY DEF OrphanEnds, IInv, TypeOK, world, history
<1>2. j \in Holders /\ j[2] = "job" /\ j[1] = p
  BY DEF Holders
<1>3. places'[j].cell = None
  BY <1>1, <1>2 DEF places, JobPlace, Outside
<1>4. ASSUME NEW k \in Holders \ {j}
      PROVE  places'[k] = places[k]
  <2>1. k[1] \in Reqs /\ (k[2] = "call" \/ k[2] = "job") /\ k = <<k[1], k[2]>>
    BY DEF Holders
  <2> QED
    BY <1>1, <2>1 DEF places
<1>5. PlaceInv(cache', places', cells', published')
  <2>1. PlaceInv(cache, places, cells, published)
    BY DEF IInv
  <2> DEFINE to == places'
  <2>2. to[j].cell = None /\ \A k \in Holders \ {j} : to[k] = places[k]
    BY <1>3, <1>4
  <2> HIDE DEF to, j
  <2>3. PlaceInv(cache, to, cells, published)
    BY <1>2, <2>1, <2>2, JobEndsPlaces
  <2> QED
    BY <1>1, <2>3 DEF to
<1>6. TypeOK'
  BY <1>1 DEF IInv, TypeOK, JobOK
<1> QED
  BY <1>1, <1>5, <1>6 DEF IInv

LEMMA Untouched ==
    ASSUME IInv, UNCHANGED <<cache, req, cells, orphan, published, epoch, artifacts>>
    PROVE  IInv'
<1>1. places' = places
  BY DEF places
<1>2. TypeOK'
  BY DEF IInv, TypeOK
<1> QED
  BY <1>1, <1>2 DEF IInv

LEMMA EditStep ==
    ASSUME IInv, NEW r \in Roots, EditPom(r) \/ EditArtifacts(r)
    PROVE  IInv'
<1>1. CASE EditPom(r)
  BY <1>1, Untouched DEF EditPom, disk, history
<1>2. CASE EditArtifacts(r)
  <2>1. /\ UNCHANGED <<cache, req, cells, orphan, published, epoch>>
        /\ artifacts' = [artifacts EXCEPT ![r] = @ + 1]
    BY <1>2 DEF EditArtifacts, disk, history
  <2>2. epoch \in [Roots -> Nat] /\ artifacts \in [Roots -> Nat]
        /\ cache.next_generation \in Nat
    BY DEF IInv, TypeOK, CacheOK
  <2>3. artifacts' \in [Roots -> Nat]
    BY <2>1, <2>2
  <2>4. Onward(cache, cache, epoch, epoch, artifacts, artifacts')
    BY <2>1, <2>2 DEF Onward
  <2>5. ASSUME NEW x \in Reqs
        PROVE  CallInv(req'[x], cache', epoch', artifacts')
    <3>1. CallOK(req[x]) /\ CallInv(req[x], cache, epoch, artifacts)
          /\ req[x].generation <= cache.next_generation
      BY DEF IInv, TypeOK
    <3> DEFINE edited == artifacts'
    <3>2. Onward(cache, cache, epoch, epoch, artifacts, edited)
      BY <2>4
    <3> HIDE DEF edited
    <3>3. CallInv(req[x], cache, epoch, edited)
      BY <2>2, <3>1, <3>2, CallInvOnward
    <3> QED
      BY <2>1, <3>3 DEF edited
  <2>6. places' = places
    BY <2>1 DEF places
  <2>7. TypeOK'
    BY <2>1, <2>3 DEF IInv, TypeOK
  <2> QED
    BY <2>1, <2>5, <2>6, <2>7 DEF IInv
<1> QED
  BY <1>1, <1>2

LEMMA BlockingStep ==
    ASSUME IInv, NEW p \in Reqs, BlockingFails(p)
    PROVE  IInv'
<1>1. CacheOK(cache) /\ CallOK(req[p])
  BY DEF IInv, TypeOK
<1>2. CASE /\ req[p].pc \in {"validate", "use", "running"}
           /\ req' = [req EXCEPT ![p] = Ended("done")]
           /\ UNCHANGED <<cache, cells, orphan, disk, world, history>>
  BY <1>2, UseStep DEF world, history
<1>3. CASE /\ At(p, "forget") /\ Forgotten(p)
           /\ UNCHANGED <<cache, cells, orphan, disk, world, history>>
  BY <1>3, ForgottenStep DEF At, world, history
<1>4. CASE req[p].pc \in {"resolve", "maven", "stamp", "verify"} /\ Fail(p)
  <2>1. req[p].pc \in Owning /\ Weaker(cache, cache, LiveCells) /\ EnvOf(p).live = LiveCells
    BY <1>1, <1>4, WeakerReflexive, EnvLive DEF Owning
  <2>2. /\ Complete(p, Failed) /\ UNCHANGED <<orphan, published, epoch, artifacts>>
        /\ cache' = FinishFailed(cache, req[p].root, req[p].generation, EnvOf(p))
    BY <1>4 DEF Fail, Root, world, history
  <2> QED
    BY <2>1, <2>2, FailStep
<1>5. CASE /\ At(p, "persist") /\ Goto(p, "recheck")
           /\ UNCHANGED <<cache, cells, orphan, disk, world, history>>
  <2>1. Weaker(cache, cache', LiveCells)
    BY <1>1, <1>5, WeakerReflexive
  <2> QED
    BY <1>5, <2>1, MoveOn DEF At, Goto, world, history
<1>6. CASE /\ At(p, "unpersist") /\ Built(p)
           /\ UNCHANGED <<cache, orphan, disk, world, history>>
  BY <1>6, BuiltStep DEF At, Finishing, world, history
<1> QED
  BY <1>2, <1>3, <1>4, <1>5, <1>6 DEF BlockingFails

-----------------------------------------------------------------------------
LEMMA InitIInv ==
    Init => IInv
<1> SUFFICES ASSUME Init
             PROVE  IInv
  OBVIOUS
<1>1. /\ DOMAIN EmptyCache = {"states", "released", "next_generation", "lru"}
      /\ EmptyCache.next_generation = 0 /\ DOMAIN EmptyCache.states = Roots
      /\ \A r \in Roots : EmptyCache.states[r] = Absent
  BY DEF EmptyCache
<1>2. /\ StateOK(Absent) /\ Absent.generation = 0 /\ Absent.index = None
      /\ Absent.in_flight = None
  BY DEF Absent, NewState, StateOK
<1>3. CacheOK(EmptyCache)
  BY <1>1, <1>2 DEF CacheOK
<1>4. /\ CallOK(Idle) /\ Idle.generation = 0 /\ Idle.cell = None
      /\ \A c, ep, art : CallInv(Idle, c, ep, art)
  <2>1. /\ DOMAIN Idle = Fields /\ Idle.pc = "idle" /\ Idle.generation = 0
        /\ Idle.since = 0 /\ Idle.began = 0 /\ Idle.stamps = 0
        /\ Idle.reuse \in BOOLEAN /\ Idle.changed \in BOOLEAN /\ Idle.cell = None
    BY DEF Idle, Fields
  <2>2. /\ "idle" \in Quiet /\ "idle" \notin Members /\ "idle" \notin Owning
        /\ "idle" \notin Finishing
    BY DEF Quiet, Members, Owning, Finishing
  <2> QED
    BY <2>1, <2>2 DEF CallOK, CallInv
<1>5. \A p \in Reqs : req[p] = Idle /\ orphan[p] = None
  BY DEF Init
<1>6. TypeOK
  <2>1. \A p \in Reqs : JobOK(orphan[p])
    BY <1>5 DEF JobOK
  <2>2. Outcomes(cells)
    BY DEF Init, Outcomes
  <2> QED
    BY <1>1, <1>3, <1>4, <1>5, <2>1, <2>2 DEF Init, TypeOK
<1>7. \A h \in Holders : places[h].cell = None
  <2> SUFFICES ASSUME NEW h \in Holders
               PROVE  places[h].cell = None
    OBVIOUS
  <2>1. h[1] \in Reqs
    BY DEF Holders
  <2>2. req[h[1]].cell = None /\ orphan[h[1]] = None
    BY <1>4, <1>5, <2>1
  <2> QED
    BY <2>2 DEF places, CallPlace, JobPlace, Outside
<1>8. PlaceInv(cache, places, cells, published)
  <2>1. \A m \in CellIds : cells[m] = Open
    BY DEF Init
  <2>2. \A r \in Roots : cache.states[r].in_flight = None
    BY <1>1, <1>2 DEF Init
  <2>3. /\ PlacesOK(cache, places) /\ SameCell(places) /\ OneOwner(places)
    BY <1>7 DEF PlacesOK, SameCell, OneOwner
  <2>4. CellsOK(places, cells)
    BY <1>7, <2>1 DEF CellsOK
  <2>5. OneCell(places, cells, published) /\ Marked(cache, places, cells, published)
    BY <1>7 DEF OneCell, Marked, Waits
  <2>6. MarkersOK(cache, places, cells)
    BY <2>2 DEF MarkersOK
  <2> QED
    BY <2>3, <2>4, <2>5, <2>6 DEF PlaceInv
<1>9. StateInv(cache, epoch)
  BY <1>1, <1>2 DEF Init, StateInv
<1>10. SharedInv(req, cells)
  BY <1>4, <1>5 DEF SharedInv
<1> QED
  BY <1>4, <1>5, <1>6, <1>8, <1>9, <1>10 DEF IInv

LEMMA NextIInv ==
    IInv /\ [Next]_vars => IInv'
<1> SUFFICES ASSUME IInv, [Next]_vars
             PROVE  IInv'
  OBVIOUS
<1>1. CASE UNCHANGED vars
  BY <1>1, Untouched DEF vars
<1>2. ASSUME NEW r \in Roots, EditPom(r) \/ EditArtifacts(r)
      PROVE  IInv'
  BY <1>2, EditStep
<1>3. ASSUME NEW p \in Reqs, Start(p) \/ Advance(p) \/ Cancel(p) \/ OrphanEnds(p)
      PROVE  IInv'
  <2>1. CASE Start(p)
    BY <2>1, StartStep
  <2>2. CASE Cancel(p)
    BY <2>2, CancelStep
  <2>3. CASE OrphanEnds(p)
    BY <2>3, OrphanStep
  <2>4. CASE Advance(p)
    <3>1. CASE Refresh(p) \/ InvalidateProject(p) \/ Forget(p)
      BY <3>1, RefreshStep, InvalidateProjectStep, ForgetStep
    <3>2. CASE CheckRunner(p) \/ Discover(p) \/ DiscoverFails(p) \/ Install(p)
      BY <3>2, RunnerSteps
    <3>3. CASE Lookup(p) \/ Validate(p) \/ EnterCell(p) \/ ReadCell(p) \/ AcquireOwner(p)
      BY <3>3, LookupStep, ValidateStep, EnterStep, ReadStep
    <3>4. CASE Use(p)
      BY <3>4, UseStep DEF Use, At, world, history
    <3>5. CASE Resolve(p) \/ ResolveWithMaven(p) \/ Stamp(p)
      BY <3>5, ResolveSteps
    <3>6. CASE ReserveMemory(p) \/ PublishBuild(p) \/ BlockingFails(p)
      BY <3>6, ReserveStep, PublishStep, BlockingStep
    <3>7. CASE ReadFlag(p) \/ BuildScoped(p) \/ VerifyBuild(p)
      BY <3>7, BuildSteps
    <3>8. CASE Persist(p) \/ Recheck(p) \/ Unpersist(p)
      BY <3>8, PersistSteps
    <3> QED
      BY <2>4, <3>1, <3>2, <3>3, <3>4, <3>5, <3>6, <3>7, <3>8 DEF Advance
  <2> QED
    BY <1>3, <2>1, <2>2, <2>3, <2>4
<1> QED
  BY <1>1, <1>2, <1>3 DEF Next

(* The calls keep the inductive invariant, whatever they are and however   *)
(* their steps, cancellations, failures and edits interleave.              *)
THEOREM InvariantHolds == Spec => []IInv
BY InitIInv, NextIInv, PTL DEF Spec

(* NoStaleIndex for any number of calls and projects: a retained index was *)
(* begun after the last refresh or Maven run of its project, and a refresh *)
(* is answered with an index begun after its own invalidation (publish,    *)
(* is_current, fresh_generation, refresh_project).                         *)
THEOREM NoStaleIndexHolds == Spec => []NoStaleIndex
<1>1. IInv => NoStaleIndex
  <2> SUFFICES ASSUME IInv
               PROVE  NoStaleIndex
    OBVIOUS
  <2>1. \A r \in Roots :
           cache.states[r].index # None => cache.states[r].index.began = epoch[r]
    BY DEF IInv, StateInv
  <2>2. \A p \in Reqs : At(p, "use") => req[p].index.began >= req[p].since
    BY DEF IInv, CallInv, At
  <2> QED
    BY <2>1, <2>2 DEF NoStaleIndex
<1> QED
  BY <1>1, InvariantHolds, PTL

(* No call is answered from an index that was invalidated before the call  *)
(* arrived, whichever way it comes by the index, retained, joined or built,*)
(* and however often it begins again (index_for, lookup_index,             *)
(* build_index).                                                           *)
FreshAnswers == \A p \in Reqs : At(p, "use") => req[p].index.began >= req[p].since

(* FreshAnswers for any number of calls, projects and attempts: nobody     *)
(* gets an index from before a refresh or a Maven run that was over when   *)
(* they asked (try_build_index, publish, invalidate_project).  The smallest*)
(* instance that could break it has three calls: one builds, one           *)
(* invalidates, one asks.                                                  *)
THEOREM FreshAnswersHolds == Spec => []FreshAnswers
<1>1. IInv => FreshAnswers
  BY DEF IInv, CallInv, FreshAnswers, At
<1> QED
  BY <1>1, InvariantHolds, PTL

(* IndexMatchesItsStamps for any number of edits: what the retained index  *)
(* was read from is what it is validated against (try_build_index).        *)
THEOREM IndexMatchesItsStampsHolds == Spec => []IndexMatchesItsStamps
<1>1. IInv => IndexMatchesItsStamps
  BY DEF IInv, StateInv, IndexMatchesItsStamps
<1> QED
  BY <1>1, InvariantHolds, PTL

(* A job that reads archives holds an open cell of its generation with the *)
(* owner lock.                                                             *)
LEMMA BuilderPlace ==
    ASSUME IInv, NEW r \in Roots, NEW g, NEW p \in BuildsOf(r, g), g \notin published[r]
    PROVE  \E k \in Holders : /\ k[1] = p /\ places[k].cell # None
                              /\ places[k].level \in Locked
                              /\ places[k].root = r /\ places[k].generation = g
                              /\ Waits(k, places, cells, published)
<1>0. ASSUME NEW k \in Holders, places[k].cell # None, places[k].level \in Locked,
             places[k].root = r, places[k].generation = g
      PROVE  Waits(k, places, cells, published)
  <2>1. cells[places[k].cell] = Open
    BY <1>0 DEF IInv, PlaceInv, CellsOK, Locked, Entered
  <2> QED
    BY <1>0, <2>1 DEF Waits
<1>1. CASE p \in Reqs /\ req[p].pc \in Building /\ Root(p) = r /\ req[p].generation = g
  <2> DEFINE k == <<p, "call">>
  <2>1. CallOK(req[p]) /\ req[p].pc \in Members /\ req[p].pc \in Owning
    BY <1>1 DEF IInv, TypeOK, Building, Members, Owning
  <2>2. /\ k \in Holders /\ k[1] = p /\ places[k] = CallPlace(req[p])
    BY <1>1 DEF Holders, places
  <2>3. /\ places[k].cell # None /\ places[k].level \in Locked
        /\ places[k].root = r /\ places[k].generation = g
    BY <1>1, <2>1, <2>2, MemberPlace, MemberLevels DEF Root
  <2> QED
    BY <1>0, <2>2, <2>3
<1>2. CASE p \in Reqs /\ orphan[p] # None /\ orphan[p].building
           /\ orphan[p].root = r /\ orphan[p].generation = g
  <2> DEFINE k == <<p, "job">>
  <2>1. orphan[p].cell \in CellIds
    BY <1>2 DEF IInv, TypeOK, JobOK
  <2>2. orphan[p].cell # None
    BY <2>1, NoneAssumption DEF CellIds
  <2>3. /\ k \in Holders /\ k[1] = p /\ places[k] = JobPlace(orphan[p])
    BY <1>2 DEF Holders, places
  <2>4. /\ places[k].cell # None /\ places[k].level \in Locked
        /\ places[k].root = r /\ places[k].generation = g
    BY <1>2, <2>2, <2>3 DEF JobPlace, Locked
  <2> QED
    BY <1>0, <2>3, <2>4
<1> QED
  BY <1>1, <1>2 DEF BuildsOf

(* SingleFlight for any number of calls and abandoned jobs: one build of   *)
(* an unpublished generation runs at a time, and a marker stands for a     *)
(* build whose outcome is still open (build_index and its owner lock,      *)
(* finish_failed, invalidate, publish).                                    *)
THEOREM SingleFlightHolds == Spec => []SingleFlight
<1>1. ASSUME IInv, NEW r \in Roots, NEW g, g \notin published[r]
      PROVE  Cardinality(BuildsOf(r, g)) <= 1
  <2>1. ASSUME NEW p \in BuildsOf(r, g), NEW q \in BuildsOf(r, g)
        PROVE  p = q
    <3>1. PICK k \in Holders : /\ k[1] = p /\ places[k].cell # None
                               /\ places[k].level \in Locked
                               /\ places[k].root = r /\ places[k].generation = g
                               /\ Waits(k, places, cells, published)
      BY <1>1, BuilderPlace
    <3>2. PICK l \in Holders : /\ l[1] = q /\ places[l].cell # None
                               /\ places[l].level \in Locked
                               /\ places[l].root = r /\ places[l].generation = g
                               /\ Waits(l, places, cells, published)
      BY <1>1, BuilderPlace
    <3>3. places[k].cell = places[l].cell
      BY <1>1, <3>1, <3>2 DEF IInv, PlaceInv, OneCell
    <3>4. k = l
      BY <1>1, <3>1, <3>2, <3>3 DEF IInv, PlaceInv, OneOwner
    <3> QED
      BY <3>1, <3>2, <3>4
  <2>2. CASE BuildsOf(r, g) = {}
    BY <2>2, FS_EmptySet
  <2>3. CASE BuildsOf(r, g) # {}
    <3>1. PICK p : p \in BuildsOf(r, g)
      BY <2>3
    <3>2. BuildsOf(r, g) = {p}
      BY <2>1, <3>1
    <3>3. Cardinality({p}) = 1
      BY FS_Singleton
    <3> QED
      BY <3>2, <3>3
  <2> QED
    BY <2>2, <2>3
<1>2. IInv => SingleFlight
  <2> SUFFICES ASSUME IInv
               PROVE  SingleFlight
    OBVIOUS
  <2>1. ASSUME NEW r \in Roots, cache.states[r].in_flight # None
        PROVE  cells[cache.states[r].in_flight.cell] = Open
    BY <2>1 DEF IInv, PlaceInv, MarkersOK
  <2> QED
    BY <1>1, <2>1 DEF SingleFlight
<1> QED
  BY <1>2, InvariantHolds, PTL

-----------------------------------------------------------------------------
(* Only the publication retains another index. *)
KeepsIndexes(c, d) == \A r \in Roots : d.states[r].index \in {c.states[r].index, None}

LEMMA WeakerKeeps ==
    ASSUME NEW c, NEW d, NEW live, Weaker(c, d, live)
    PROVE  KeepsIndexes(c, d)
BY DEF Weaker, Reduced, KeepsIndexes

LEMMA SettledKeeps ==
    ASSUME NEW c, CacheOK(c), NEW r \in Roots, NEW index, NEW d, NEW live,
           Weaker(Settled(c, r, index), d, live)
    PROVE  \A s \in Roots : d.states[s].index \in
              (IF s = r THEN {index, None} ELSE {c.states[s].index, None})
<1> DEFINE f == Settled(c, r, index)
<1>1. /\ \A s \in Roots \ {r} : f.states[s] = c.states[s]
      /\ f.states[r].index = index
  BY SettledOK
<1>2. KeepsIndexes(f, d)
  BY WeakerKeeps
<1> HIDE DEF f
<1> QED
  BY <1>1, <1>2 DEF KeepsIndexes

LEMMA FailKeeps ==
    ASSUME NEW c, NEW d, NEW e, NEW r \in Roots, NEW generation, CacheOK(c),
           d = FinishFailed(c, r, generation, e)
    PROVE  KeepsIndexes(c, d)
<1>1. CASE IsCurrent(c, r, generation)
  <2> DEFINE x == c.states[r].index
  <2>1. Weaker(Settled(c, r, x), d, e.live)
    BY <1>1, FinishFailedWeaker
  <2> HIDE DEF x
  <2>2. \A s \in Roots : d.states[s].index \in
           (IF s = r THEN {x, None} ELSE {c.states[s].index, None})
    BY <2>1, SettledKeeps
  <2> QED
    BY <2>2 DEF KeepsIndexes, x
<1>2. CASE ~IsCurrent(c, r, generation)
  BY <1>2, FinishFailedWeaker, WeakerKeeps
<1> QED
  BY <1>1, <1>2

LEMMA LookupKeeps ==
    ASSUME NEW c, NEW d, NEW e, NEW r \in Roots, NEW fingerprint, NEW fresh, CacheOK(c),
           d = LookupIndex(c, r, fingerprint, fresh, e)
    PROVE  KeepsIndexes(c, d)
<1>1. PICK f : /\ CacheOK(f) /\ Weaker(c, f, e.live)
               /\ \/ d = f
                  \/ d = [f EXCEPT !.states[r].in_flight =
                             [cell |-> fresh, generation |-> f.states[r].generation]]
  BY LookupIndexWeaker
<1>2. KeepsIndexes(c, f)
  BY <1>1, WeakerKeeps
<1>3. \A s \in Roots : d.states[s].index = f.states[s].index
  <2>1. CASE d = f
    BY <2>1
  <2>2. CASE d = [f EXCEPT !.states[r].in_flight =
                     [cell |-> fresh, generation |-> f.states[r].generation]]
    <3> DEFINE marker == [cell |-> fresh, generation |-> f.states[r].generation]
    <3>1. d = WithMarker(f, r, marker)
      BY <2>2 DEF WithMarker
    <3> HIDE DEF marker
    <3> QED
      BY <1>1, <3>1, MarkerAdded
  <2> QED
    BY <1>1, <2>1, <2>2
<1> QED
  BY <1>2, <1>3 DEF KeepsIndexes

(* The publication retains the index of a build that read every archive    *)
(* when the state asks for it.                                             *)
LEMMA PublishRereads ==
    ASSUME IInv, NEW p \in Reqs, req[p].pc = "publish",
           IsCurrent(cache, req[p].root, req[p].generation), NEW e,
           cache' = FinishFullRebuild(Publish(cache, req[p].root, req[p].index, e),
                                      req[p].root, req[p].generation),
           NEW s \in Roots, cache'.states[s].index \notin {None, cache.states[s].index},
           RequiresFullRebuild(cache, s)
    PROVE  cache'.states[s].index.reread
<1> DEFINE r == req[p].root
<1>1. /\ CacheOK(cache) /\ CallOK(req[p]) /\ CallInv(req[p], cache, epoch, artifacts)
  BY DEF IInv, TypeOK
<1>2. r \in Roots
  BY <1>1 DEF CallOK, Quiet
<1>3. PICK x \in {cache.states[r].index, req[p].index} :
         Weaker(Settled(cache, r, x), cache', e.live)
  BY <1>1, <1>2, PublishWeaker
<1>4. \A t \in Roots : cache'.states[t].index \in
         (IF t = r THEN {x, None} ELSE {cache.states[t].index, None})
  <2> DEFINE d == cache'
  <2>1. Weaker(Settled(cache, r, x), d, e.live)
    BY <1>3
  <2> HIDE DEF r, d
  <2>2. \A t \in Roots : d.states[t].index \in
           (IF t = r THEN {x, None} ELSE {cache.states[t].index, None})
    BY <1>1, <1>2, <2>1, SettledKeeps
  <2> QED
    BY <2>2 DEF r, d
<1>5. s = r /\ cache'.states[s].index = req[p].index
  BY <1>3, <1>4
<1>6. cache.states[r].full_rebuild
  BY <1>5 DEF RequiresFullRebuild
<1>7. ~req[p].reuse
  BY <1>1, <1>6 DEF CallInv
<1>8. req[p].index.reread
  BY <1>1, <1>7 DEF CallInv
<1> QED
  BY <1>5, <1>8

(* Every other operation of the cache keeps or drops the indexes it finds. *)
LEMMA InvalidationKeeps ==
    ASSUME IInv, NEW p \in Reqs, Refresh(p) \/ InvalidateProject(p) \/ DiscoverFails(p)
    PROVE  KeepsIndexes(cache, cache')
<1> DEFINE r == req[p].root
           e == EnvOf(p)
<1>1. CacheOK(cache) /\ CallOK(req[p]) /\ StateInv(cache, epoch)
  BY DEF IInv, TypeOK
<1>2. req[p].pc \in {"refresh", "running", "discover"}
  BY DEF Refresh, InvalidateProject, DiscoverFails, At
<1>3. r \in Roots
  BY <1>1, <1>2 DEF CallOK, Quiet
<1>4. ~Present(cache, r) => cache.states[r].index = None /\ cache.states[r].in_flight = None
  BY <1>1, <1>3 DEF StateInv
<1>5. \/ cache' = RequireFullRebuild(InvalidateAfterMaven(cache, r, e), r)
      \/ cache' = InvalidateAfterMaven(cache, r, e)
      \/ cache' = DiscardProject(cache, r, e)
  BY DEF Refresh, InvalidateProject, DiscoverFails, Root
<1> HIDE DEF r, e
<1>6. CASE cache' = RequireFullRebuild(InvalidateAfterMaven(cache, r, e), r)
  <2>1. Weaker(cache, cache', e.live)
    BY <1>1, <1>3, <1>4, <1>6, RefreshWeaker
  <2> QED
    BY <2>1, WeakerKeeps
<1>7. CASE cache' = InvalidateAfterMaven(cache, r, e)
  BY <1>1, <1>3, <1>7, InvalidateAfterMavenWeaker, WeakerKeeps
<1>8. CASE cache' = DiscardProject(cache, r, e)
  BY <1>1, <1>3, <1>8, DiscardProjectWeaker, WeakerKeeps
<1> QED
  BY <1>5, <1>6, <1>7, <1>8

LEMMA LookupStepsKeep ==
    ASSUME IInv, NEW p \in Reqs, CheckRunner(p) \/ Install(p) \/ Lookup(p) \/ Validate(p)
    PROVE  KeepsIndexes(cache, cache')
<1> DEFINE r == req[p].root
           g == req[p].generation
           e == EnvOf(p)
<1>1. CacheOK(cache) /\ CallOK(req[p]) /\ g <= cache.next_generation
  BY DEF IInv, TypeOK
<1>2. req[p].pc \in {"runner", "install", "lookup", "validate"}
  BY DEF CheckRunner, Install, Lookup, Validate, At
<1>3. r \in Roots /\ g \in Nat
  BY <1>1, <1>2 DEF CallOK, Quiet
<1>4. CASE CheckRunner(p)
  <2>1. cache' = LookupRunner(cache, r)
    BY <1>4 DEF CheckRunner, Root
  <2>2. Weaker(cache, cache', e.live)
    BY <1>1, <2>1, LookupRunnerWeaker
  <2> QED
    BY <2>2, WeakerKeeps
<1>5. CASE Install(p)
  <2>1. PICK stamped \in req[p].model .. pom[Root(p)] : InstallStamped(p, stamped)
    BY <1>5 DEF Install
  <2>2. \E runner : cache' = InstallRunner(cache, r, runner, e)
    BY <2>1 DEF InstallStamped, Root
  <2> HIDE DEF r, e
  <2>3. Weaker(cache, cache', e.live)
    BY <1>1, <1>3, <2>2, InstallRunnerWeaker
  <2> QED
    BY <2>3, WeakerKeeps
<1>6. CASE Lookup(p)
  <2>1. \E fingerprint, fresh : cache' = LookupIndex(cache, r, fingerprint, fresh, e)
    BY <1>6 DEF Lookup, Root
  <2> HIDE DEF r, e
  <2> QED
    BY <1>1, <1>3, <2>1, LookupKeeps
<1>7. CASE Validate(p)
  <2>1. cache' = RecordHit(cache, r) \/ cache' = InvalidateGeneration(cache, r, g, e)
    BY <1>7 DEF Validate, Root
  <2> HIDE DEF r, e, g
  <2>2. Weaker(cache, cache', e.live)
    BY <1>1, <1>3, <2>1, LookupRunnerWeaker, InvalidateGenerationWeaker
  <2> QED
    BY <2>2, WeakerKeeps
<1> QED
  BY <1>4, <1>5, <1>6, <1>7

LEMMA ReserveKeeps ==
    ASSUME IInv, NEW p \in Reqs, ReserveMemory(p)
    PROVE  KeepsIndexes(cache, cache')
<1> DEFINE r == req[p].root
           g == req[p].generation
           e == EnvOf(p)
           c == Reserve(cache, r, ReserveBytes[r], e)
<1>1. CacheOK(cache) /\ CallOK(req[p])
  BY DEF IInv, TypeOK
<1>2. req[p].pc = "reserve"
  BY DEF ReserveMemory, At
<1>3. r \in Roots
  BY <1>1, <1>2 DEF CallOK, Quiet
<1>4. cache' = Prune(cache, e) \/ cache' = c \/ cache' = FinishFailed(c, r, g, e)
  BY DEF ReserveMemory, Root
<1>5. Weaker(cache, c, e.live) /\ Weaker(cache, Prune(cache, e), e.live)
  BY <1>1, <1>3, ReserveWeaker, PruneWeaker
<1> HIDE DEF r, g, e, c
<1>6. KeepsIndexes(cache, c) /\ KeepsIndexes(cache, Prune(cache, e)) /\ CacheOK(c)
  BY <1>5, WeakerKeeps DEF Weaker
<1>7. KeepsIndexes(c, FinishFailed(c, r, g, e))
  BY <1>3, <1>6, FailKeeps
<1>8. \A d : KeepsIndexes(c, d) => KeepsIndexes(cache, d)
  BY <1>6 DEF KeepsIndexes
<1> QED
  BY <1>4, <1>6, <1>7, <1>8

(* The publication is the one step that retains another index. *)
LEMMA NextRereads ==
    ASSUME IInv, [Next]_vars, NEW s \in Roots,
           cache'.states[s].index \notin {None, cache.states[s].index},
           RequiresFullRebuild(cache, s)
    PROVE  cache'.states[s].index.reread
<1>1. ~KeepsIndexes(cache, cache')
  BY DEF KeepsIndexes
<1>2. CacheOK(cache) /\ cache' # cache
  BY DEF IInv, TypeOK
<1>3. PICK p \in Reqs : Advance(p)
  BY <1>2 DEF Next, vars, Start, Cancel, OrphanEnds, EditPom, EditArtifacts
<1>4. CallOK(req[p]) /\ req[p].generation <= cache.next_generation
  BY DEF IInv, TypeOK
<1>5. CASE PublishBuild(p)
  <2> DEFINE r == req[p].root
             g == req[p].generation
             e == EnvOf(p)
  <2>1. req[p].pc = "publish"
    BY <1>5 DEF PublishBuild, At
  <2>2. r \in Roots /\ g \in Nat
    BY <1>4, <2>1 DEF CallOK, Quiet
  <2>3. \/ cache' = InvalidateGeneration(cache, r, g, e)
        \/ cache' = Prune(cache, e)
        \/ /\ IsCurrent(cache, r, g)
           /\ cache' = FinishFullRebuild(Publish(cache, r, req[p].index, e), r, g)
    BY <1>5 DEF PublishBuild, Root
  <2>4. CASE cache' = InvalidateGeneration(cache, r, g, e)
    <3> HIDE DEF r, g, e
    <3>1. Weaker(cache, cache', e.live)
      BY <1>2, <1>4, <2>2, <2>4, InvalidateGenerationWeaker DEF g
    <3> QED
      BY <1>1, <3>1, WeakerKeeps
  <2>5. CASE cache' = Prune(cache, e)
    <3> HIDE DEF e
    <3> QED
      BY <1>1, <1>2, <2>5, PruneWeaker, WeakerKeeps
  <2>6. CASE /\ IsCurrent(cache, r, g)
             /\ cache' = FinishFullRebuild(Publish(cache, r, req[p].index, e), r, g)
    <3> HIDE DEF e
    <3> QED
      BY <2>1, <2>6, PublishRereads
  <2> QED
    BY <2>3, <2>4, <2>5, <2>6
<1>6. CASE BlockingFails(p)
  <2>1. Fail(p) /\ req[p].pc \in {"resolve", "maven", "stamp", "verify"}
    BY <1>2, <1>6 DEF BlockingFails
  <2>2. req[p].root \in Roots
    BY <1>4, <2>1 DEF CallOK, Quiet
  <2>3. \E e : cache' = FinishFailed(cache, req[p].root, req[p].generation, e)
    BY <2>1 DEF Fail, Root
  <2> QED
    BY <1>1, <1>2, <2>2, <2>3, FailKeeps
<1>7. CASE \/ Refresh(p) \/ InvalidateProject(p) \/ DiscoverFails(p)
           \/ CheckRunner(p) \/ Install(p) \/ Lookup(p) \/ Validate(p) \/ ReserveMemory(p)
  BY <1>1, <1>7, InvalidationKeeps, LookupStepsKeep, ReserveKeeps
<1>8. CASE \/ Forget(p) \/ Discover(p) \/ EnterCell(p) \/ ReadCell(p) \/ Use(p)
           \/ AcquireOwner(p) \/ Resolve(p) \/ ResolveWithMaven(p) \/ Stamp(p)
           \/ ReadFlag(p) \/ BuildScoped(p) \/ VerifyBuild(p)
           \/ Persist(p) \/ Recheck(p) \/ Unpersist(p)
  BY <1>2, <1>8 DEF Forget, Discover, EnterCell, ReadCell, Use, AcquireOwner, Resolve,
     ResolveWithMaven, Stamp, ReadFlag, BuildScoped, VerifyBuild, Persist, Recheck, Unpersist
<1> QED
  BY <1>3, <1>5, <1>6, <1>7, <1>8 DEF Advance

(* FullRebuildHonoured for any interleaving: although the flag is read in  *)
(* another mutex section than the publication, no build that reused        *)
(* records is published for a state that asks for a full rebuild           *)
(* (require_full_rebuild, requires_full_rebuild, publish).                 *)
THEOREM FullRebuildHonouredHolds == Spec => FullRebuildHonoured
<1>1. IInv /\ [Next]_vars =>
         [\A r \in Roots :
             LET new == cache'.states[r].index
             IN  new \notin {None, cache.states[r].index} /\ RequiresFullRebuild(cache, r)
                     => new.reread]_vars
  BY NextRereads
<1> QED
  BY <1>1, InvariantHolds, PTL DEF Spec, FullRebuildHonoured

-----------------------------------------------------------------------------
(* The byte budget.  Retaining stays within the limits only because every  *)
(* retained index is in the order of use, so that the eviction loops find  *)
(* it, and because what was dropped is finite and counted.                 *)

(* What an order of use keeps of the roots in it. *)
LEMMA InOrderKeeps ==
    ASSUME NEW lru \in Seq(Roots), NEW chosen
    PROVE  /\ InOrder(lru, chosen) \in Seq(Roots)
           /\ \A i \in DOMAIN lru : lru[i] \in chosen =>
                 \E j \in DOMAIN InOrder(lru, chosen) : InOrder(lru, chosen)[j] = lru[i]
<1> DEFINE N == Len(lru)
           V == Seq(Roots)
           next(q, i) == IF lru[i] \in chosen THEN Append(q, lru[i]) ELSE q
           step == [x \in V \X (1 .. N) |-> next(x[1], x[2])]
           Body(g) == [i \in 0 .. N |-> IF i = 0 THEN <<>>
                                        ELSE IF lru[i] \in chosen THEN Append(g[i - 1], lru[i])
                                        ELSE g[i - 1]]
           upto == CHOOSE g : g = Body(g)
<1>0. N \in Nat /\ DOMAIN lru = 1 .. N /\ \A i \in 1 .. N : lru[i] \in Roots
  OBVIOUS
<1>1. InOrder(lru, chosen) = upto[N]
  BY DEF InOrder
<1>2. \A q \in V, i \in 1 .. N : next(q, i) \in V
  BY <1>0
<1>3. PICK g \in [0 .. N -> V] : g[0] = <<>> /\ \A i \in 1 .. N : g[i] = step[<<g[i - 1], i>>]
  <2>1. <<>> \in V
    OBVIOUS
  <2>2. step \in [V \X (1 .. N) -> V]
    <3> HIDE DEF V, next
    <3> QED
      BY <1>2
  <2>3. IsStep(N, V, <<>>, step)
    BY <1>0, <2>1, <2>2 DEF IsStep
  <2>4. FollowsStep(N, V, <<>>, step)
    BY <2>3, PrimitiveRecursion
  <2> QED
    BY <2>4 DEF FollowsStep
<1>4. \A i \in 1 .. N : g[i] = next(g[i - 1], i)
  <2> TAKE i \in 1 .. N
  <2>1. i - 1 \in 0 .. N
    BY <1>0
  <2>2. g[i - 1] \in V /\ <<g[i - 1], i>> \in V \X (1 .. N)
    <3> HIDE DEF V, step
    <3> QED
      BY <1>3, <2>1
  <2>3. step[<<g[i - 1], i>>] = next(g[i - 1], i)
    <3> HIDE DEF next, V
    <3> QED
      BY <2>2
  <2> QED
    BY <1>3, <2>3
<1>5. g = Body(g)
  <2>1. \A i \in 0 .. N : g[i] = Body(g)[i]
    <3> TAKE i \in 0 .. N
    <3>1. CASE i = 0
      BY <1>3, <3>1
    <3>2. CASE i # 0
      <4>1. i \in 1 .. N
        BY <1>0, <3>2
      <4>2. g[i] = next(g[i - 1], i)
        BY <1>4, <4>1
      <4> QED
        BY <3>2, <4>2
    <3> QED
      BY <3>1, <3>2
  <2>2. DOMAIN g = 0 .. N /\ g = [i \in 0 .. N |-> g[i]]
    BY <1>3
  <2> QED
    BY <2>1, <2>2
<1>6. upto = Body(upto)
  BY <1>5
<1> HIDE DEF upto
<1> DEFINE Good(i) == /\ upto[i] \in V
                      /\ \A k \in 1 .. i : lru[k] \in chosen =>
                            \E j \in 1 .. Len(upto[i]) : upto[i][j] = lru[k]
           T == {i \in 0 .. N : Good(i)}
<1>7. 0 \in T
  <2>1. upto[0] = <<>>
    BY <1>0, <1>6
  <2> QED
    BY <1>0, <2>1
<1>8. ASSUME NEW n \in 0 .. (N - 1), n \in T
      PROVE  n + 1 \in T
  <2>1. upto[n + 1] = IF lru[n + 1] \in chosen THEN Append(upto[n], lru[n + 1]) ELSE upto[n]
    <3>1. n + 1 \in 0 .. N /\ n + 1 # 0 /\ (n + 1) - 1 = n
      BY <1>0
    <3>2. upto[n + 1] = Body(upto)[n + 1]
      BY <1>6
    <3> QED
      BY <3>1, <3>2
  <2>2. Good(n) /\ lru[n + 1] \in Roots /\ n + 1 \in 0 .. N
    BY <1>0, <1>8
  <2> DEFINE q == upto[n]
             x == lru[n + 1]
  <2>3. CASE x \in chosen
    <3>1. upto[n + 1] = Append(q, x)
      BY <2>1, <2>3
    <3>2. /\ Append(q, x) \in V /\ Len(Append(q, x)) = Len(q) + 1 /\ Append(q, x)[Len(q) + 1] = x
          /\ \A j \in 1 .. Len(q) : Append(q, x)[j] = q[j]
          /\ Len(q) \in Nat
      BY <2>2
    <3>3. ASSUME NEW k \in 1 .. (n + 1), lru[k] \in chosen
          PROVE  \E j \in 1 .. (Len(q) + 1) : Append(q, x)[j] = lru[k]
      <4>1. CASE k = n + 1
        <5>1. Len(q) + 1 \in 1 .. (Len(q) + 1)
          BY <3>2
        <5> QED
          BY <3>2, <4>1, <5>1
      <4>2. CASE k # n + 1
        <5>1. k \in 1 .. n
          BY <4>2
        <5>2. PICK j \in 1 .. Len(q) : q[j] = lru[k]
          BY <2>2, <3>3, <5>1
        <5>3. j \in 1 .. (Len(q) + 1) /\ Append(q, x)[j] = lru[k]
          BY <3>2, <5>2
        <5> QED
          BY <5>3
      <4> QED
        BY <4>1, <4>2
    <3> HIDE DEF q, x, V
    <3>4. Good(n + 1)
      BY <3>1, <3>2, <3>3
    <3> QED
      BY <2>2, <3>4
  <2>4. CASE x \notin chosen
    <3>1. upto[n + 1] = upto[n]
      BY <2>1, <2>4
    <3>2. \A k \in 1 .. (n + 1) : lru[k] \in chosen => k \in 1 .. n
      BY <2>4
    <3>3. Good(n + 1)
      BY <2>2, <3>1, <3>2
    <3> QED
      BY <2>2, <3>3
  <2> QED
    BY <2>3, <2>4
<1>9. Good(N)
  <2> HIDE DEF T
  <2>1. 0 .. N \subseteq T
    BY <1>0, <1>7, <1>8, IntervalInduction
  <2> QED
    BY <1>0, <2>1 DEF T
<1> QED
  BY <1>0, <1>1, <1>9

(* What the books of a cache, the order of use and the released memory,    *)
(* keep in its operations.                                                 *)
HasFields(c) == DOMAIN c = {"states", "released", "next_generation", "lru"}

Released(S) == IsFiniteSet(S) /\ \A x \in S : x.bytes \in Nat

BooksKept(c, d) ==
    /\ HasFields(c) => HasFields(d)
    /\ c.lru \in Seq(Roots) =>
          /\ d.lru \in Seq(Roots)
          /\ \A i \in DOMAIN c.lru : \E j \in DOMAIN d.lru : d.lru[j] = c.lru[i]
    /\ Released(c.released) => Released(d.released)

LEMMA BooksTransitive ==
    ASSUME NEW c, NEW d, NEW f, BooksKept(c, d), BooksKept(d, f)
    PROVE  BooksKept(c, f)
<1>1. ASSUME c.lru \in Seq(Roots), NEW i \in DOMAIN c.lru
      PROVE  \E j \in DOMAIN f.lru : f.lru[j] = c.lru[i]
  <2>1. PICK k \in DOMAIN d.lru : d.lru[k] = c.lru[i]
    BY <1>1 DEF BooksKept
  <2>2. PICK j \in DOMAIN f.lru : f.lru[j] = d.lru[k]
    BY <1>1 DEF BooksKept
  <2> QED
    BY <2>1, <2>2
<1> QED
  BY <1>1 DEF BooksKept

LEMMA BooksSame ==
    ASSUME NEW c, NEW d, HasFields(c), HasFields(d), d.lru = c.lru, d.released \subseteq c.released
    PROVE  BooksKept(c, d)
BY FS_Subset DEF BooksKept, Released

LEMMA BooksReleased ==
    ASSUME NEW c, NEW d, HasFields(c), HasFields(d), d.lru = c.lru, NEW S, Released(S),
           d.released = c.released \cup S
    PROVE  BooksKept(c, d)
BY FS_Union DEF BooksKept, Released

LEMMA TouchBooks ==
    ASSUME NEW c, HasFields(c), NEW r \in Roots
    PROVE  /\ BooksKept(c, Touch(c, r))
           /\ c.lru \in Seq(Roots) =>
                 \E j \in DOMAIN Touch(c, r).lru : Touch(c, r).lru[j] = r
<1> DEFINE q == InOrder(c.lru, Roots \ {r})
<1> SUFFICES ASSUME NEW d, d = Touch(c, r)
             PROVE  BooksKept(c, d) /\ (c.lru \in Seq(Roots) => \E j \in DOMAIN d.lru : d.lru[j] = r)
  OBVIOUS
<1>1. HasFields(d) /\ d.lru = Append(q, r) /\ d.released = c.released
  BY DEF HasFields, Touch
<1>2. ASSUME c.lru \in Seq(Roots)
      PROVE  /\ d.lru \in Seq(Roots) /\ \E j \in DOMAIN d.lru : d.lru[j] = r
             /\ \A i \in DOMAIN c.lru : \E j \in DOMAIN d.lru : d.lru[j] = c.lru[i]
  <2>1. /\ q \in Seq(Roots)
        /\ \A i \in DOMAIN c.lru : c.lru[i] \in Roots \ {r} => \E j \in DOMAIN q : q[j] = c.lru[i]
    <3> DEFINE S == Roots \ {r}
               l == c.lru
    <3>1. l \in Seq(Roots)
      BY <1>2
    <3> HIDE DEF S, l
    <3>2. /\ InOrder(l, S) \in Seq(Roots)
          /\ \A i \in DOMAIN l : l[i] \in S =>
                \E j \in DOMAIN InOrder(l, S) : InOrder(l, S)[j] = l[i]
      BY <3>1, InOrderKeeps
    <3> QED
      BY <3>2 DEF S, l
  <2> HIDE DEF q
  <2>2. /\ d.lru \in Seq(Roots) /\ Len(q) \in Nat /\ DOMAIN q = 1 .. Len(q)
        /\ DOMAIN d.lru = 1 .. (Len(q) + 1) /\ d.lru[Len(q) + 1] = r
        /\ \A j \in 1 .. Len(q) : d.lru[j] = q[j]
    BY <1>1, <2>1
  <2>3. Len(q) + 1 \in DOMAIN d.lru /\ \A j \in DOMAIN q : j \in DOMAIN d.lru
    BY <2>2
  <2>4. ASSUME NEW i \in DOMAIN c.lru
        PROVE  \E j \in DOMAIN d.lru : d.lru[j] = c.lru[i]
    <3>1. c.lru[i] \in Roots
      BY <1>2
    <3>2. CASE c.lru[i] = r
      BY <2>2, <2>3, <3>2
    <3>3. CASE c.lru[i] # r
      BY <2>1, <2>2, <2>3, <3>1, <3>3
    <3> QED
      BY <3>2, <3>3
  <2> QED
    BY <2>2, <2>3, <2>4
<1> QED
  BY <1>1, <1>2 DEF BooksKept

LEMMA PruneBooks ==
    ASSUME NEW c, HasFields(c), NEW e
    PROVE  BooksKept(c, Prune(c, e))
<1> SUFFICES ASSUME NEW d, d = Prune(c, e)
             PROVE  BooksKept(c, d)
  OBVIOUS
<1>1. HasFields(d) /\ d.lru = c.lru /\ d.released = {x \in c.released : x.obj \in e.held}
  BY DEF HasFields, Prune
<1> QED
  BY <1>1, BooksSame

LEMMA ReleaseIndexBooks ==
    ASSUME NEW c, HasFields(c), NEW r \in Roots, NEW e
    PROVE  BooksKept(c, ReleaseIndex(c, r, e))
<1> DEFINE S == {[obj |-> c.states[r].index.obj, bytes |-> IndexBytes[r]]}
           d == [c EXCEPT !.states[r].index = None, !.released = @ \union S]
<1>1. CASE c.states[r].index = None
  BY <1>1, BooksSame DEF ReleaseIndex
<1>2. CASE c.states[r].index # None
  <2>1. ReleaseIndex(c, r, e) = Prune(d, e)
    BY <1>2 DEF ReleaseIndex
  <2>2. HasFields(d) /\ d.lru = c.lru /\ d.released = c.released \cup S
    BY DEF HasFields
  <2>3. Released(S)
    <3>1. IndexBytes[r] \in Nat /\ IsFiniteSet(S)
      BY CacheAssumption, FS_Singleton
    <3> QED
      BY <3>1 DEF Released
  <2> HIDE DEF d, S
  <2> QED
    BY <2>1, <2>2, <2>3, BooksReleased, PruneBooks, BooksTransitive
<1> QED
  BY <1>1, <1>2

LEMMA ReleaseRunnerBooks ==
    ASSUME NEW c, HasFields(c), NEW r \in Roots
    PROVE  BooksKept(c, ReleaseRunner(c, r))
<1> DEFINE S == {[obj |-> c.states[r].runner.obj, bytes |-> RunnerBytes]}
           d == [c EXCEPT !.states[r].runner = None, !.released = @ \union S]
<1>1. CASE c.states[r].runner = None
  BY <1>1, BooksSame DEF ReleaseRunner
<1>2. CASE c.states[r].runner # None
  <2>1. ReleaseRunner(c, r) = d
    BY <1>2 DEF ReleaseRunner
  <2>2. HasFields(d) /\ d.lru = c.lru /\ d.released = c.released \cup S
    BY DEF HasFields
  <2>3. Released(S)
    <3>1. RunnerBytes \in Nat /\ IsFiniteSet(S)
      BY CacheAssumption, FS_Singleton
    <3> QED
      BY <3>1 DEF Released
  <2> HIDE DEF d, S
  <2> QED
    BY <2>1, <2>2, <2>3, BooksReleased
<1> QED
  BY <1>1, <1>2

LEMMA EvictBooks ==
    ASSUME NEW c, HasFields(c), NEW e, NEW victims
    PROVE  BooksKept(c, Evict(c, victims, e))
<1> DEFINE gone(kind) == {r \in Roots : \E i \in DOMAIN victims : victims[i] = <<kind, r>>}
           out == [r \in Roots |->
                     [c.states[r] EXCEPT
                         !.index = IF r \in gone("index") THEN None ELSE @,
                         !.runner = IF r \in gone("runner") THEN None ELSE @]]
           S1 == {[obj |-> c.states[r].index.obj, bytes |-> IndexBytes[r]] : r \in gone("index")}
           S2 == {[obj |-> c.states[r].runner.obj, bytes |-> RunnerBytes] : r \in gone("runner")}
           d == [c EXCEPT !.states = out, !.released = @ \union (S1 \union S2)]
<1>1. Evict(c, victims, e) = Prune(d, e)
  BY DEF Evict
<1>2. ASSUME NEW kind
      PROVE  gone(kind) \subseteq Roots /\ IsFiniteSet(gone(kind))
  BY CacheAssumption, FS_Subset
<1> HIDE DEF gone, out
<1>3. Released(S1)
  <2> DEFINE f == [r \in gone("index") |-> [obj |-> c.states[r].index.obj, bytes |-> IndexBytes[r]]]
             G == gone("index")
  <2>1. IsFiniteSet(S1)
    <3>1. S1 = {f[r] : r \in G}
      OBVIOUS
    <3>2. IsFiniteSet(G) /\ DOMAIN f = G
      BY <1>2
    <3> HIDE DEF f, G, S1
    <3> QED
      BY <3>1, <3>2, ImageBound
  <2>2. \A x \in S1 : x.bytes \in Nat
    BY <1>2, CacheAssumption
  <2> QED
    BY <2>1, <2>2 DEF Released
<1>4. Released(S2)
  <2> DEFINE f == [r \in gone("runner") |-> [obj |-> c.states[r].runner.obj, bytes |-> RunnerBytes]]
             G == gone("runner")
  <2>1. IsFiniteSet(S2)
    <3>1. S2 = {f[r] : r \in G}
      OBVIOUS
    <3>2. IsFiniteSet(G) /\ DOMAIN f = G
      BY <1>2
    <3> HIDE DEF f, G, S2
    <3> QED
      BY <3>1, <3>2, ImageBound
  <2>2. \A x \in S2 : x.bytes \in Nat
    BY CacheAssumption
  <2> QED
    BY <2>1, <2>2 DEF Released
<1> HIDE DEF S1, S2
<1>5. Released(S1 \cup S2)
  BY <1>3, <1>4, FS_Union DEF Released
<1>6. HasFields(d) /\ d.lru = c.lru /\ d.released = c.released \cup (S1 \cup S2)
  BY DEF HasFields
<1> HIDE DEF d
<1>7. BooksKept(c, d)
  BY <1>5, <1>6, BooksReleased
<1> QED
  BY <1>1, <1>6, <1>7, PruneBooks, BooksTransitive

LEMMA EvictUntilBooks ==
    ASSUME NEW c, HasFields(c), NEW e, NEW victims, NEW limit, NEW extra
    PROVE  BooksKept(c, EvictUntil(c, victims, e, limit, extra))
<1> DEFINE after(k) == Evict(c, SubSeq(victims, 1, k), e)
           enough == {k \in 0 .. Len(victims) :
                         k = Len(victims) \/ Fits(after(k), e, limit, extra)}
<1>1. EvictUntil(c, victims, e, limit, extra)
         = IF Min(enough) = 0 THEN c ELSE after(Min(enough))
  BY DEF EvictUntil
<1>2. BooksKept(c, after(Min(enough)))
  <2> HIDE DEF enough
  <2> QED
    BY EvictBooks
<1> HIDE DEF after, enough
<1> QED
  BY <1>1, <1>2, BooksSame

LEMMA RetainBooks ==
    ASSUME NEW c, HasFields(c), NEW e
    PROVE  BooksKept(c, Retain(c, e))
<1> SUFFICES ASSUME NEW d, d = Retain(c, e)
             PROVE  BooksKept(c, d)
  OBVIOUS
<1>1. HasFields(d) /\ d.lru = c.lru /\ d.released = c.released
  BY DEF HasFields, Retain
<1> QED
  BY <1>1, BooksSame

LEMMA EnforceBooks ==
    ASSUME NEW c, HasFields(c), NEW e, NEW protect
    PROVE  BooksKept(c, Enforce(c, protect, e))
<1> DEFINE c0 == Prune(c, e)
           c1 == EvictUntil(c0, IndexVictims(c0, protect), e, "indexes", 0)
           v1 == IndexVictims(c1, protect) \o RunnerVictims(c1, protect, e)
           c2 == EvictUntil(c1, v1, e, "bytes", 0)
           c3 == EvictUntil(c2, RunnerVictims(c2, protect, e), e, "runners", 0)
<1>1. Enforce(c, protect, e) = Retain(c3, e)
  BY DEF Enforce
<1>2. HasFields(c0) /\ BooksKept(c, c0)
  BY PruneBooks DEF BooksKept
<1> HIDE DEF c0
<1>3. HasFields(c1) /\ BooksKept(c0, c1)
  BY <1>2, EvictUntilBooks DEF BooksKept
<1> HIDE DEF c1, v1
<1>4. HasFields(c2) /\ BooksKept(c1, c2)
  BY <1>3, EvictUntilBooks DEF BooksKept
<1> HIDE DEF c2
<1>5. HasFields(c3) /\ BooksKept(c2, c3)
  BY <1>4, EvictUntilBooks DEF BooksKept
<1> HIDE DEF c3
<1>6. BooksKept(c3, Retain(c3, e))
  BY <1>5, RetainBooks
<1>7. BooksKept(c, c1)
  BY <1>2, <1>3, BooksTransitive
<1>8. BooksKept(c, c2)
  BY <1>7, <1>4, BooksTransitive
<1>9. BooksKept(c, c3)
  BY <1>8, <1>5, BooksTransitive
<1> QED
  BY <1>1, <1>6, <1>9, BooksTransitive

LEMMA ReserveBooks ==
    ASSUME NEW c, HasFields(c), NEW e, NEW r, NEW bytes
    PROVE  BooksKept(c, Reserve(c, r, bytes, e))
<1> DEFINE c1 == Prune(c, e)
           victims == IndexVictims(c1, None) \o RunnerVictims(c1, r, e)
<1>1. Reserve(c, r, bytes, e) = EvictUntil(c1, victims, e, "bytes", bytes)
  BY DEF Reserve
<1>2. HasFields(c1) /\ BooksKept(c, c1)
  BY PruneBooks DEF BooksKept
<1> HIDE DEF c1, victims
<1> QED
  BY <1>1, <1>2, EvictUntilBooks, BooksTransitive

LEMMA EnsureStateBooks ==
    ASSUME NEW c, HasFields(c), NEW r
    PROVE  BooksKept(c, EnsureState(c, r))
<1> SUFFICES ASSUME NEW d, d = EnsureState(c, r)
             PROVE  BooksKept(c, d)
  OBVIOUS
<1>1. HasFields(d) /\ d.lru = c.lru /\ d.released = c.released
  BY DEF HasFields, EnsureState
<1> QED
  BY <1>1, BooksSame

LEMMA InvalidateBooks ==
    ASSUME NEW c, HasFields(c), NEW r \in Roots, NEW e
    PROVE  BooksKept(c, Invalidate(c, r, e))
<1> DEFINE d == [c EXCEPT !.next_generation = @ + 1,
                          !.states[r].generation = c.next_generation + 1,
                          !.states[r].in_flight = None]
<1>1. Invalidate(c, r, e) = IF ~Present(c, r) THEN c ELSE ReleaseIndex(d, r, e)
  BY DEF Invalidate
<1>2. HasFields(d) /\ d.lru = c.lru /\ d.released = c.released
  BY DEF HasFields
<1> HIDE DEF d
<1>3. BooksKept(c, c) /\ BooksKept(c, d)
  BY <1>2, BooksSame
<1> QED
  BY <1>1, <1>2, <1>3, ReleaseIndexBooks, BooksTransitive

LEMMA InvalidationBooks ==
    ASSUME NEW c, HasFields(c), NEW r \in Roots, NEW e, NEW generation
    PROVE  /\ BooksKept(c, InvalidateAfterMaven(c, r, e))
           /\ BooksKept(c, RequireFullRebuild(c, r))
           /\ BooksKept(c, RequireFullRebuild(InvalidateAfterMaven(c, r, e), r))
           /\ BooksKept(c, InvalidateGeneration(c, r, generation, e))
           /\ BooksKept(c, DiscardProject(c, r, e))
<1> DEFINE d == Invalidate(c, r, e)
           f == InvalidateAfterMaven(c, r, e)
<1>0. BooksKept(c, d) /\ BooksKept(c, c)
  BY InvalidateBooks, BooksSame
<1>1. HasFields(d) /\ BooksKept(c, d) /\ BooksKept(c, c)
  BY <1>0 DEF BooksKept
<1>2. f = IF d.states[r].runner = None THEN d
          ELSE [d EXCEPT !.states[r].runner.revalidate = TRUE]
  BY DEF InvalidateAfterMaven
<1>3. InvalidateGeneration(c, r, generation, e) = IF IsCurrent(c, r, generation) THEN d ELSE c
  BY DEF InvalidateGeneration
<1>4. DiscardProject(c, r, e) = Enforce(ReleaseRunner(d, r), None, e)
  BY DEF DiscardProject
<1> HIDE DEF d, f
<1>5. HasFields(f) /\ f.lru = d.lru /\ f.released = d.released
  BY <1>1, <1>2 DEF HasFields
<1>6. BooksKept(c, f)
  BY <1>1, <1>5, BooksSame, BooksTransitive
<1>7. ASSUME NEW b, HasFields(b)
      PROVE  BooksKept(b, RequireFullRebuild(b, r))
  <2> DEFINE g == EnsureState(b, r)
             h == RequireFullRebuild(b, r)
  <2>1. h = [g EXCEPT !.states[r].full_rebuild = TRUE]
    BY DEF RequireFullRebuild
  <2>2. HasFields(g) /\ BooksKept(b, g)
    BY <1>7, EnsureStateBooks DEF BooksKept
  <2> HIDE DEF g, h
  <2>3. HasFields(h) /\ h.lru = g.lru /\ h.released = g.released
    BY <2>1, <2>2 DEF HasFields
  <2>4. BooksKept(g, h)
    BY <2>2, <2>3, BooksSame
  <2>5. BooksKept(b, h)
    BY <2>2, <2>4, BooksTransitive
  <2> QED
    BY <2>5 DEF h
<1>8. BooksKept(c, DiscardProject(c, r, e))
  <2> DEFINE b == ReleaseRunner(d, r)
  <2>1. HasFields(b) /\ BooksKept(d, b)
    BY <1>1, ReleaseRunnerBooks DEF BooksKept
  <2> HIDE DEF b
  <2>2. BooksKept(b, Enforce(b, None, e))
    BY <2>1, EnforceBooks
  <2>3. BooksKept(c, b)
    BY <1>1, <2>1, BooksTransitive
  <2>4. BooksKept(c, Enforce(b, None, e))
    BY <2>2, <2>3, BooksTransitive
  <2> QED
    BY <1>4, <2>4 DEF b
<1>9. BooksKept(c, RequireFullRebuild(f, r))
  BY <1>5, <1>6, <1>7, BooksTransitive
<1> QED
  BY <1>1, <1>3, <1>6, <1>7, <1>8, <1>9 DEF f

LEMMA LookupBooks ==
    ASSUME NEW c, HasFields(c), NEW r \in Roots, NEW e, NEW fingerprint, NEW fresh
    PROVE  /\ BooksKept(c, LookupRunner(c, r)) /\ BooksKept(c, RecordHit(c, r))
           /\ BooksKept(c, LookupIndex(c, r, fingerprint, fresh, e))
<1> DEFINE c0 == EnsureState(c, r)
           c1 == Touch(c0, r)
           stale == c1.states[r].index # None /\ c1.states[r].index.project # fingerprint
           c2 == IF stale THEN Invalidate(c1, r, e) ELSE c1
           hit == c2.states[r].index # None \/ Joinable(c2.states[r])
           marker == [cell |-> fresh, generation |-> c2.states[r].generation]
           d == [c2 EXCEPT !.states[r].in_flight = marker]
<1>1. LookupIndex(c, r, fingerprint, fresh, e) = IF hit THEN c2 ELSE d
  BY DEF LookupIndex, Joinable
<1>2. HasFields(c0) /\ BooksKept(c, c0)
  BY EnsureStateBooks DEF BooksKept
<1> HIDE DEF c0
<1>3. HasFields(c1) /\ BooksKept(c0, c1)
  BY <1>2, TouchBooks DEF BooksKept
<1> HIDE DEF c1
<1>4. BooksKept(c1, c1)
  BY <1>3, BooksSame
<1>5. BooksKept(c1, c2)
  BY <1>3, <1>4, InvalidateBooks
<1>6. HasFields(c2)
  BY <1>3, <1>5 DEF BooksKept
<1> HIDE DEF c2, hit, marker
<1>7. HasFields(d) /\ d.lru = c2.lru /\ d.released = c2.released
  BY <1>6 DEF HasFields
<1> HIDE DEF d
<1>8. BooksKept(c2, d)
  BY <1>6, <1>7, BooksSame
<1>9. BooksKept(c, c2)
  BY <1>2, <1>3, <1>5, BooksTransitive
<1>10. BooksKept(c, LookupIndex(c, r, fingerprint, fresh, e))
  BY <1>1, <1>8, <1>9, BooksTransitive
<1>11. BooksKept(c, Touch(c, r)) /\ BooksKept(c, c)
  BY TouchBooks, BooksSame
<1> QED
  BY <1>10, <1>11 DEF LookupRunner, RecordHit

LEMMA InstallRunnerBooks ==
    ASSUME NEW c, HasFields(c), NEW r \in Roots, NEW runner, NEW e
    PROVE  BooksKept(c, InstallRunner(c, r, runner, e))
<1> DEFINE old == c.states[r].runner
           changed == old # None /\ old.fingerprint # runner.fingerprint
           c1 == IF changed THEN Invalidate(c, r, e) ELSE c
           c2 == EnsureState(c1, r)
           c3 == Touch(c2, r)
           c4 == ReleaseRunner(c3, r)
           c5 == [c4 EXCEPT !.states[r].runner = runner]
<1>1. InstallRunner(c, r, runner, e) = Enforce(c5, r, e)
  BY DEF InstallRunner
<1>2. BooksKept(c, c1)
  BY InvalidateBooks, BooksSame
<1>3. HasFields(c1)
  BY <1>2 DEF BooksKept
<1> HIDE DEF c1
<1>4. HasFields(c2) /\ BooksKept(c1, c2)
  BY <1>3, EnsureStateBooks DEF BooksKept
<1> HIDE DEF c2
<1>5. HasFields(c3) /\ BooksKept(c2, c3)
  BY <1>4, TouchBooks DEF BooksKept
<1> HIDE DEF c3
<1>6. HasFields(c4) /\ BooksKept(c3, c4)
  BY <1>5, ReleaseRunnerBooks DEF BooksKept
<1> HIDE DEF c4
<1>7. HasFields(c5) /\ c5.lru = c4.lru /\ c5.released = c4.released
  BY <1>6 DEF HasFields
<1> HIDE DEF c5
<1>8. BooksKept(c4, c5) /\ BooksKept(c5, Enforce(c5, r, e))
  BY <1>6, <1>7, BooksSame, EnforceBooks
<1>9. BooksKept(c, c4)
  BY <1>2, <1>4, <1>5, <1>6, BooksTransitive
<1> QED
  BY <1>1, <1>8, <1>9, BooksTransitive

LEMMA FinishFailedBooks ==
    ASSUME NEW c, HasFields(c), NEW r \in Roots, NEW generation, NEW e
    PROVE  BooksKept(c, FinishFailed(c, r, generation, e))
<1> DEFINE d == [c EXCEPT !.states[r].in_flight = None]
           f == IF IsCurrent(c, r, generation) THEN d ELSE c
<1>1. FinishFailed(c, r, generation, e) = Enforce(f, None, e)
  BY DEF FinishFailed
<1>2. HasFields(d) /\ d.lru = c.lru /\ d.released = c.released
  BY DEF HasFields
<1> HIDE DEF d
<1>3. HasFields(f) /\ BooksKept(c, f)
  BY <1>2, BooksSame
<1> HIDE DEF f
<1> QED
  BY <1>1, <1>3, EnforceBooks, BooksTransitive

-----------------------------------------------------------------------------
(* Every retained index is in the order of use. *)
Listed(c) ==
    \A r \in Roots : c.states[r].index # None => \E i \in DOMAIN c.lru : c.lru[i] = r

Books(c) == c.lru \in Seq(Roots) /\ Released(c.released) /\ Listed(c)

LEMMA BooksOnward ==
    ASSUME NEW c, NEW d, Books(c), BooksKept(c, d), KeepsIndexes(c, d)
    PROVE  Books(d)
<1>1. ASSUME NEW r \in Roots, d.states[r].index # None
      PROVE  \E j \in DOMAIN d.lru : d.lru[j] = r
  <2>1. c.states[r].index # None
    BY <1>1 DEF KeepsIndexes
  <2>2. PICK i \in DOMAIN c.lru : c.lru[i] = r
    BY <2>1 DEF Books, Listed
  <2> QED
    BY <2>2 DEF Books, BooksKept
<1> QED
  BY <1>1 DEF Books, BooksKept, Listed

(* The loop over the indexes leaves no more than the limit: when it ran    *)
(* out of victims, the protected index is the only one.                    *)
LEMMA CountLowers ==
    ASSUME NEW c, NEW d, KeepsIndexes(c, d), IndexCountOK(c)
    PROVE  IndexCountOK(d)
<1> DEFINE A == {r \in Roots : c.states[r].index # None}
           B == {r \in Roots : d.states[r].index # None}
<1>1. B \subseteq A /\ IsFiniteSet(A)
  BY CacheAssumption, FS_Subset DEF KeepsIndexes
<1>2. Cardinality(B) <= Cardinality(A) /\ Cardinality(A) <= MaxIndexes
  BY <1>1, FS_Subset DEF IndexCountOK
<1>3. Cardinality(A) \in Nat /\ Cardinality(B) \in Nat /\ MaxIndexes \in Nat
  BY <1>1, FS_Subset, FS_CardinalityType, CacheAssumption
<1> HIDE DEF A, B
<1>4. Cardinality(B) <= MaxIndexes
  BY <1>2, <1>3
<1> QED
  BY <1>4 DEF B, IndexCountOK

LEMMA OneIndexOK ==
    ASSUME NEW d, NEW protect, \A r \in Roots : d.states[r].index # None => r = protect
    PROVE  IndexCountOK(d)
<1> DEFINE B == {r \in Roots : d.states[r].index # None}
<1>1. B \subseteq {protect} /\ IsFiniteSet({protect}) /\ Cardinality({protect}) = 1
  BY FS_Singleton
<1>2. Cardinality(B) <= 1 /\ Cardinality(B) \in Nat
  BY <1>1, FS_Subset, FS_CardinalityType
<1>3. MaxIndexes \in Nat \ {0}
  BY CacheAssumption
<1> HIDE DEF B
<1>4. Cardinality(B) <= MaxIndexes
  BY <1>2, <1>3
<1> QED
  BY <1>4 DEF B, IndexCountOK

LEMMA PruneIndexes ==
    ASSUME NEW c, CacheOK(c), NEW e, NEW r \in Roots
    PROVE  Prune(c, e).states[r].index = c.states[r].index
BY DEF Prune, CacheOK, StateOK

LEMMA EvictIndexes ==
    ASSUME NEW c, CacheOK(c), NEW e, NEW victims, NEW r \in Roots
    PROVE  Evict(c, victims, e).states[r].index
              = IF \E i \in DOMAIN victims : victims[i] = <<"index", r>> THEN None
                ELSE c.states[r].index
<1> DEFINE gone(kind) == {s \in Roots : \E i \in DOMAIN victims : victims[i] = <<kind, s>>}
           out == [s \in Roots |->
                     [c.states[s] EXCEPT
                         !.index = IF s \in gone("index") THEN None ELSE @,
                         !.runner = IF s \in gone("runner") THEN None ELSE @]]
           freed == {[obj |-> c.states[s].index.obj, bytes |-> IndexBytes[s]] : s \in gone("index")}
                 \union
                 {[obj |-> c.states[s].runner.obj, bytes |-> RunnerBytes] : s \in gone("runner")}
           d == [c EXCEPT !.states = out, !.released = @ \union freed]
<1>1. Evict(c, victims, e) = Prune(d, e)
  BY DEF Evict
<1> HIDE DEF freed
<1>2. /\ DOMAIN d = DOMAIN c /\ d.next_generation = c.next_generation /\ d.states = out
  BY DEF CacheOK
<1>3. ASSUME NEW s \in Roots
      PROVE  /\ StateOK(out[s]) /\ out[s].generation = c.states[s].generation
             /\ out[s].index = IF s \in gone("index") THEN None ELSE c.states[s].index
  <2> HIDE DEF gone
  <2> QED
    BY DEF CacheOK, StateOK
<1>4. DOMAIN out = Roots
  OBVIOUS
<1> HIDE DEF out, d
<1>5. CacheOK(d)
  <2> HIDE DEF gone
  <2> QED
    BY <1>2, <1>3, <1>4 DEF CacheOK
<1>6. Prune(d, e).states[r].index = d.states[r].index
  BY <1>5, PruneIndexes
<1> QED
  BY <1>1, <1>2, <1>3, <1>6

LEMMA IndexLoop ==
    ASSUME NEW c, CacheOK(c), Books(c), NEW e, NEW protect
    PROVE  IndexCountOK(EvictUntil(c, IndexVictims(c, protect), e, "indexes", 0))
<1> DEFINE chosen == {r \in Roots : c.states[r].index # None /\ r # protect}
           q == InOrder(c.lru, chosen)
           v == IndexVictims(c, protect)
           after(k) == Evict(c, SubSeq(v, 1, k), e)
           enough == {k \in 0 .. Len(v) : k = Len(v) \/ Fits(after(k), e, "indexes", 0)}
           m == Min(enough)
           n == Len(v)
<1>1. EvictUntil(c, v, e, "indexes", 0) = IF m = 0 THEN c ELSE after(m)
  BY DEF EvictUntil
<1>2. /\ q \in Seq(Roots)
      /\ \A r \in chosen : \E j \in DOMAIN q : q[j] = r
  <2> DEFINE S == chosen
  <2> HIDE DEF S
  <2>1. /\ InOrder(c.lru, S) \in Seq(Roots)
        /\ \A i \in DOMAIN c.lru : c.lru[i] \in S =>
              \E j \in DOMAIN InOrder(c.lru, S) : InOrder(c.lru, S)[j] = c.lru[i]
    BY InOrderKeeps DEF Books
  <2>2. \A r \in chosen : \E i \in DOMAIN c.lru : c.lru[i] = r
    BY DEF Books, Listed
  <2> QED
    BY <2>1, <2>2 DEF S
<1>3. v = [i \in DOMAIN q |-> <<"index", q[i]>>]
  BY DEF IndexVictims
<1> HIDE DEF q, v
<1>4. /\ v \in Seq({"index"} \X Roots) /\ n \in Nat /\ DOMAIN v = 1 .. n
      /\ \A r \in chosen : \E j \in 1 .. n : v[j] = <<"index", r>>
  <2>1. Len(q) \in Nat /\ DOMAIN q = 1 .. Len(q) /\ \A j \in 1 .. Len(q) : q[j] \in Roots
    BY <1>2
  <2>2. DOMAIN v = 1 .. Len(q) /\ \A j \in 1 .. Len(q) : v[j] = <<"index", q[j]>>
    BY <1>3, <2>1
  <2>3. v \in Seq({"index"} \X Roots) /\ n = Len(q)
    BY <1>3, <2>1
  <2> QED
    BY <1>2, <2>1, <2>2, <2>3
<1>5. ASSUME NEW d, \A r \in Roots : d.states[r].index =
                       IF \E i \in 1 .. n : v[i] = <<"index", r>> THEN None
                       ELSE c.states[r].index
      PROVE  IndexCountOK(d)
  <2>1. \A r \in Roots : d.states[r].index # None => r = protect
    BY <1>4, <1>5
  <2> QED
    BY <2>1, OneIndexOK
<1>6. m \in enough
  <2>1. n \in enough /\ enough \subseteq Nat
    BY <1>4
  <2> HIDE DEF enough
  <2> QED
    BY <2>1, MinIs
<1>7. m \in 0 .. n /\ (m = n \/ IndexCountOK(after(m)))
  <2> HIDE DEF after, m
  <2> QED
    BY <1>6 DEF Fits
<1> HIDE DEF enough, m
<1>8. ASSUME NEW r \in Roots
      PROVE  after(m).states[r].index = IF \E i \in 1 .. m : v[i] = <<"index", r>> THEN None
                                        ELSE c.states[r].index
  <2> DEFINE w == SubSeq(v, 1, m)
  <2>1. DOMAIN w = 1 .. m /\ \A i \in 1 .. m : w[i] = v[i]
    <3>1. m \in 0 .. n
      BY <1>7
    <3>2. Len(w) = m /\ DOMAIN w = 1 .. Len(w) /\ \A i \in 1 .. m : w[i] = v[i]
      BY <1>4, <3>1
    <3> QED
      BY <3>2
  <2> HIDE DEF w
  <2>2. Evict(c, w, e).states[r].index
          = IF \E i \in DOMAIN w : w[i] = <<"index", r>> THEN None ELSE c.states[r].index
    BY EvictIndexes
  <2> QED
    BY <2>1, <2>2 DEF w
<1> DEFINE a == after(m)
<1> HIDE DEF a, after
<1>9. IndexCountOK(a)
  <2>1. CASE m = n
    BY <1>5, <1>8, <2>1 DEF a
  <2> QED
    BY <1>7, <2>1 DEF a
<1>10. m = 0 => KeepsIndexes(a, c)
  BY <1>8 DEF KeepsIndexes, a
<1> QED
  BY <1>1, <1>9, <1>10, CountLowers DEF a, v

(* What enforce leaves of a cache respects the limit of the indexes. *)
LEMMA EnforceCount ==
    ASSUME NEW c, CacheOK(c), Books(c), NEW e, NEW protect
    PROVE  IndexCountOK(Enforce(c, protect, e))
<1> DEFINE c0 == Prune(c, e)
           c1 == EvictUntil(c0, IndexVictims(c0, protect), e, "indexes", 0)
           v1 == IndexVictims(c1, protect) \o RunnerVictims(c1, protect, e)
           c2 == EvictUntil(c1, v1, e, "bytes", 0)
           c3 == EvictUntil(c2, RunnerVictims(c2, protect, e), e, "runners", 0)
<1>1. Enforce(c, protect, e) = Retain(c3, e)
  BY DEF Enforce
<1>2. HasFields(c)
  BY DEF CacheOK, HasFields
<1>3. CacheOK(c0) /\ KeepsIndexes(c, c0) /\ BooksKept(c, c0)
  <2>1. Weaker(c, c0, e.live)
    BY PruneWeaker
  <2> HIDE DEF c0
  <2>2. CacheOK(c0) /\ KeepsIndexes(c, c0)
    BY <2>1, WeakerKeeps DEF Weaker
  <2> QED
    BY <1>2, <2>2, PruneBooks DEF c0
<1> HIDE DEF c0
<1>4. Books(c0)
  BY <1>3, BooksOnward
<1>5. IndexCountOK(c1)
  BY <1>3, <1>4, IndexLoop
<1>6. CacheOK(c1)
  BY <1>3, EvictUntilWeaker DEF Weaker
<1> HIDE DEF c1, v1
<1>7. Weaker(c1, c2, e.live) /\ CacheOK(c2)
  BY <1>6, EvictUntilWeaker DEF Weaker
<1> HIDE DEF c2
<1>8. Weaker(c2, c3, e.live) /\ CacheOK(c3)
  BY <1>7, EvictUntilWeaker DEF Weaker
<1> HIDE DEF c3
<1>9. Weaker(c3, Retain(c3, e), e.live)
  BY <1>8, RetainWeaker
<1>10. Weaker(c1, Retain(c3, e), e.live)
  BY <1>6, <1>7, <1>8, <1>9, WeakerTransitive
<1>11. KeepsIndexes(c1, Retain(c3, e))
  BY <1>10, WeakerKeeps
<1> QED
  BY <1>1, <1>5, <1>11, CountLowers

(* publish: the books are kept, and an index that is retained leaves the   *)
(* cache within its limits.                                                *)
Unmarked(c, r, e) == [Prune(c, e) EXCEPT !.states[r].in_flight = None]
WithIndex(c, r, index, e) == [Unmarked(c, r, e) EXCEPT !.states[r].index = index]

LEMMA UnmarkedIs ==
    ASSUME NEW c, CacheOK(c), NEW r \in Roots, NEW e, NEW d, d = Unmarked(c, r, e)
    PROVE  /\ CacheOK(d) /\ d.lru = c.lru /\ d.released \subseteq c.released
           /\ \A s \in Roots : d.states[s].index = c.states[s].index
<1> DEFINE b == Prune(c, e)
           t == [b.states[r] EXCEPT !.in_flight = None]
<1>1. CacheOK(b) /\ b.lru = c.lru /\ b.released \subseteq c.released
  <2>1. CacheOK(b)
    BY PruneWeaker DEF Weaker
  <2> QED
    BY <2>1 DEF Prune, CacheOK
<1>2. \A s \in Roots : b.states[s].index = c.states[s].index
  BY PruneIndexes
<1> HIDE DEF b
<1>3. /\ DOMAIN d = DOMAIN b /\ d.next_generation = b.next_generation
      /\ d.states = [b.states EXCEPT ![r] = t]
      /\ d.lru = b.lru /\ d.released = b.released
  BY <1>1 DEF Unmarked, CacheOK, b
<1>4. StateOK(t) /\ t.generation = b.states[r].generation /\ t.index = b.states[r].index
  BY <1>1 DEF CacheOK, StateOK
<1> HIDE DEF t
<1>5. CacheOK(d)
  BY <1>1, <1>3, <1>4, StateKept
<1>6. \A s \in Roots : d.states[s].index = b.states[s].index
  BY <1>1, <1>3, <1>4 DEF CacheOK
<1> QED
  BY <1>1, <1>2, <1>3, <1>5, <1>6

LEMMA WithIndexIs ==
    ASSUME NEW c, CacheOK(c), NEW r \in Roots, NEW index, NEW e, NEW d,
           d = WithIndex(c, r, index, e)
    PROVE  /\ CacheOK(d) /\ d.lru = c.lru /\ d.released \subseteq c.released
           /\ \A s \in Roots : d.states[s].index = IF s = r THEN index ELSE c.states[s].index
<1> DEFINE b == Unmarked(c, r, e)
           t == [b.states[r] EXCEPT !.index = index]
<1>1. /\ CacheOK(b) /\ b.lru = c.lru /\ b.released \subseteq c.released
      /\ \A s \in Roots : b.states[s].index = c.states[s].index
  BY UnmarkedIs
<1>2. d = [b EXCEPT !.states[r].index = index]
  BY DEF WithIndex
<1> HIDE DEF b
<1>3. /\ DOMAIN d = DOMAIN b /\ d.next_generation = b.next_generation
      /\ d.states = [b.states EXCEPT ![r] = t]
      /\ d.lru = b.lru /\ d.released = b.released
  BY <1>1, <1>2 DEF CacheOK
<1>4. StateOK(t) /\ t.generation = b.states[r].generation /\ t.index = index
  BY <1>1 DEF CacheOK, StateOK
<1> HIDE DEF t
<1>5. CacheOK(d)
  BY <1>1, <1>3, <1>4, StateKept
<1>6. \A s \in Roots : d.states[s].index = IF s = r THEN index ELSE b.states[s].index
  BY <1>1, <1>3, <1>4 DEF CacheOK
<1> QED
  BY <1>1, <1>3, <1>5, <1>6

LEMMA TouchedBooks ==
    ASSUME NEW c, CacheOK(c), Books(c), NEW r \in Roots, NEW index, NEW e, NEW d,
           d = Touch(WithIndex(c, r, index, e), r)
    PROVE  /\ CacheOK(d) /\ Books(d) /\ BooksKept(c, d)
           /\ \A s \in Roots : d.states[s].index = IF s = r THEN index ELSE c.states[s].index
<1> DEFINE b == WithIndex(c, r, index, e)
<1>1. /\ CacheOK(b) /\ b.lru = c.lru /\ b.released \subseteq c.released
      /\ \A s \in Roots : b.states[s].index = IF s = r THEN index ELSE c.states[s].index
  BY WithIndexIs
<1> HIDE DEF b
<1>2. CacheOK(d) /\ d.states = b.states
  BY <1>1, TouchWeaker DEF Weaker, b
<1>3. HasFields(b) /\ HasFields(c) /\ c.lru \in Seq(Roots)
  BY <1>1 DEF CacheOK, HasFields, Books
<1>4. BooksKept(b, d) /\ \E j \in DOMAIN d.lru : d.lru[j] = r
  BY <1>1, <1>3, TouchBooks DEF b
<1>5. BooksKept(c, b)
  BY <1>1, <1>3, BooksSame
<1>6. BooksKept(c, d)
  BY <1>4, <1>5, BooksTransitive
<1>7. ASSUME NEW s \in Roots, d.states[s].index # None
      PROVE  \E j \in DOMAIN d.lru : d.lru[j] = s
  <2>1. CASE s = r
    BY <1>4, <2>1
  <2>2. CASE s # r
    <3>1. c.states[s].index # None
      BY <1>1, <1>2, <1>7, <2>2
    <3>2. PICK i \in DOMAIN c.lru : c.lru[i] = s
      BY <3>1 DEF Books, Listed
    <3> QED
      BY <1>3, <1>6, <3>2 DEF BooksKept
  <2> QED
    BY <2>1, <2>2
<1>8. Books(d)
  BY <1>6, <1>7 DEF Books, BooksKept, Listed
<1> QED
  BY <1>1, <1>2, <1>6, <1>8

(* Only what is counted decides on the bytes. *)
LEMMA SameBytes ==
    ASSUME NEW c, NEW d, NEW e, d.released = c.released,
           \A r \in Roots : d.states[r].runner = c.states[r].runner
                            /\ d.states[r].index = c.states[r].index
    PROVE  RetainedBytes(d, e) = RetainedBytes(c, e)
BY DEF RetainedBytes

LEMMA FinishedIs ==
    ASSUME NEW c, CacheOK(c), NEW r \in Roots, NEW generation, NEW d,
           d = FinishFullRebuild(c, r, generation)
    PROVE  /\ HasFields(d) /\ d.lru = c.lru /\ d.released = c.released
           /\ \A s \in Roots : d.states[s].runner = c.states[s].runner
                               /\ d.states[s].index = c.states[s].index
<1>1. CASE ~IsCurrent(c, r, generation)
  BY <1>1 DEF FinishFullRebuild, CacheOK, HasFields
<1>2. CASE IsCurrent(c, r, generation)
  <2> DEFINE t == [c.states[r] EXCEPT !.full_rebuild = FALSE]
  <2>1. /\ DOMAIN d = DOMAIN c /\ d.lru = c.lru /\ d.released = c.released
        /\ d.states = [c.states EXCEPT ![r] = t]
    BY <1>2 DEF CacheOK, FinishFullRebuild
  <2>2. t.runner = c.states[r].runner /\ t.index = c.states[r].index
    BY DEF CacheOK, StateOK
  <2> HIDE DEF t
  <2> QED
    BY <2>1, <2>2 DEF CacheOK, HasFields
<1> QED
  BY <1>1, <1>2

LEMMA PublishLimits ==
    ASSUME NEW c, CacheOK(c), Books(c), NEW r \in Roots, NEW index, NEW e, NEW generation,
           NEW f, f = FinishFullRebuild(Publish(c, r, index, e), r, generation)
    PROVE  /\ Books(f)
           /\ \A s \in Roots : f.states[s].index \notin {None, c.states[s].index} =>
                 IndexCountOK(f) /\ RetainedBytes(f, e) + 0 <= MaxBytes
<1> DEFINE p == Publish(c, r, index, e)
           b == Unmarked(c, r, e)
           S == {[obj |-> index.obj, bytes |-> IndexBytes[r]]}
           c4 == [b EXCEPT !.released = @ \union S]
           ct == Touch(WithIndex(c, r, index, e), r)
           c3 == Enforce(ct, r, e)
           cr == ReleaseIndex(c3, r, e)
<1>1. p = IF IndexBytes[r] > MaxBytes THEN c4 ELSE IF WithinBytes(c3, e, 0) THEN c3 ELSE cr
  BY DEF Publish, Unmarked, WithIndex
<1>2. HasFields(c)
  BY DEF CacheOK, HasFields
<1>3. /\ CacheOK(c4) /\ Books(c4) /\ \A s \in Roots : c4.states[s].index = c.states[s].index
  <2>1. /\ CacheOK(b) /\ b.lru = c.lru /\ b.released \subseteq c.released
        /\ \A s \in Roots : b.states[s].index = c.states[s].index
    BY UnmarkedIs
  <2>2. Released(S)
    <3>1. IndexBytes[r] \in Nat /\ IsFiniteSet(S)
      BY CacheAssumption, FS_Singleton
    <3> QED
      BY <3>1 DEF Released
  <2> HIDE DEF b, S
  <2>3. /\ CacheOK(c4) /\ HasFields(c4) /\ HasFields(b)
        /\ c4.lru = b.lru /\ c4.released = b.released \cup S /\ c4.states = b.states
    BY <2>1 DEF CacheOK, HasFields
  <2> HIDE DEF c4
  <2>4. BooksKept(c, b) /\ BooksKept(b, c4)
    BY <1>2, <2>1, <2>2, <2>3, BooksSame, BooksReleased
  <2>5. BooksKept(c, c4) /\ KeepsIndexes(c, c4)
    BY <2>1, <2>3, <2>4, BooksTransitive DEF KeepsIndexes
  <2> QED
    BY <2>1, <2>3, <2>5, BooksOnward
<1>4. /\ CacheOK(ct) /\ Books(ct)
      /\ \A s \in Roots : ct.states[s].index = IF s = r THEN index ELSE c.states[s].index
  BY TouchedBooks
<1> HIDE DEF c4, ct
<1>5. CacheOK(c3) /\ Books(c3) /\ IndexCountOK(c3) /\ KeepsIndexes(ct, c3)
  <2>1. HasFields(ct)
    BY <1>4 DEF CacheOK, HasFields
  <2>2. Weaker(ct, c3, e.live) /\ BooksKept(ct, c3) /\ IndexCountOK(c3)
    BY <1>4, <2>1, EnforceWeaker, EnforceBooks, EnforceCount
  <2> HIDE DEF c3
  <2>3. CacheOK(c3) /\ KeepsIndexes(ct, c3)
    BY <2>2, WeakerKeeps DEF Weaker
  <2> QED
    BY <1>4, <2>2, <2>3, BooksOnward
<1> HIDE DEF c3
<1>6. CacheOK(cr) /\ Books(cr) /\ KeepsIndexes(c3, cr) /\ cr.states[r].index = None
  <2>1. HasFields(c3)
    BY <1>5 DEF CacheOK, HasFields
  <2>2. Weaker(c3, cr, e.live) /\ BooksKept(c3, cr) /\ cr.states[r].index = None
    BY <1>5, <2>1, ReleaseIndexWeaker, ReleaseIndexBooks
  <2> HIDE DEF cr
  <2>3. CacheOK(cr) /\ KeepsIndexes(c3, cr)
    BY <2>2, WeakerKeeps DEF Weaker
  <2> QED
    BY <1>5, <2>2, <2>3, BooksOnward
<1> HIDE DEF cr, p
<1>7. CacheOK(p) /\ Books(p)
  BY <1>1, <1>3, <1>5, <1>6
<1>8. /\ HasFields(f) /\ f.lru = p.lru /\ f.released = p.released
      /\ \A s \in Roots : f.states[s].runner = p.states[s].runner
                          /\ f.states[s].index = p.states[s].index
  BY <1>7, FinishedIs DEF p
<1>9. KeepsIndexes(p, f) /\ HasFields(p)
  BY <1>7, <1>8 DEF KeepsIndexes, CacheOK, HasFields
<1>10. Books(f)
  BY <1>7, <1>8, <1>9, BooksSame, BooksOnward
<1>11. ASSUME NEW s \in Roots, f.states[s].index \notin {None, c.states[s].index}
       PROVE  IndexCountOK(f) /\ RetainedBytes(f, e) + 0 <= MaxBytes
  <2>1. p.states[s].index \notin {None, c.states[s].index}
    BY <1>8, <1>11
  <2>2. ~(IndexBytes[r] > MaxBytes)
    BY <1>1, <1>3, <2>1
  <2>3. p # cr
    BY <1>4, <1>5, <1>6, <2>1 DEF KeepsIndexes
  <2>4. p = c3 /\ WithinBytes(c3, e, 0)
    BY <1>1, <2>2, <2>3
  <2>5. IndexCountOK(f)
    BY <1>5, <1>9, <2>4, CountLowers
  <2>6. RetainedBytes(f, e) = RetainedBytes(p, e)
    BY <1>8, SameBytes
  <2> QED
    BY <2>4, <2>5, <2>6 DEF WithinBytes
<1> QED
  BY <1>10, <1>11

(* A sum over more elements is no less. *)
LEMMA SumGrows ==
    ASSUME NEW S, IsFiniteSet(S), NEW f, \A x \in S : f[x] \in Nat, NEW Q, Q \subseteq S,
           NEW k, \A x \in Q : k[x] = f[x]
    PROVE  /\ SumFunctionOnSet(k, Q) \in Nat /\ SumFunctionOnSet(f, S) \in Nat
           /\ SumFunctionOnSet(k, Q) <= SumFunctionOnSet(f, S)
<1> DEFINE R == S \ Q
           T == {s \in SUBSET R : SumFunctionOnSet(f, Q) <= SumFunctionOnSet(f, Q \cup s)}
<1>1. IsFiniteSet(Q) /\ IsFiniteSet(R) /\ Q \cup R = S
  BY FS_Subset
<1>2. SumFunctionOnSet(f, Q) \in Nat /\ SumFunctionOnSet(f, S) \in Nat
  <2>1. \A x \in Q : f[x] \in Nat
    OBVIOUS
  <2> QED
    BY <1>1, <2>1, SumIsNat
<1>3. SumFunctionOnSet(k, Q) = SumFunctionOnSet(f, Q)
  <2>1. \A x \in Q : f[x] \in Nat
    OBVIOUS
  <2> QED
    BY <1>1, <2>1, SumAgrees
<1>4. {} \in T
  <2>1. Q \cup {} = Q
    OBVIOUS
  <2>2. SumFunctionOnSet(f, Q) <= SumFunctionOnSet(f, Q \cup {})
    BY <1>2, <2>1
  <2> QED
    BY <2>2
<1>5. ASSUME NEW s \in SUBSET R, NEW x \in R \ s, s \in T
      PROVE  s \cup {x} \in T
  <2> DEFINE A == Q \cup s
  <2>1. IsFiniteSet(A) /\ x \notin A /\ f[x] \in Nat /\ \A y \in A : f[y] \in Nat
    BY <1>1, FS_Subset, FS_Union
  <2>2. Q \cup (s \cup {x}) = A \cup {x} /\ s \cup {x} \in SUBSET R
    OBVIOUS
  <2>3. SumFunctionOnSet(f, Q) <= SumFunctionOnSet(f, A)
    BY <1>5
  <2> HIDE DEF A
  <2>4. SumFunctionOnSet(f, A \cup {x}) = f[x] + SumFunctionOnSet(f, A)
    BY <2>1, SumAdds
  <2>5. SumFunctionOnSet(f, A) \in Nat
    BY <2>1, SumIsNat
  <2>6. SumFunctionOnSet(f, Q) <= SumFunctionOnSet(f, A \cup {x})
    BY <1>2, <2>1, <2>3, <2>4, <2>5
  <2> QED
    BY <2>2, <2>6
<1>6. R \in T
  <2> HIDE DEF T, R
  <2>1. T \subseteq SUBSET R
    BY DEF T
  <2>2. SUBSET R \subseteq T
    BY <1>1, <1>4, <1>5, <2>1, FiniteInduction
  <2> QED
    BY <2>2
<1>7. SumFunctionOnSet(f, Q) <= SumFunctionOnSet(f, S)
  BY <1>1, <1>6
<1> QED
  BY <1>2, <1>3, <1>7

(* What other calls and jobs hold decides on the bytes only through what   *)
(* they keep alive and what they reserve.                                  *)
LEMMA BytesBeside ==
    ASSUME NEW c, Released(c.released), NEW d, NEW e, d.held = e.held,
           d.reserved \in Nat, e.reserved \in Nat, NEW n \in Nat,
           d.reserved <= e.reserved + n, RetainedBytes(c, e) + n <= MaxBytes
    PROVE  RetainedBytes(c, d) <= MaxBytes
<1> DEFINE kept == [r \in Roots |-> (IF c.states[r].runner = None THEN 0 ELSE RunnerBytes)
                               + (IF c.states[r].index = None THEN 0 ELSE IndexBytes[r])]
           freed == [x \in c.released |-> IF x.obj \in e.held THEN x.bytes ELSE 0]
<1>1. /\ RetainedBytes(c, e) = SumFunction(kept) + SumFunction(freed) + e.reserved
      /\ RetainedBytes(c, d) = SumFunction(kept) + SumFunction(freed) + d.reserved
  BY DEF RetainedBytes
<1>2. SumFunction(kept) \in Nat
  <2>1. \A r \in Roots : kept[r] \in Nat
    BY CacheAssumption
  <2>2. DOMAIN kept = Roots
    OBVIOUS
  <2> HIDE DEF kept
  <2> QED
    BY <2>1, <2>2, SumIsNat, CacheAssumption DEF SumFunction
<1>3. SumFunction(freed) \in Nat
  <2>1. (\A x \in c.released : freed[x] \in Nat) /\ IsFiniteSet(c.released)
    BY DEF Released
  <2>2. DOMAIN freed = c.released
    OBVIOUS
  <2> HIDE DEF freed
  <2> QED
    BY <2>1, <2>2, SumIsNat DEF SumFunction
<1> HIDE DEF kept, freed
<1>4. MaxBytes \in Nat
  BY CacheAssumption
<1> QED
  BY <1>1, <1>2, <1>3, <1>4

-----------------------------------------------------------------------------
(* What abandoned jobs still reserve are bytes. *)
JobsReserve(jobs) == \A p \in Reqs : jobs[p] # None => jobs[p].reserved \in Nat

(* The call p changes only its pc, which holds a reservation afterwards    *)
(* only if `n` bytes are left for it.                                      *)
LEMMA StepReserves ==
    ASSUME TypeOK, JobsReserve(orphan), NEW p \in Reqs, UNCHANGED <<cells, orphan>>,
           NEW pc, req' = [req EXCEPT ![p].pc = pc], req[p].root \in Roots,
           NEW n \in Nat, pc \in Reserving => n = ReserveBytes[req[p].root]
    PROVE  /\ EnvOf(None)'.held = EnvOf(p).held
           /\ EnvOf(None)'.reserved \in Nat /\ EnvOf(p).reserved \in Nat
           /\ EnvOf(None)'.reserved <= EnvOf(p).reserved + n
<1> DEFINE A == {q \in Reqs \ {p} : req[q].pc \in Reserving}
           B == {q \in Reqs \ {None} : req'[q].pc \in Reserving}
           J == {q \in Reqs : orphan[q] # None}
           f == [q \in A |-> ReserveBytes[req[q].root]]
           k == [q \in B |-> ReserveBytes[req'[q].root]]
           left == [q \in J |-> orphan[q].reserved]
<1>1. DOMAIN req = Reqs /\ \A q \in Reqs : CallOK(req[q])
  BY DEF TypeOK
<1>2. /\ DOMAIN req' = Reqs
      /\ \A q \in Reqs : /\ \A x \in Fields \ {"pc"} : req'[q][x] = req[q][x]
                         /\ req'[q].pc = IF q = p THEN pc ELSE req[q].pc
  BY <1>1 DEF CallOK
<1>3. \A q \in Reqs : /\ req'[q].root = req[q].root /\ req'[q].cell = req[q].cell
                      /\ req'[q].snapshot = req[q].snapshot /\ req'[q].index = req[q].index
  BY <1>2 DEF Fields
<1>4. EnvOf(None)'.held = EnvOf(p).held
  <2>1. Held' = Held
    <3>1. LiveCells' = LiveCells
      BY <1>3 DEF LiveCells
    <3>2. \A q \in Reqs : CallHolds(req'[q]) = CallHolds(req[q])
      BY <1>3 DEF CallHolds
    <3>3. {CallHolds(req'[q]) : q \in Reqs} = {CallHolds(req[q]) : q \in Reqs}
      BY <3>2
    <3> QED
      BY <3>1, <3>3 DEF Held
  <2> QED
    BY <2>1 DEF EnvOf
<1>5. /\ EnvOf(p).reserved = SumFunction(f) + SumFunction(left)
      /\ EnvOf(None)'.reserved = SumFunction(k) + SumFunction(left)
  BY DEF EnvOf, Root
<1>6. IsFiniteSet(A) /\ IsFiniteSet(B) /\ IsFiniteSet(J)
  BY ServiceAssumption, FS_Subset
<1>7. SumFunction(left) \in Nat
  <2>1. (\A q \in J : left[q] \in Nat) /\ DOMAIN left = J
    BY DEF JobsReserve
  <2> HIDE DEF left, J
  <2> QED
    BY <1>6, <2>1, SumIsNat DEF SumFunction
<1>8. \A q \in A : f[q] \in Nat
  <2>1. \A q \in A : req[q].root \in Roots
    BY <1>1 DEF CallOK, Reserving, Quiet
  <2> QED
    BY <2>1, ServiceAssumption
<1>9. \A q \in B \cap A : k[q] = f[q]
  BY <1>3
<1>10. DOMAIN f = A /\ DOMAIN k = B
  OBVIOUS
<1>11. SumFunction(f) \in Nat /\ SumFunction(k) \in Nat /\ SumFunction(k) <= SumFunction(f) + n
  <2>1. CASE pc \notin Reserving
    <3>1. B \subseteq A
      BY <1>2, <2>1
    <3>2. \A q \in B : k[q] = f[q]
      BY <1>9, <3>1
    <3> HIDE DEF A, B, f, k
    <3>3. /\ SumFunctionOnSet(k, B) \in Nat /\ SumFunctionOnSet(f, A) \in Nat
          /\ SumFunctionOnSet(k, B) <= SumFunctionOnSet(f, A)
      BY <1>6, <1>8, <3>1, <3>2, SumGrows
    <3> QED
      BY <1>10, <3>3 DEF SumFunction
  <2>2. CASE pc \in Reserving
    <3> DEFINE S == A \cup {p}
               h == [q \in S |-> ReserveBytes[req[q].root]]
    <3>1. B \subseteq S /\ p \notin A /\ IsFiniteSet(S)
      BY <1>2, <1>6, FS_AddElement
    <3>2. (\A q \in S : h[q] \in Nat) /\ h[p] = n
      BY <1>8, <2>2, ServiceAssumption
    <3>3. (\A q \in B : k[q] = h[q]) /\ \A q \in A : f[q] = h[q]
      BY <1>3, <3>1
    <3>4. A \subseteq S
      OBVIOUS
    <3>5. \A q \in A : h[q] \in Nat
      BY <3>2
    <3> HIDE DEF A, B, f, k, h
    <3>6. SumFunctionOnSet(h, S) = n + SumFunctionOnSet(h, A)
      BY <1>6, <3>1, <3>2, <3>5, SumAdds
    <3> HIDE DEF S
    <3>7. /\ SumFunctionOnSet(k, B) \in Nat
          /\ SumFunctionOnSet(k, B) <= SumFunctionOnSet(h, S)
      BY <3>1, <3>2, <3>3, SumGrows
    <3>8. SumFunctionOnSet(f, A) = SumFunctionOnSet(h, A) /\ SumFunctionOnSet(h, A) \in Nat
      BY <1>6, <3>3, <3>5, SumAgrees, SumIsNat
    <3> QED
      BY <1>10, <3>6, <3>7, <3>8 DEF SumFunction
  <2> QED
    BY <2>1, <2>2
<1> HIDE DEF f, k, left
<1> QED
  BY <1>4, <1>5, <1>7, <1>11

-----------------------------------------------------------------------------
(* The inductive invariant of the budget, next to IInv. *)
BudgetInv == Books(cache) /\ JobsReserve(orphan)

LEMMA InitBudget ==
    ASSUME Init
    PROVE  BudgetInv
<1>1. cache = EmptyCache /\ orphan = [p \in Reqs |-> None]
  BY DEF Init
<1>2. /\ EmptyCache.lru = <<>> /\ EmptyCache.released = {}
      /\ \A r \in Roots : EmptyCache.states[r].index = None
  BY DEF EmptyCache, Absent, NewState
<1>3. <<>> \in Seq(Roots)
  OBVIOUS
<1>4. Books(cache)
  BY <1>1, <1>2, <1>3, FS_EmptySet DEF Books, Released, Listed
<1> QED
  BY <1>1, <1>4 DEF BudgetInv, JobsReserve

LEMMA JobsStep ==
    ASSUME TypeOK, JobsReserve(orphan), [Next]_vars
    PROVE  JobsReserve(orphan')
<1>1. CASE orphan' = orphan
  BY <1>1 DEF JobsReserve
<1>2. ASSUME NEW p \in Reqs, OrphanEnds(p)
      PROVE  JobsReserve(orphan')
  BY <1>2 DEF OrphanEnds, JobsReserve, TypeOK
<1>3. ASSUME NEW p \in Reqs, Cancel(p), orphan' # orphan
      PROVE  JobsReserve(orphan')
  <2>1. req[p].pc \in Jobs /\ orphan' = [orphan EXCEPT ![p] = Job(p)]
    BY <1>3 DEF Cancel
  <2>2. Job(p).reserved \in Nat
    <3>1. Job(p).reserved = IF req[p].pc \in Building THEN ReserveBytes[req[p].root] ELSE 0
      BY DEF Job
    <3>2. req[p].root \in Roots
      BY <2>1 DEF TypeOK, CallOK, Jobs, Quiet
    <3> QED
      BY <3>1, <3>2, ServiceAssumption
  <2> QED
    BY <2>1, <2>2 DEF JobsReserve, TypeOK
<1>4. ASSUME NEW p \in Reqs, Start(p) \/ Advance(p)
      PROVE  orphan' = orphan
  <2>1. CASE \/ Start(p) \/ Refresh(p) \/ InvalidateProject(p) \/ Forget(p)
             \/ CheckRunner(p) \/ Discover(p) \/ DiscoverFails(p) \/ Install(p)
             \/ Lookup(p) \/ Validate(p) \/ EnterCell(p) \/ ReadCell(p) \/ Use(p)
    BY <2>1 DEF Start, Refresh, InvalidateProject, Forget, CheckRunner, Discover, DiscoverFails,
       Install, Lookup, Validate, EnterCell, ReadCell, Use
  <2>2. CASE \/ AcquireOwner(p) \/ Resolve(p) \/ ResolveWithMaven(p) \/ Stamp(p)
             \/ ReserveMemory(p) \/ ReadFlag(p) \/ BuildScoped(p) \/ VerifyBuild(p)
             \/ PublishBuild(p) \/ Persist(p) \/ Recheck(p) \/ Unpersist(p) \/ BlockingFails(p)
    BY <2>2 DEF AcquireOwner, Resolve, ResolveWithMaven, Stamp, ReserveMemory, ReadFlag,
       BuildScoped, VerifyBuild, PublishBuild, Persist, Recheck, Unpersist, BlockingFails, Fail
  <2> QED
    BY <1>4, <2>1, <2>2 DEF Advance
<1>5. ASSUME NEW r \in Roots, EditPom(r) \/ EditArtifacts(r)
      PROVE  orphan' = orphan
  BY <1>5 DEF EditPom, EditArtifacts
<1>6. UNCHANGED vars => orphan' = orphan
  BY DEF vars
<1> QED
  BY <1>1, <1>2, <1>3, <1>4, <1>5, <1>6 DEF Next

(* The steps of the index requests keep the books.  *)
LEMMA InvalidationStepBooks ==
    ASSUME IInv, Books(cache), NEW p \in Reqs,
           Refresh(p) \/ InvalidateProject(p) \/ DiscoverFails(p)
    PROVE  Books(cache')
<1> DEFINE r == req[p].root
           e == EnvOf(p)
<1>1. CacheOK(cache) /\ CallOK(req[p])
  BY DEF IInv, TypeOK
<1>2. req[p].pc \in {"refresh", "running", "discover"}
  BY DEF Refresh, InvalidateProject, DiscoverFails, At
<1>3. r \in Roots /\ HasFields(cache)
  BY <1>1, <1>2 DEF CallOK, Quiet, CacheOK, HasFields
<1>4. \/ cache' = RequireFullRebuild(InvalidateAfterMaven(cache, r, e), r)
      \/ cache' = InvalidateAfterMaven(cache, r, e)
      \/ cache' = DiscardProject(cache, r, e)
  BY DEF Refresh, InvalidateProject, DiscoverFails, Root
<1> HIDE DEF r, e
<1>5. BooksKept(cache, cache')
  BY <1>3, <1>4, InvalidationBooks
<1> QED
  BY <1>5, InvalidationKeeps, BooksOnward

LEMMA LookupStepBooks ==
    ASSUME IInv, Books(cache), NEW p \in Reqs,
           CheckRunner(p) \/ Install(p) \/ Lookup(p) \/ Validate(p)
    PROVE  Books(cache')
<1> DEFINE r == req[p].root
           g == req[p].generation
           e == EnvOf(p)
<1>1. CacheOK(cache) /\ CallOK(req[p])
  BY DEF IInv, TypeOK
<1>2. req[p].pc \in {"runner", "install", "lookup", "validate"}
  BY DEF CheckRunner, Install, Lookup, Validate, At
<1>3. r \in Roots /\ HasFields(cache)
  BY <1>1, <1>2 DEF CallOK, Quiet, CacheOK, HasFields
<1>4. \/ cache' = LookupRunner(cache, r)
      \/ \E runner : cache' = InstallRunner(cache, r, runner, e)
      \/ \E fingerprint, fresh : cache' = LookupIndex(cache, r, fingerprint, fresh, e)
      \/ cache' = RecordHit(cache, r)
      \/ cache' = InvalidateGeneration(cache, r, g, e)
  <2>1. CASE CheckRunner(p)
    BY <2>1 DEF CheckRunner, Root
  <2>2. CASE Install(p)
    BY <2>2 DEF Install, InstallStamped, Root
  <2>3. CASE Lookup(p)
    BY <2>3 DEF Lookup, Root
  <2>4. CASE Validate(p)
    BY <2>4 DEF Validate, Root
  <2> QED
    BY <2>1, <2>2, <2>3, <2>4
<1> HIDE DEF r, g, e
<1>5. BooksKept(cache, cache')
  BY <1>3, <1>4, LookupBooks, InstallRunnerBooks, InvalidationBooks
<1> QED
  BY <1>5, LookupStepsKeep, BooksOnward

LEMMA ReserveStepBooks ==
    ASSUME IInv, Books(cache), NEW p \in Reqs, ReserveMemory(p)
    PROVE  Books(cache')
<1> DEFINE r == req[p].root
           g == req[p].generation
           e == EnvOf(p)
           c == Reserve(cache, r, ReserveBytes[r], e)
<1>1. CacheOK(cache) /\ CallOK(req[p]) /\ req[p].pc = "reserve"
  BY DEF IInv, TypeOK, ReserveMemory, At
<1>2. r \in Roots /\ HasFields(cache)
  BY <1>1 DEF CallOK, Quiet, CacheOK, HasFields
<1>3. cache' = Prune(cache, e) \/ cache' = c \/ cache' = FinishFailed(c, r, g, e)
  BY DEF ReserveMemory, Root
<1> HIDE DEF r, g, e
<1>4. BooksKept(cache, Prune(cache, e)) /\ BooksKept(cache, c)
  BY <1>2, PruneBooks, ReserveBooks
<1> HIDE DEF c
<1>5. BooksKept(cache, FinishFailed(c, r, g, e))
  <2>1. HasFields(c)
    BY <1>2, <1>4 DEF BooksKept
  <2> QED
    BY <1>2, <1>4, <2>1, FinishFailedBooks, BooksTransitive
<1>6. BooksKept(cache, cache')
  BY <1>3, <1>4, <1>5
<1> QED
  BY <1>6, ReserveKeeps, BooksOnward

(* The publication: what it retains fits when the other holders are those  *)
(* the publisher saw.                                                      *)
LEMMA PublishStepBooks ==
    ASSUME IInv, Books(cache), NEW p \in Reqs, PublishBuild(p)
    PROVE  /\ Books(cache')
           /\ \A s \in Roots : cache'.states[s].index \notin {None, cache.states[s].index} =>
                 /\ IndexCountOK(cache') /\ RetainedBytes(cache', EnvOf(p)) + 0 <= MaxBytes
                 /\ req' = [req EXCEPT ![p].pc = "persist"] /\ UNCHANGED <<cells, orphan>>
                 /\ req[p].root \in Roots
<1> DEFINE r == req[p].root
           g == req[p].generation
           e == EnvOf(p)
           x == req[p].index
<1>1. CacheOK(cache) /\ CallOK(req[p]) /\ req[p].pc = "publish"
      /\ g <= cache.next_generation
  BY DEF IInv, TypeOK, PublishBuild, At
<1>2. r \in Roots /\ HasFields(cache) /\ g \in Nat
  BY <1>1 DEF CallOK, Quiet, CacheOK, HasFields
<1>3. \/ cache' = InvalidateGeneration(cache, r, g, e)
      \/ cache' = Prune(cache, e)
      \/ /\ cache' = FinishFullRebuild(Publish(cache, r, x, e), r, g)
         /\ req' = [req EXCEPT ![p].pc = "persist"] /\ UNCHANGED <<cells, orphan>>
  BY DEF PublishBuild, Root, Goto
<1> DEFINE d == cache'
<1>4. CASE d = InvalidateGeneration(cache, r, g, e) \/ d = Prune(cache, e)
  <2> HIDE DEF r, g, e, d
  <2>1. Weaker(cache, d, e.live)
    BY <1>1, <1>2, <1>4, InvalidateGenerationWeaker, PruneWeaker
  <2>2. BooksKept(cache, d)
    BY <1>2, <1>4, InvalidationBooks, PruneBooks
  <2>3. KeepsIndexes(cache, d)
    BY <2>1, WeakerKeeps
  <2>4. Books(d) /\ \A s \in Roots : d.states[s].index \in {None, cache.states[s].index}
    BY <2>2, <2>3, BooksOnward DEF KeepsIndexes
  <2> QED
    BY <2>4 DEF d
<1>5. CASE /\ d = FinishFullRebuild(Publish(cache, r, x, e), r, g)
           /\ req' = [req EXCEPT ![p].pc = "persist"] /\ UNCHANGED <<cells, orphan>>
  <2> HIDE DEF g, x, d
  <2>1. /\ Books(d)
        /\ \A s \in Roots : d.states[s].index \notin {None, cache.states[s].index} =>
              IndexCountOK(d) /\ RetainedBytes(d, e) + 0 <= MaxBytes
    <3> HIDE DEF r, e
    <3> QED
      BY <1>1, <1>2, <1>5, PublishLimits
  <2> QED
    BY <1>2, <1>5, <2>1 DEF d
<1> QED
  BY <1>3, <1>4, <1>5

LEMMA FailStepBooks ==
    ASSUME IInv, Books(cache), NEW p \in Reqs, BlockingFails(p)
    PROVE  KeepsIndexes(cache, cache') /\ Books(cache')
<1>1. CASE cache' = cache
  BY <1>1 DEF KeepsIndexes
<1>2. CASE cache' # cache
  <2> DEFINE r == req[p].root
  <2>1. Fail(p) /\ req[p].pc \in {"resolve", "maven", "stamp", "verify"}
    BY <1>2 DEF BlockingFails
  <2>2. r \in Roots /\ CacheOK(cache) /\ HasFields(cache)
    BY <2>1 DEF IInv, TypeOK, CallOK, Quiet, CacheOK, HasFields
  <2>3. \E g, e : cache' = FinishFailed(cache, r, g, e)
    BY <2>1 DEF Fail, Root
  <2> HIDE DEF r
  <2>4. BooksKept(cache, cache') /\ KeepsIndexes(cache, cache')
    BY <2>2, <2>3, FinishFailedBooks, FailKeeps
  <2> QED
    BY <2>4, BooksOnward
<1> QED
  BY <1>1, <1>2

LEMMA NextBudget ==
    ASSUME IInv, BudgetInv, [Next]_vars
    PROVE  BudgetInv'
<1>1. Books(cache) /\ TypeOK /\ JobsReserve(orphan')
  BY JobsStep DEF IInv, BudgetInv
<1>2. CASE cache' = cache
  BY <1>1, <1>2 DEF BudgetInv
<1>3. CASE cache' # cache
  <2>1. PICK p \in Reqs : Advance(p)
    BY <1>3 DEF Next, vars, Start, Cancel, OrphanEnds, EditPom, EditArtifacts
  <2>2. CASE \/ Refresh(p) \/ InvalidateProject(p) \/ DiscoverFails(p)
             \/ CheckRunner(p) \/ Install(p) \/ Lookup(p) \/ Validate(p) \/ ReserveMemory(p)
             \/ PublishBuild(p) \/ BlockingFails(p)
    BY <1>1, <2>2, InvalidationStepBooks, LookupStepBooks, ReserveStepBooks, PublishStepBooks,
       FailStepBooks DEF BudgetInv
  <2>3. CASE \/ Forget(p) \/ Discover(p) \/ EnterCell(p) \/ ReadCell(p) \/ Use(p)
             \/ AcquireOwner(p) \/ Resolve(p) \/ ResolveWithMaven(p) \/ Stamp(p)
             \/ ReadFlag(p) \/ BuildScoped(p) \/ VerifyBuild(p)
             \/ Persist(p) \/ Recheck(p) \/ Unpersist(p)
    BY <1>3, <2>3 DEF Forget, Discover, EnterCell, ReadCell, Use, AcquireOwner, Resolve,
       ResolveWithMaven, Stamp, ReadFlag, BuildScoped, VerifyBuild, Persist, Recheck, Unpersist
  <2> QED
    BY <2>1, <2>2, <2>3 DEF Advance
<1> QED
  BY <1>2, <1>3

-----------------------------------------------------------------------------
(* Only the reservation itself leads from "reserve" to "flag". *)
LEMMA OthersStay ==
    ASSUME TypeOK, NEW q \in Reqs, Start(q) \/ Cancel(q) \/ Advance(q), NEW p \in Reqs \ {q}
    PROVE  req'[p] = req[p]
<1>1. DOMAIN req = Reqs
  BY DEF TypeOK
<1>2. CASE Start(q) \/ Cancel(q)
  BY <1>1, <1>2 DEF Start, Receive, Cancel
<1>3. CASE \/ Refresh(q) \/ InvalidateProject(q) \/ Forget(q)
           \/ CheckRunner(q) \/ Discover(q) \/ DiscoverFails(q) \/ Install(q)
  BY <1>1, <1>3 DEF Refresh, InvalidateProject, Forget, Forgotten, CheckRunner, Discover,
     DiscoverFails, Install, InstallStamped
<1>4. CASE \/ Lookup(q) \/ Validate(q) \/ EnterCell(q) \/ ReadCell(q) \/ Use(q)
  BY <1>1, <1>4 DEF Lookup, Validate, EnterCell, Goto, ReadCell, Use
<1>5. CASE \/ AcquireOwner(q) \/ Resolve(q) \/ ResolveWithMaven(q) \/ Stamp(q)
           \/ ReadFlag(q) \/ BuildScoped(q) \/ VerifyBuild(q)
  BY <1>1, <1>5 DEF AcquireOwner, Resolve, ResolveWithMaven, Resolved, Stamp, ReadFlag,
     BuildScoped, VerifyBuild
<1>6. CASE \/ ReserveMemory(q) \/ PublishBuild(q) \/ Persist(q) \/ Recheck(q) \/ Unpersist(q)
  BY <1>1, <1>6 DEF ReserveMemory, PublishBuild, Complete, Goto, Persist, Recheck, Built, Unpersist
<1>7. CASE BlockingFails(q)
  BY <1>1, <1>7 DEF BlockingFails, Fail, Complete, Forgotten, Goto, Built
<1> QED
  BY <1>2, <1>3, <1>4, <1>5, <1>6, <1>7 DEF Advance

LEMMA GrantedHere ==
    ASSUME TypeOK, [Next]_vars, NEW p \in Reqs, req[p].pc = "reserve", req'[p].pc = "flag"
    PROVE  ReserveMemory(p)
<1>1. req' # req /\ DOMAIN req = Reqs
  BY DEF TypeOK
<1>2. PICK q \in Reqs : Start(q) \/ Cancel(q) \/ Advance(q)
  BY <1>1 DEF Next, vars, OrphanEnds, EditPom, EditArtifacts
<1>3. q = p
  BY <1>2, OthersStay
<1>4. ~Start(p) /\ ~Cancel(p)
  BY <1>1 DEF Start, At, Cancel, Ended, Idle
<1>5. Advance(p)
  BY <1>2, <1>3, <1>4
<1>6. CASE \/ Refresh(p) \/ InvalidateProject(p) \/ Forget(p)
           \/ CheckRunner(p) \/ Discover(p) \/ DiscoverFails(p) \/ Install(p)
           \/ Lookup(p) \/ Validate(p) \/ EnterCell(p) \/ ReadCell(p) \/ Use(p)
  BY <1>6 DEF Refresh, InvalidateProject, Forget, CheckRunner, Discover, DiscoverFails, Install,
     Lookup, Validate, EnterCell, ReadCell, Use, At
<1>7. CASE \/ AcquireOwner(p) \/ Resolve(p) \/ ResolveWithMaven(p) \/ Stamp(p)
           \/ ReadFlag(p) \/ BuildScoped(p) \/ VerifyBuild(p)
           \/ PublishBuild(p) \/ Persist(p) \/ Recheck(p) \/ Unpersist(p) \/ BlockingFails(p)
  BY <1>7 DEF AcquireOwner, Resolve, ResolveWithMaven, Stamp, ReadFlag, BuildScoped, VerifyBuild,
     PublishBuild, Persist, Recheck, Unpersist, BlockingFails, At
<1> QED
  BY <1>5, <1>6, <1>7 DEF Advance

(* A granted reservation leaves the cache within the budget. *)
LEMMA GrantedFits ==
    ASSUME IInv, BudgetInv, [Next]_vars, NEW p \in Reqs, req[p].pc = "reserve",
           req'[p].pc = "flag"
    PROVE  RetainedBytes(cache', EnvOf(None)') <= MaxBytes
<1> DEFINE r == req[p].root
           n == ReserveBytes[r]
           d == cache'
           after == EnvOf(None)'
           before == EnvOf(p)
<1>1. TypeOK /\ CallOK(req[p]) /\ JobsReserve(orphan) /\ DOMAIN req = Reqs
  BY DEF IInv, TypeOK, BudgetInv
<1>2. r \in Roots
  BY <1>1 DEF CallOK, Quiet
<1>3. n \in Nat
  BY <1>2, ServiceAssumption
<1>4. ReserveMemory(p)
  BY <1>1, GrantedHere
<1>5. /\ WithinBytes(d, before, n) /\ UNCHANGED <<cells, orphan>>
      /\ req' = [req EXCEPT ![p].pc = "flag"]
  <2>1. \A outcome : ~Complete(p, outcome)
    BY <1>1 DEF Complete, CallOK, Fields
  <2> QED
    BY <1>4, <2>1 DEF ReserveMemory, Root, Goto
<1>6. /\ after.held = before.held /\ after.reserved \in Nat /\ before.reserved \in Nat
      /\ after.reserved <= before.reserved + n
  <2> DEFINE pc == "flag"
  <2>1. req' = [req EXCEPT ![p].pc = pc] /\ (pc \in Reserving => n = ReserveBytes[req[p].root])
    BY <1>5
  <2> HIDE DEF pc
  <2> QED
    BY <1>1, <1>2, <1>3, <1>5, <2>1, StepReserves
<1>7. Released(d.released)
  BY NextBudget DEF BudgetInv, Books
<1> HIDE DEF n, d, after, before
<1>8. RetainedBytes(d, after) <= MaxBytes
  BY <1>3, <1>5, <1>6, <1>7, BytesBeside DEF WithinBytes
<1> QED
  BY <1>8 DEF d, after

(* So does an index that is retained, and the number of indexes stays      *)
(* within its limit.                                                       *)
LEMMA RetainedFits ==
    ASSUME IInv, BudgetInv, [Next]_vars, NEW s \in Roots,
           cache'.states[s].index \notin {None, cache.states[s].index}
    PROVE  IndexCountOK(cache') /\ RetainedBytes(cache', EnvOf(None)') <= MaxBytes
<1>1. ~KeepsIndexes(cache, cache')
  BY DEF KeepsIndexes
<1>2. /\ CacheOK(cache) /\ cache' # cache /\ TypeOK /\ JobsReserve(orphan) /\ Books(cache)
      /\ Released(cache'.released)
  BY NextBudget DEF IInv, TypeOK, BudgetInv, Books
<1>3. PICK p \in Reqs : Advance(p)
  BY <1>2 DEF Next, vars, Start, Cancel, OrphanEnds, EditPom, EditArtifacts
<1>4. PublishBuild(p)
  <2>1. CASE \/ Refresh(p) \/ InvalidateProject(p) \/ DiscoverFails(p)
             \/ CheckRunner(p) \/ Install(p) \/ Lookup(p) \/ Validate(p) \/ ReserveMemory(p)
             \/ BlockingFails(p)
    BY <1>1, <1>2, <2>1, InvalidationKeeps, LookupStepsKeep, ReserveKeeps, FailStepBooks
  <2>2. CASE \/ Forget(p) \/ Discover(p) \/ EnterCell(p) \/ ReadCell(p) \/ Use(p)
             \/ AcquireOwner(p) \/ Resolve(p) \/ ResolveWithMaven(p) \/ Stamp(p)
             \/ ReadFlag(p) \/ BuildScoped(p) \/ VerifyBuild(p)
             \/ Persist(p) \/ Recheck(p) \/ Unpersist(p)
    BY <1>2, <2>2 DEF Forget, Discover, EnterCell, ReadCell, Use, AcquireOwner, Resolve,
       ResolveWithMaven, Stamp, ReadFlag, BuildScoped, VerifyBuild, Persist, Recheck, Unpersist
  <2> QED
    BY <1>3, <2>1, <2>2 DEF Advance
<1> DEFINE d == cache'
           after == EnvOf(None)'
           before == EnvOf(p)
<1>5. /\ IndexCountOK(d) /\ RetainedBytes(d, before) + 0 <= MaxBytes
      /\ req' = [req EXCEPT ![p].pc = "persist"] /\ UNCHANGED <<cells, orphan>>
      /\ req[p].root \in Roots
  BY <1>2, <1>4, PublishStepBooks
<1>6. /\ after.held = before.held /\ after.reserved \in Nat /\ before.reserved \in Nat
      /\ after.reserved <= before.reserved + 0
  <2> DEFINE pc == "persist"
  <2>1. req' = [req EXCEPT ![p].pc = pc] /\ pc \notin Reserving
    BY <1>5 DEF Reserving
  <2> HIDE DEF pc
  <2> QED
    BY <1>2, <1>5, <2>1, StepReserves
<1> HIDE DEF d, after, before
<1>7. RetainedBytes(d, after) <= MaxBytes
  BY <1>2, <1>5, <1>6, BytesBeside DEF d
<1> QED
  BY <1>5, <1>7 DEF d, after

(* GrowthWithinBudget for any number of calls and projects: whenever a     *)
(* reservation is granted or a build retained, what the cache retains,     *)
(* what it released and somebody still holds, and every reservation alive, *)
(* those of abandoned jobs included, fit in the byte budget, and the       *)
(* indexes in their number (project_cache.rs reserve, publish, enforce,    *)
(* retained_bytes).                                                        *)
THEOREM GrowthWithinBudgetHolds == Spec => GrowthWithinBudget
<1>1. Init => BudgetInv
  BY InitBudget
<1>2. IInv /\ BudgetInv /\ [Next]_vars => BudgetInv'
  BY NextBudget
<1>3. IInv /\ BudgetInv /\ [Next]_vars =>
         [LET granted == \E p \in Reqs : At(p, "reserve") /\ req'[p].pc = "flag"
           retained == \E r \in Roots :
                          cache'.states[r].index \notin {None, cache.states[r].index}
       IN  /\ granted \/ retained => (RetainedBytes(cache, EnvOf(None)) <= MaxBytes)'
           /\ retained => IndexCountOK(cache)']_vars
  BY GrantedFits, RetainedFits DEF At
<1> QED
  BY <1>1, <1>2, <1>3, InvariantHolds, PTL DEF Spec, GrowthWithinBudget
=============================================================================
