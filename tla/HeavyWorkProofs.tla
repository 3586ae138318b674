-------------------------- MODULE HeavyWorkProofs --------------------------
(***************************************************************************)
(* Safety of the heavy-work pool for every set of jobs and every limit.    *)
(***************************************************************************)
EXTENDS HeavyWork, FiniteSetTheorems, TLAPS

(* Jobs that own an admission permit, and jobs that own a running permit.  *)
AdmittedJobs == {j \in Jobs : InFuture(j) \/ InClosure(j)}
RunningJobs == {j \in Jobs : InClosure(j)}

(* A closure exists only once its future has passed the queue, and the     *)
(* future stays until the closure has returned, unless it is dropped.      *)
ClosureAfterQueue ==
    \A j \in Jobs :
        /\ pc[j] \in {"new", "waiting", "polling"} => thread[j] = "none"
        /\ InClosure(j) => pc[j] \in {"joining", "dropped"}

(* Dropping a request and shutting the pool down both reach the token of   *)
(* every job they concern, and no later step takes that back.              *)
TokensCancelled ==
    /\ shutdown => \A j \in Jobs : pc[j] \notin {"new", "answered"} => j \in cancelled
    /\ \A j \in Jobs : pc[j] = "dropped" => j \in cancelled

IInv == TypeOK /\ ClosureAfterQueue /\ TokensCancelled /\ SlotsAccounted

(* Taking a job out of the wait queue leaves a sequence of jobs. *)
LEMMA WithoutType ==
    ASSUME NEW S, NEW seq \in Seq(S), NEW j
    PROVE  Without(seq, j) \in Seq(S)
<1>1. CASE \E i \in DOMAIN seq : seq[i] = j
  <2> DEFINE place == CHOOSE i \in DOMAIN seq : seq[i] = j
             rest == [i \in 1 .. (Len(seq) - 1) |->
                        IF i < place THEN seq[i] ELSE seq[i + 1]]
  <2>1. place \in DOMAIN seq
    BY <1>1
  <2>2. Len(seq) \in Nat /\ DOMAIN seq = 1 .. Len(seq) /\ Len(seq) - 1 \in Nat
    BY <2>1
  <2>3. \A i \in 1 .. (Len(seq) - 1) : rest[i] \in S
    BY <2>1, <2>2
  <2>4. rest \in Seq(S)
    BY <2>2, <2>3
  <2>5. QED
    BY <1>1, <2>4 DEF Without
<1>2. CASE ~\E i \in DOMAIN seq : seq[i] = j
  BY <1>2 DEF Without
<1>3. QED
  BY <1>1, <1>2

(* The permit counts stay within the limits, because no set of owners has  *)
(* a negative size.                                                        *)
LEMMA OwnersFinite ==
    /\ IsFiniteSet(AdmittedJobs) /\ Cardinality(AdmittedJobs) \in Nat
    /\ IsFiniteSet(RunningJobs) /\ Cardinality(RunningJobs) \in Nat
    /\ Cardinality(RunningJobs) <= Cardinality(AdmittedJobs)
<1>1. AdmittedJobs \in SUBSET Jobs
  BY DEF AdmittedJobs
<1>2. IsFiniteSet(AdmittedJobs)
  BY <1>1, JobsAssumption, FS_Subset
<1>3. RunningJobs \in SUBSET AdmittedJobs
  BY DEF RunningJobs, AdmittedJobs
<1>4. IsFiniteSet(RunningJobs) /\ Cardinality(RunningJobs) <= Cardinality(AdmittedJobs)
  BY <1>2, <1>3, FS_Subset
<1>5. QED
  BY <1>2, <1>4, FS_CardinalityType

LEMMA InitIInv == Init => IInv
<1> SUFFICES ASSUME Init
             PROVE  IInv
  OBVIOUS
<1>1. TypeOK
  <2>1. shutdown \in BOOLEAN /\ cancelled \subseteq Jobs
    BY DEF Init
  <2>2. /\ pc \in [Jobs -> FutureStates]
        /\ thread \in [Jobs -> ThreadStates]
        /\ result \in [Jobs -> Results]
    BY DEF Init, FutureStates, ThreadStates, Results
  <2>3. admitted \in 0 .. Capacity /\ running \in 0 .. Running /\ waiters \in Seq(Jobs)
    BY LimitsAssumption DEF Init, Capacity
  <2>4. QED
    BY <2>1, <2>2, <2>3 DEF TypeOK
<1>2. ClosureAfterQueue /\ TokensCancelled
  BY DEF Init, ClosureAfterQueue, TokensCancelled, InClosure
<1>3. AdmittedJobs = {} /\ RunningJobs = {}
  BY DEF Init, AdmittedJobs, RunningJobs, InFuture, InClosure
<1>4. admitted = Capacity /\ running = Running
  BY DEF Init
<1>5. Capacity \in Nat /\ Running \in Nat
  BY LimitsAssumption DEF Capacity
<1>6. SlotsAccounted
  BY <1>3, <1>4, <1>5, FS_EmptySet DEF SlotsAccounted, AdmittedJobs, RunningJobs
<1>7. QED
  BY <1>1, <1>2, <1>6 DEF IInv

-----------------------------------------------------------------------------
(* What a step does to the permits, in terms of the sets of owners: the    *)
(* four shapes that occur.  Each keeps the accounts and the permit ranges. *)
PermitsOK ==
    /\ admitted \in 0 .. Capacity
    /\ running \in 0 .. Running
    /\ SlotsAccounted

(* No permit moves. *)
LEMMA PermitsKept ==
    ASSUME PermitsOK, admitted' = admitted, running' = running,
           AdmittedJobs' = AdmittedJobs, RunningJobs' = RunningJobs
    PROVE  PermitsOK'
BY DEF PermitsOK, SlotsAccounted, AdmittedJobs, RunningJobs, Capacity

(* A new job takes an admission permit. *)
LEMMA PermitAdmitted ==
    ASSUME PermitsOK, NEW j \in Jobs, j \notin AdmittedJobs, admitted > 0,
           admitted' = admitted - 1, running' = running,
           AdmittedJobs' = AdmittedJobs \union {j}, RunningJobs' = RunningJobs
    PROVE  PermitsOK'
<1>1. Cardinality(AdmittedJobs') = Cardinality(AdmittedJobs) + 1
  BY OwnersFinite, FS_AddElement
<1>2. Capacity \in Nat /\ Running \in Nat
  BY LimitsAssumption DEF Capacity
<1>3. admitted' + Cardinality(AdmittedJobs') = Capacity /\ admitted' \in 0 .. Capacity
  BY <1>1, <1>2, OwnersFinite DEF PermitsOK, SlotsAccounted, AdmittedJobs
<1>4. QED
  BY <1>3 DEF PermitsOK, SlotsAccounted, AdmittedJobs, RunningJobs, Capacity

(* A future gives its admission permit back. *)
LEMMA PermitReturned ==
    ASSUME PermitsOK, NEW j \in AdmittedJobs,
           admitted' = admitted + 1, running' = running,
           AdmittedJobs' = AdmittedJobs \ {j}, RunningJobs' = RunningJobs
    PROVE  PermitsOK'
<1>1. Cardinality(AdmittedJobs') = Cardinality(AdmittedJobs) - 1
  BY OwnersFinite, FS_RemoveElement
<1>2. Cardinality(AdmittedJobs') \in Nat
  BY OwnersFinite, FS_RemoveElement, FS_CardinalityType
<1>3. Capacity \in Nat /\ Running \in Nat
  BY LimitsAssumption DEF Capacity
<1>4. admitted' + Cardinality(AdmittedJobs') = Capacity /\ admitted' \in 0 .. Capacity
  BY <1>1, <1>2, <1>3, OwnersFinite DEF PermitsOK, SlotsAccounted, AdmittedJobs
<1>5. QED
  BY <1>4 DEF PermitsOK, SlotsAccounted, AdmittedJobs, RunningJobs, Capacity

(* A queued job takes a running permit and moves into its closure. *)
LEMMA PermitRunning ==
    ASSUME PermitsOK, NEW j \in Jobs, j \notin RunningJobs, running > 0,
           admitted' = admitted, running' = running - 1,
           AdmittedJobs' = AdmittedJobs, RunningJobs' = RunningJobs \union {j}
    PROVE  PermitsOK'
<1>1. Cardinality(RunningJobs') = Cardinality(RunningJobs) + 1
  BY OwnersFinite, FS_AddElement
<1>2. Capacity \in Nat /\ Running \in Nat
  BY LimitsAssumption DEF Capacity
<1>3. running' + Cardinality(RunningJobs') = Running /\ running' \in 0 .. Running
  BY <1>1, <1>2, OwnersFinite DEF PermitsOK, SlotsAccounted, RunningJobs
<1>4. QED
  BY <1>3 DEF PermitsOK, SlotsAccounted, AdmittedJobs, RunningJobs, Capacity

(* A closure returns and gives both permits back. *)
LEMMA PermitsReleased ==
    ASSUME PermitsOK, NEW j \in RunningJobs, ReleaseSlots,
           AdmittedJobs' = AdmittedJobs \ {j}, RunningJobs' = RunningJobs \ {j}
    PROVE  PermitsOK'
<1>1. j \in AdmittedJobs
  BY DEF RunningJobs, AdmittedJobs
<1>2. /\ Cardinality(AdmittedJobs') = Cardinality(AdmittedJobs) - 1
      /\ Cardinality(RunningJobs') = Cardinality(RunningJobs) - 1
  BY <1>1, OwnersFinite, FS_RemoveElement
<1>3. Cardinality(AdmittedJobs') \in Nat /\ Cardinality(RunningJobs') \in Nat
  BY OwnersFinite, FS_RemoveElement, FS_CardinalityType
<1>4. Capacity \in Nat /\ Running \in Nat
  BY LimitsAssumption DEF Capacity
<1>5. admitted' + Cardinality(AdmittedJobs') = Capacity /\ admitted' \in 0 .. Capacity
  BY <1>2, <1>3, <1>4, OwnersFinite DEF PermitsOK, SlotsAccounted, AdmittedJobs, ReleaseSlots
<1>6. running' + Cardinality(RunningJobs') = Running /\ running' \in 0 .. Running
  BY <1>2, <1>3, <1>4, OwnersFinite DEF PermitsOK, SlotsAccounted, RunningJobs, ReleaseSlots
<1>7. QED
  BY <1>5, <1>6 DEF PermitsOK, SlotsAccounted, AdmittedJobs, RunningJobs, Capacity

-----------------------------------------------------------------------------
(* IInv without the permits. *)
StateOK ==
    /\ pc \in [Jobs -> FutureStates]
    /\ thread \in [Jobs -> ThreadStates]
    /\ cancelled \subseteq Jobs
    /\ shutdown \in BOOLEAN
    /\ waiters \in Seq(Jobs)
    /\ result \in [Jobs -> Results]
    /\ ClosureAfterQueue
    /\ TokensCancelled

(* IInv is the conjunction of the two parts the steps are checked against. *)
LEMMA SplitInv == IInv <=> StateOK /\ PermitsOK
BY DEF IInv, TypeOK, StateOK, PermitsOK

LEMMA JoinInv == ASSUME StateOK', PermitsOK' PROVE IInv'
BY DEF IInv, TypeOK, StateOK, PermitsOK, SlotsAccounted, ClosureAfterQueue, TokensCancelled, InClosure

(* Every step of the pool preserves the inductive invariant. *)
LEMMA NextIInv == IInv /\ [Next]_vars => IInv'
<1> SUFFICES ASSUME IInv, [Next]_vars
             PROVE  IInv'
  OBVIOUS
<1>1. StateOK /\ PermitsOK
  BY SplitInv
<1> USE <1>1
<1>2. ASSUME NEW j \in Jobs, Reject(j)
      PROVE  IInv'
  <2>1. AdmittedJobs' = AdmittedJobs /\ RunningJobs' = RunningJobs
    BY <1>2 DEF Reject, AdmittedJobs, RunningJobs, InFuture, InClosure, StateOK, ClosureAfterQueue
  <2>2. PermitsOK'
    BY <1>2, <2>1, PermitsKept DEF Reject
  <2>3. waiters' \in Seq(Jobs)
    BY <1>2 DEF Reject, StateOK
  <2>4. StateOK'
    BY <1>2, <2>3 DEF Reject, StateOK, FutureStates, ThreadStates, Results, ClosureAfterQueue, TokensCancelled, InClosure
  <2>5. QED
    BY <2>2, <2>4, JoinInv
<1>3. ASSUME NEW j \in Jobs, Admit(j)
      PROVE  IInv'
  <2>1. /\ j \notin AdmittedJobs
        /\ AdmittedJobs' = AdmittedJobs \union {j}
        /\ RunningJobs' = RunningJobs
    BY <1>3 DEF Admit, AdmittedJobs, RunningJobs, InFuture, InClosure, StateOK, ClosureAfterQueue
  <2>2. PermitsOK'
    BY <1>3, <2>1, PermitAdmitted DEF Admit
  <2>3. waiters' \in Seq(Jobs)
    BY <1>3 DEF Admit, StateOK
  <2>4. /\ cancelled \subseteq cancelled' /\ cancelled' \subseteq Jobs
        /\ shutdown => j \in cancelled'
    BY <1>3 DEF Admit, StateOK
  <2>5. TokensCancelled'
    BY <1>3, <2>4 DEF Admit, StateOK, TokensCancelled
  <2>6. StateOK'
    BY <1>3, <2>3, <2>4, <2>5 DEF Admit, StateOK, FutureStates, ClosureAfterQueue, InClosure
  <2>7. QED
    BY <2>2, <2>6, JoinInv
<1>4. ASSUME NEW j \in Jobs, CancelWaiting(j)
      PROVE  IInv'
  <2>1. /\ j \in AdmittedJobs
        /\ AdmittedJobs' = AdmittedJobs \ {j}
        /\ RunningJobs' = RunningJobs
    BY <1>4 DEF CancelWaiting, AdmittedJobs, RunningJobs, InFuture, InClosure, StateOK, ClosureAfterQueue
  <2>2. PermitsOK'
    BY <1>4, <2>1, PermitReturned DEF CancelWaiting
  <2>3. waiters' \in Seq(Jobs)
    BY <1>4, WithoutType DEF CancelWaiting, StateOK
  <2>4. StateOK'
    BY <1>4, <2>3 DEF CancelWaiting, StateOK, FutureStates, ThreadStates, Results, ClosureAfterQueue, TokensCancelled, InClosure
  <2>5. QED
    BY <2>2, <2>4, JoinInv
<1>5. ASSUME NEW j \in Jobs, PollPermit(j)
      PROVE  IInv'
  <2>1. AdmittedJobs' = AdmittedJobs /\ RunningJobs' = RunningJobs
    BY <1>5 DEF PollPermit, AdmittedJobs, RunningJobs, InFuture, InClosure, StateOK, ClosureAfterQueue
  <2>2. PermitsOK'
    BY <1>5, <2>1, PermitsKept DEF PollPermit
  <2>3. waiters' \in Seq(Jobs)
    BY <1>5 DEF PollPermit, StateOK
  <2>4. StateOK'
    BY <1>5, <2>3 DEF PollPermit, StateOK, FutureStates, ThreadStates, Results, ClosureAfterQueue, TokensCancelled, InClosure
  <2>5. QED
    BY <2>2, <2>4, JoinInv
<1>6. ASSUME NEW j \in Jobs, Pending(j)
      PROVE  IInv'
  <2>1. AdmittedJobs' = AdmittedJobs /\ RunningJobs' = RunningJobs
    BY <1>6 DEF Pending, AdmittedJobs, RunningJobs, InFuture, InClosure, StateOK, ClosureAfterQueue
  <2>2. PermitsOK'
    BY <1>6, <2>1, PermitsKept DEF Pending
  <2>3. waiters' \in Seq(Jobs)
    BY <1>6 DEF Pending, StateOK
  <2>4. StateOK'
    BY <1>6, <2>3 DEF Pending, StateOK, FutureStates, ThreadStates, Results, ClosureAfterQueue, TokensCancelled, InClosure
  <2>5. QED
    BY <2>2, <2>4, JoinInv
<1>7. ASSUME NEW j \in Jobs, Acquire(j)
      PROVE  IInv'
  <2>1. /\ j \notin RunningJobs
        /\ AdmittedJobs' = AdmittedJobs
        /\ RunningJobs' = RunningJobs \union {j}
    BY <1>7 DEF Acquire, AdmittedJobs, RunningJobs, InFuture, InClosure, StateOK, ClosureAfterQueue, PermitFor
  <2>2. PermitsOK'
    BY <1>7, <2>1, PermitRunning DEF Acquire, PermitFor
  <2>3. waiters' \in Seq(Jobs)
    BY <1>7, WithoutType DEF Acquire, StateOK
  <2>4. StateOK'
    BY <1>7, <2>3 DEF Acquire, StateOK, FutureStates, ThreadStates, Results, ClosureAfterQueue, TokensCancelled, InClosure
  <2>5. QED
    BY <2>2, <2>4, JoinInv
<1>8. ASSUME NEW j \in Jobs, StartWork(j)
      PROVE  IInv'
  <2>1. AdmittedJobs' = AdmittedJobs /\ RunningJobs' = RunningJobs
    BY <1>8 DEF StartWork, AdmittedJobs, RunningJobs, InFuture, InClosure, StateOK, ClosureAfterQueue
  <2>2. PermitsOK'
    BY <1>8, <2>1, PermitsKept DEF StartWork
  <2>3. waiters' \in Seq(Jobs)
    BY <1>8 DEF StartWork, StateOK
  <2>4. StateOK'
    BY <1>8, <2>3 DEF StartWork, StateOK, FutureStates, ThreadStates, Results, ClosureAfterQueue, TokensCancelled, InClosure
  <2>5. QED
    BY <2>2, <2>4, JoinInv
<1>9. ASSUME NEW j \in Jobs, SkipWork(j)
      PROVE  IInv'
  <2>1. /\ j \in RunningJobs
        /\ AdmittedJobs' = AdmittedJobs \ {j}
        /\ RunningJobs' = RunningJobs \ {j}
    BY <1>9 DEF SkipWork, AdmittedJobs, RunningJobs, InFuture, InClosure, StateOK, ClosureAfterQueue
  <2>2. PermitsOK'
    BY <1>9, <2>1, PermitsReleased DEF SkipWork
  <2>3. waiters' \in Seq(Jobs)
    BY <1>9 DEF SkipWork, StateOK
  <2>4. StateOK'
    BY <1>9, <2>3 DEF SkipWork, StateOK, FutureStates, ThreadStates, Results, ClosureAfterQueue, TokensCancelled, InClosure
  <2>5. QED
    BY <2>2, <2>4, JoinInv
<1>10. ASSUME NEW j \in Jobs, FinishWork(j)
      PROVE  IInv'
  <2>1. /\ j \in RunningJobs
        /\ AdmittedJobs' = AdmittedJobs \ {j}
        /\ RunningJobs' = RunningJobs \ {j}
    BY <1>10 DEF FinishWork, AdmittedJobs, RunningJobs, InFuture, InClosure, StateOK, ClosureAfterQueue
  <2>2. PermitsOK'
    BY <1>10, <2>1, PermitsReleased DEF FinishWork
  <2>3. waiters' \in Seq(Jobs)
    BY <1>10 DEF FinishWork, StateOK
  <2>4. StateOK'
    BY <1>10, <2>3 DEF FinishWork, StateOK, FutureStates, ThreadStates, Results, ClosureAfterQueue, TokensCancelled, InClosure
  <2>5. QED
    BY <2>2, <2>4, JoinInv
<1>11. ASSUME NEW j \in Jobs, Join(j)
      PROVE  IInv'
  <2>1. AdmittedJobs' = AdmittedJobs /\ RunningJobs' = RunningJobs
    BY <1>11 DEF Join, AdmittedJobs, RunningJobs, InFuture, InClosure, StateOK, ClosureAfterQueue
  <2>2. PermitsOK'
    BY <1>11, <2>1, PermitsKept DEF Join
  <2>3. waiters' \in Seq(Jobs)
    BY <1>11 DEF Join, StateOK
  <2>4. StateOK'
    BY <1>11, <2>3 DEF Join, StateOK, FutureStates, ThreadStates, Results, ClosureAfterQueue, TokensCancelled, InClosure, Outcome, Returned
  <2>5. QED
    BY <2>2, <2>4, JoinInv
<1>12. ASSUME NEW j \in Jobs, Drop(j)
      PROVE  IInv'
  <2>1. ASSUME pc[j] = "waiting" PROVE PermitsOK'
    <3>1. /\ j \in AdmittedJobs
          /\ AdmittedJobs' = AdmittedJobs \ {j}
          /\ RunningJobs' = RunningJobs
      BY <1>12, <2>1 DEF Drop, AdmittedJobs, RunningJobs, InFuture, InClosure, StateOK, ClosureAfterQueue
    <3>2. admitted' = admitted + 1 /\ running' = running
      BY <1>12, <2>1 DEF Drop, InFuture
    <3>3. QED
      BY <3>1, <3>2, PermitReturned
  <2>2. ASSUME pc[j] = "joining" PROVE PermitsOK'
    <3>1. AdmittedJobs' = AdmittedJobs /\ RunningJobs' = RunningJobs
      BY <1>12, <2>2 DEF Drop, AdmittedJobs, RunningJobs, InFuture, InClosure, StateOK
    <3>2. admitted' = admitted /\ running' = running
      BY <1>12, <2>2 DEF Drop, InFuture
    <3>3. QED
      BY <3>1, <3>2, PermitsKept
  <2>3. PermitsOK'
    BY <1>12, <2>1, <2>2 DEF Drop
  <2>4. waiters' \in Seq(Jobs)
    BY <1>12, WithoutType DEF Drop, StateOK
  <2>5. StateOK'
    BY <1>12, <2>4 DEF Drop, StateOK, FutureStates, ThreadStates, Results, ClosureAfterQueue, TokensCancelled, InClosure
  <2>6. QED
    BY <2>3, <2>5, JoinInv
<1>13. ASSUME Shutdown
       PROVE  IInv'
  <2>1. PermitsOK'
    BY <1>13, PermitsKept DEF Shutdown, AdmittedJobs, RunningJobs, InFuture, InClosure
  <2>2. StateOK'
    BY <1>13 DEF Shutdown, StateOK, ClosureAfterQueue, TokensCancelled, InClosure
  <2>3. QED
    BY <2>1, <2>2, JoinInv
<1>14. ASSUME UNCHANGED vars
       PROVE  IInv'
  <2>1. PermitsOK'
    BY <1>14, PermitsKept DEF vars, AdmittedJobs, RunningJobs, InFuture, InClosure
  <2>2. StateOK'
    BY <1>14 DEF vars, StateOK, ClosureAfterQueue, TokensCancelled, InClosure
  <2>3. QED
    BY <2>1, <2>2, JoinInv
<1>15. QED
  BY <1>2, <1>3, <1>4, <1>5, <1>6, <1>7, <1>8, <1>9, <1>10, <1>11, <1>12, <1>13, <1>14
     DEF Next, Future, Closure

(* The inductive invariant holds in every reachable state. *)
THEOREM Inductive == Spec => []IInv
<1>1. Spec => Init /\ [][Next]_vars
  BY DEF Spec
<1>2. QED
  BY <1>1, InitIInv, NextIInv, PTL

(* Type correctness of the pool, for every number of jobs and every limit. *)
THEOREM TypeCorrect == Spec => []TypeOK
<1>1. IInv => TypeOK
  BY DEF IInv
<1>2. QED
  BY <1>1, Inductive, PTL

(* No permit is lost and none is owned twice, although futures are dropped *)
(* at any await while their closures go on (HeavyWork::run).               *)
THEOREM SlotsAlwaysAccounted == Spec => []SlotsAccounted
<1>1. IInv => SlotsAccounted
  BY DEF IInv
<1>2. QED
  BY <1>1, Inductive, PTL

(* The limits of HeavyWorkLimits hold whatever is cancelled: at most       *)
(* `running` closures execute and at most `running + queued` jobs are in   *)
(* the pool.                                                               *)
THEOREM LoadAlwaysBounded == Spec => []LoadBounded
<1>1. IInv => LoadBounded
  <2> SUFFICES ASSUME IInv
               PROVE  LoadBounded
    OBVIOUS
  <2> DEFINE W == {j \in Jobs : thread[j] = "working"}
  <2>1. W \in SUBSET RunningJobs
    BY DEF RunningJobs, InClosure
  <2>2. IsFiniteSet(W) /\ Cardinality(W) <= Cardinality(RunningJobs)
    BY <2>1, OwnersFinite, FS_Subset
  <2>3. Cardinality(W) \in Nat
    BY <2>2, FS_CardinalityType
  <2>4. Capacity \in Nat /\ Running \in Nat
    BY LimitsAssumption DEF Capacity
  <2>5. Cardinality(RunningJobs) <= Running /\ Cardinality(AdmittedJobs) <= Capacity
    BY <2>4, SplitInv, OwnersFinite
       DEF PermitsOK, SlotsAccounted, RunningJobs, AdmittedJobs
  <2>6. Cardinality(W) <= Running
    BY <2>2, <2>3, <2>4, <2>5, OwnersFinite
  <2>7. QED
    BY <2>5, <2>6 DEF LoadBounded, AdmittedJobs
<1>2. QED
  BY <1>1, Inductive, PTL

(* HeavyWork::run never delivers a result to a dropped request or after a  *)
(* shutdown.                                                               *)
THEOREM NeverDeliveredAfterCancellation == Spec => NoDeliveryAfterCancellation
<1> DEFINE Step == \A j \in Jobs :
                      result[j] # "Ok" /\ result'[j] = "Ok"
                          => ~shutdown /\ pc[j] # "dropped" /\ thread[j] = "value"
<1>1. IInv /\ [Next]_vars => [Step]_vars
  <2> SUFFICES ASSUME IInv, Next, NEW j \in Jobs, result[j] # "Ok", result'[j] = "Ok"
               PROVE  ~shutdown /\ pc[j] # "dropped" /\ thread[j] = "value"
    OBVIOUS
  <2>1. result \in [Jobs -> Results]
    BY DEF IInv, TypeOK
  <2>2. PICK k \in Jobs : Reject(k) \/ CancelWaiting(k) \/ Join(k)
    BY DEF Next, Future, Closure, Admit, PollPermit, Pending, Acquire, StartWork,
           SkipWork, FinishWork, Drop, Shutdown
  <2>3. Join(k) /\ k = j
    BY <2>1, <2>2 DEF Reject, CancelWaiting, Join
  <2>4. Outcome(j) = "Ok"
    BY <2>1, <2>3 DEF Join
  <2>5. pc[j] = "joining" /\ thread[j] = "value" /\ j \notin cancelled
    BY <2>3, <2>4 DEF Join, Outcome, Returned
  <2>6. QED
    BY <2>5 DEF IInv, TokensCancelled
<1>2. QED
  BY <1>1, Inductive, PTL DEF Spec, NoDeliveryAfterCancellation

(* Once the pool is shut down no closure begins its work, not even one     *)
(* that already owns its slots.                                            *)
THEOREM NeverStartedAfterShutdown == Spec => NoWorkStartsAfterShutdown
<1> DEFINE Step == \A j \in Jobs :
                      thread[j] # "working" /\ thread'[j] = "working" => ~shutdown
<1>1. IInv /\ [Next]_vars => [Step]_vars
  <2> SUFFICES ASSUME IInv, Next, NEW j \in Jobs,
                      thread[j] # "working", thread'[j] = "working"
               PROVE  ~shutdown
    OBVIOUS
  <2>1. thread \in [Jobs -> ThreadStates]
    BY DEF IInv, TypeOK
  <2>2. PICK k \in Jobs : Acquire(k) \/ StartWork(k) \/ SkipWork(k) \/ FinishWork(k)
    BY DEF Next, Future, Closure, Reject, Admit, CancelWaiting, PollPermit, Pending,
           Join, Drop, Shutdown
  <2>3. StartWork(k) /\ k = j
    BY <2>1, <2>2 DEF Acquire, StartWork, SkipWork, FinishWork
  <2>4. pc[j] \in {"joining", "dropped"} /\ j \notin cancelled
    BY <2>3 DEF StartWork, IInv, ClosureAfterQueue, InClosure
  <2>5. QED
    BY <2>4 DEF IInv, TokensCancelled
<1>2. QED
  BY <1>1, Inductive, PTL DEF Spec, NoWorkStartsAfterShutdown

-----------------------------------------------------------------------------
(* The refinement.  What is outside, inside and working in the pool is     *)
(* told apart by where the future and the closure of a job are.            *)

(* A token is cancelled for a reason, and an answer is final. *)
Reasons ==
    /\ \A j \in cancelled : shutdown \/ pc[j] = "dropped"
    /\ \A j \in Jobs : result[j] # "none" => pc[j] = "answered"
    /\ \A j \in Jobs : pc[j] = "answered" => result[j] # "none"
    /\ \A j \in Jobs : result[j] = "Overloaded" => thread[j] = "none"

LEMMA ReasonsInductive == Spec => []Reasons
<1>1. Init => Reasons
  BY DEF Init, Reasons
<1>2. IInv /\ Reasons /\ [Next]_vars => Reasons'
  <2> SUFFICES ASSUME IInv, Reasons, [Next]_vars PROVE Reasons'
    OBVIOUS
  <2> USE DEF IInv, TypeOK, Reasons, ClosureAfterQueue
  <2>1. ASSUME NEW j \in Jobs, Reject(j) PROVE Reasons'
    BY <2>1 DEF Reject
  <2>2. ASSUME NEW j \in Jobs, Admit(j) PROVE Reasons'
    BY <2>2 DEF Admit
  <2>3. ASSUME NEW j \in Jobs, CancelWaiting(j) PROVE Reasons'
    BY <2>3 DEF CancelWaiting
  <2>4. ASSUME NEW j \in Jobs, PollPermit(j) \/ Pending(j) \/ Acquire(j) PROVE Reasons'
    BY <2>4 DEF PollPermit, Pending, Acquire
  <2>5. ASSUME NEW j \in Jobs, Join(j) PROVE Reasons'
    BY <2>5 DEF Join, Outcome, Returned
  <2>6. ASSUME NEW j \in Jobs, Closure(j) PROVE Reasons'
    BY <2>6 DEF Closure, StartWork, SkipWork, FinishWork
  <2>7. ASSUME NEW j \in Jobs, Drop(j) PROVE Reasons'
    BY <2>7 DEF Drop
  <2>8. CASE Shutdown
    BY <2>8 DEF Shutdown
  <2>9. CASE UNCHANGED vars
    BY <2>9 DEF vars
  <2>10. QED
    BY <2>1, <2>2, <2>3, <2>4, <2>5, <2>6, <2>7, <2>8, <2>9 DEF Next, Future
<1>3. QED
  BY <1>1, <1>2, Inductive, PTL DEF Spec

(* The pool counts as this module does. *)
LEMMA SameCardinality == \A S : Pool!Cardinality(S) = Cardinality(S)
BY DEF Pool!Cardinality, Cardinality

LEMMA InsideAndWorking ==
    ASSUME IInv, Reasons
    PROVE  Pool!Inside = AdmittedJobs /\ Pool!Working = {j \in Jobs : thread[j] = "working"}
BY DEF IInv, Reasons, ClosureAfterQueue, Pool!Inside, Pool!Working, AdmittedJobs,
       Place, InFuture, InClosure

(* The places after a step that moves one job, or none. *)
Moves(j, to) == \A k \in Jobs : Place(k)' = IF k = j THEN to ELSE Place(k)

LEMMA MovesPlace ==
    ASSUME NEW j \in Jobs, NEW to, Moves(j, to)
    PROVE  [k \in Jobs |-> Place(k)]' = [[k \in Jobs |-> Place(k)] EXCEPT ![j] = to]
BY DEF Moves

Stays == \A k \in Jobs : Place(k)' = Place(k)

LEMMA StaysPlace ==
    ASSUME Stays PROVE [k \in Jobs |-> Place(k)]' = [k \in Jobs |-> Place(k)]
BY DEF Stays

LEMMA StepRefines ==
    ASSUME IInv, Reasons, [Next]_vars PROVE [Pool!Next]_(Pool!vars)
<1> DEFINE gone == {k \in Jobs : pc[k] = "dropped"}
<1> USE DEF IInv, TypeOK, Reasons, ClosureAfterQueue
<1>0. Capacity \in Nat /\ Running \in Nat
  BY LimitsAssumption DEF Capacity
<1>1. ASSUME NEW j \in Jobs, Reject(j) PROVE Pool!Refuse(j)
  <2>1. Pool!Cardinality(Pool!Inside) = Capacity
    <3>1. admitted + Cardinality(AdmittedJobs) = Capacity
      BY DEF SlotsAccounted, AdmittedJobs
    <3>2. QED
      BY <1>0, <1>1, <3>1, OwnersFinite, InsideAndWorking, SameCardinality DEF Reject
  <2>2. gone' = gone
    BY <1>1 DEF Reject
  <2>3. Place(j) = "outside" /\ Stays
    BY <1>1 DEF Reject, Place, Stays, InFuture
  <2>4. QED
    BY <1>1, <2>1, <2>2, <2>3, StaysPlace DEF Reject, Pool!Refuse
<1>2. ASSUME NEW j \in Jobs, Admit(j) PROVE Pool!Accept(j)
  <2>1. Pool!Cardinality(Pool!Inside) < Capacity
    <3>1. admitted + Cardinality(AdmittedJobs) = Capacity
      BY DEF SlotsAccounted, AdmittedJobs
    <3>2. QED
      BY <1>0, <1>2, <3>1, OwnersFinite, InsideAndWorking, SameCardinality DEF Admit
  <2>2. gone' = gone
    BY <1>2 DEF Admit
  <2>3. Place(j) = "outside" /\ Moves(j, "accepted")
    BY <1>2 DEF Admit, Place, Moves, InFuture
  <2>4. QED
    BY <1>2, <2>1, <2>2, <2>3, MovesPlace DEF Admit, Pool!Accept
<1>3. ASSUME NEW j \in Jobs, CancelWaiting(j) PROVE Pool!Leave(j)
  <2>1. gone' = gone /\ shutdown /\ j \notin gone
    BY <1>3 DEF CancelWaiting
  <2>2. Place(j) = "accepted" /\ Moves(j, "left")
    BY <1>3 DEF CancelWaiting, Place, Moves, InFuture
  <2>3. QED
    BY <1>3, <2>1, <2>2, MovesPlace DEF CancelWaiting, Pool!Leave, Pool!Unwanted
<1>4. ASSUME NEW j \in Jobs, PollPermit(j) \/ Pending(j) \/ Acquire(j)
      PROVE  UNCHANGED Pool!vars
  <2>1. gone' = gone /\ UNCHANGED <<result, shutdown>>
    BY <1>4 DEF PollPermit, Pending, Acquire
  <2>2. \A k \in Jobs : Place(k)' = Place(k)
    BY <1>4 DEF PollPermit, Pending, Acquire, Place, InFuture
  <2>3. QED
    BY <2>1, <2>2 DEF Pool!vars
<1>5. ASSUME NEW j \in Jobs, Join(j) PROVE Pool!Answer(j)
  <2>1. gone' = gone /\ j \notin gone /\ result[j] = "none" /\ UNCHANGED shutdown
    BY <1>5 DEF Join
  <2>2. j \in cancelled <=> shutdown
    BY <1>5 DEF Join, TokensCancelled
  <2>3. Outcome(j) = Pool!AnswerOf(j)
    BY <1>5, <2>1, <2>2 DEF Join, Outcome, Pool!AnswerOf, Place, InFuture, Returned
  <2>4. Place(j) \in {"done", "failed", "left"} /\ Stays
    BY <1>5, <2>1 DEF Join, Outcome, Place, Stays, InFuture, Returned
  <2>5. QED
    BY <1>5, <2>1, <2>3, <2>4, StaysPlace DEF Join, Pool!Answer
<1>6. ASSUME NEW j \in Jobs, StartWork(j) PROVE Pool!Begin(j)
  <2>1. gone' = gone /\ ~shutdown /\ j \notin gone
    BY <1>6 DEF StartWork, TokensCancelled, InClosure
  <2>2. Pool!Working \subseteq RunningJobs \ {j} /\ j \in RunningJobs
    BY <1>6, InsideAndWorking DEF StartWork, RunningJobs, InClosure
  <2>3. Cardinality(RunningJobs \ {j}) = Cardinality(RunningJobs) - 1
    BY <2>2, OwnersFinite, FS_RemoveElement
  <2>4. IsFiniteSet(RunningJobs \ {j})
    BY OwnersFinite, FS_RemoveElement
  <2>5. /\ Cardinality(Pool!Working) <= Cardinality(RunningJobs \ {j})
        /\ Cardinality(Pool!Working) \in Nat
    BY <2>2, <2>4, FS_Subset, FS_CardinalityType
  <2>6. Cardinality(RunningJobs) <= Running
    BY <1>0, OwnersFinite DEF SlotsAccounted, RunningJobs
  <2>7. Pool!Cardinality(Pool!Working) < Running
    BY <1>0, <2>3, <2>5, <2>6, OwnersFinite, SameCardinality
  <2>8. Place(j) = "accepted" /\ Moves(j, "working")
    BY <1>6 DEF StartWork, Place, Moves, InFuture, InClosure
  <2>9. QED
    BY <1>6, <2>1, <2>7, <2>8, MovesPlace DEF StartWork, Pool!Begin, Pool!Unwanted
<1>7. ASSUME NEW j \in Jobs, SkipWork(j) PROVE Pool!Leave(j)
  <2>1. gone' = gone /\ (shutdown \/ j \in gone)
    BY <1>7 DEF SkipWork
  <2>2. Place(j) = "accepted" /\ Moves(j, "left")
    BY <1>7 DEF SkipWork, Place, Moves, InFuture, InClosure
  <2>3. QED
    BY <1>7, <2>1, <2>2, MovesPlace DEF SkipWork, Pool!Leave, Pool!Unwanted
<1>8. ASSUME NEW j \in Jobs, FinishWork(j) PROVE Pool!End(j)
  <2>1. gone' = gone
    BY <1>8 DEF FinishWork
  <2>2. Place(j) = "working" /\ (Moves(j, "done") \/ Moves(j, "failed"))
    BY <1>8 DEF FinishWork, Place, Moves, InFuture, InClosure
  <2>3. \A to : Moves(j, to) => [k \in Jobs |-> Place(k)]' = [[k \in Jobs |-> Place(k)] EXCEPT ![j] = to]
    BY MovesPlace
  <2>4. QED
    BY <1>8, <2>1, <2>2, <2>3 DEF FinishWork, Pool!End
<1>9. ASSUME NEW j \in Jobs, Drop(j) PROVE Pool!Abandon(j)
  <2>1. gone' = gone \cup {j} /\ j \notin gone /\ result[j] = "none"
    BY <1>9 DEF Drop
  <2>2. \/ Stays /\ Place(j) # "outside"
        \/ Moves(j, "left") /\ Place(j) = "accepted"
    BY <1>9, <2>1 DEF Drop, Place, Moves, Stays, InFuture
  <2>3. UNCHANGED <<result, shutdown>>
    BY <1>9 DEF Drop
  <2>4. CASE Stays /\ Place(j) # "outside"
    BY <2>1, <2>3, <2>4, StaysPlace DEF Pool!Abandon
  <2>5. CASE Moves(j, "left") /\ Place(j) = "accepted"
    BY <2>1, <2>3, <2>5, MovesPlace DEF Pool!Abandon
  <2>6. QED
    BY <2>2, <2>4, <2>5
<1>10. CASE Shutdown
  <2>1. \A k \in Jobs : Place(k)' = Place(k)
    BY <1>10 DEF Shutdown, Place, InFuture
  <2>2. Pool!Close
    BY <1>10, <2>1 DEF Shutdown, Pool!Close
  <2>3. QED
    BY <2>2 DEF Pool!Next
<1>11. CASE UNCHANGED vars
  BY <1>11 DEF vars, Pool!vars, Place, InFuture
<1>12. QED
  BY <1>1, <1>2, <1>3, <1>4, <1>5, <1>6, <1>7, <1>8, <1>9, <1>10, <1>11
     DEF Next, Future, Closure, Pool!Next

(* HeavyWork::run implements the abstract pool for every set of jobs and   *)
(* every limit: seen from outside, its futures, closures, tokens and       *)
(* permits do what WorkPool says and nothing else.                         *)
THEOREM PoolImplemented == Spec => ImplementsPool
<1>1. Init => Pool!Init
  BY DEF Init, Pool!Init, Place
<1>2. QED
  BY <1>1, StepRefines, Inductive, ReasonsInductive, PTL DEF Spec, ImplementsPool, Pool!Spec
=============================================================================
