----------------------------- MODULE HeavyWork -----------------------------
(***************************************************************************)
(* The bounded pool of heavy jobs of one server (src/blocking.rs).         *)
(*                                                                         *)
(* A job is one call of HeavyWork::run.  It has two sides that live and    *)
(* die independently: the request's future, which may be dropped at any    *)
(* await, and the closure given to spawn_blocking, which cannot be stopped *)
(* from outside and which owns the two semaphore permits of the job.       *)
(***************************************************************************)
EXTENDS Integers, Sequences, FiniteSets

CONSTANTS
    Jobs,      \* calls of HeavyWork::run, each made at most once
    Running,   \* HeavyWorkLimits.running
    Queued     \* HeavyWorkLimits.queued

ASSUME JobsAssumption == IsFiniteSet(Jobs)
ASSUME LimitsAssumption == Running \in Nat \ {0} /\ Queued \in Nat

VARIABLES
    pc,         \* where the future of each job is
    thread,     \* what the blocking closure of each job does
    cancelled,  \* jobs whose cancellation token is cancelled
    shutdown,   \* whether the pool's own token is cancelled
    admitted,   \* free permits of Slots.admitted
    running,    \* free permits of Slots.running
    waiters,    \* FIFO queue of the futures waiting for Slots.running
    result      \* what HeavyWork::run returned

vars == <<pc, thread, cancelled, shutdown, admitted, running, waiters, result>>

Capacity == Running + Queued

FutureStates == {"new", "waiting", "polling", "joining", "answered", "dropped"}
ThreadStates == {"none", "spawned", "working", "value", "skipped", "panicked"}
Results == {"none", "Ok", "Overloaded", "Cancelled", "Failed"}

Returned == {"value", "skipped", "panicked"}

(* The closure owns both permits from spawn_blocking until it returns; the *)
(* future owns the admission permit before that.                           *)
InClosure(j) == thread[j] \in {"spawned", "working"}
InFuture(j) == pc[j] \in {"waiting", "polling"}

(* HeavyWork::active_jobs *)
ActiveJobs == Capacity - admitted

(* Dropping an Acquire future takes it out of the queue it stands in. *)
Without(seq, j) ==
    IF \E i \in DOMAIN seq : seq[i] = j
    THEN LET place == CHOOSE i \in DOMAIN seq : seq[i] = j
         IN  [i \in 1 .. (Len(seq) - 1) |-> IF i < place THEN seq[i] ELSE seq[i + 1]]
    ELSE seq

Init ==
    /\ pc = [j \in Jobs |-> "new"]
    /\ thread = [j \in Jobs |-> "none"]
    /\ cancelled = {}
    /\ shutdown = FALSE
    /\ admitted = Capacity
    /\ running = Running
    /\ waiters = <<>>
    /\ result = [j \in Jobs |-> "none"]

-----------------------------------------------------------------------------
(* try_acquire_owned fails: the job is not accepted. *)
Reject(j) ==
    /\ pc[j] = "new"
    /\ admitted = 0
    /\ pc' = [pc EXCEPT ![j] = "answered"]
    /\ result' = [result EXCEPT ![j] = "Overloaded"]
    /\ UNCHANGED <<thread, cancelled, shutdown, admitted, running, waiters>>

(* The job takes an admission permit and a child of the shutdown token,    *)
(* which is born cancelled when the pool is shut down.                     *)
Admit(j) ==
    /\ pc[j] = "new"
    /\ admitted > 0
    /\ admitted' = admitted - 1
    /\ pc' = [pc EXCEPT ![j] = "waiting"]
    /\ cancelled' = IF shutdown THEN cancelled \union {j} ELSE cancelled
    /\ UNCHANGED <<thread, shutdown, running, waiters, result>>

(* The semaphore hands permits to its waiters in order, and a newcomer     *)
(* never overtakes them.                                                   *)
PermitFor(j) ==
    /\ running > 0
    /\ \/ waiters = <<>>
       \/ waiters # <<>> /\ Head(waiters) = j

Queueing(j) == \E i \in DOMAIN waiters : waiters[i] = j

(* The select is polled first when it is created, then whenever the token  *)
(* is cancelled or a permit is there.  It is biased: the token comes first.*)
CancelWaitingKeepingPermit(j) ==   \* mutant: the admission permit leaks
    /\ pc[j] = "waiting"
    /\ j \in cancelled
    /\ pc' = [pc EXCEPT ![j] = "answered"]
    /\ result' = [result EXCEPT ![j] = "Cancelled"]
    /\ waiters' = Without(waiters, j)
    /\ UNCHANGED <<thread, cancelled, shutdown, admitted, running>>

CancelWaiting(j) ==
    /\ pc[j] = "waiting"
    /\ j \in cancelled
    /\ pc' = [pc EXCEPT ![j] = "answered"]
    /\ result' = [result EXCEPT ![j] = "Cancelled"]
    /\ admitted' = admitted + 1
    /\ waiters' = Without(waiters, j)
    /\ UNCHANGED <<thread, cancelled, shutdown, running>>

PollPermit(j) ==
    /\ pc[j] = "waiting"
    /\ j \notin cancelled
    /\ Queueing(j) => PermitFor(j)
    /\ pc' = [pc EXCEPT ![j] = "polling"]
    /\ UNCHANGED <<thread, cancelled, shutdown, admitted, running, waiters, result>>

(* The token may be cancelled between the two branches of one poll.        *)
Pending(j) ==
    /\ pc[j] = "polling"
    /\ ~PermitFor(j)
    /\ pc' = [pc EXCEPT ![j] = "waiting"]
    /\ waiters' = IF Queueing(j) THEN waiters ELSE Append(waiters, j)
    /\ UNCHANGED <<thread, cancelled, shutdown, admitted, running, result>>

Acquire(j) ==
    /\ pc[j] = "polling"
    /\ PermitFor(j)
    /\ running' = running - 1
    /\ waiters' = Without(waiters, j)
    /\ pc' = [pc EXCEPT ![j] = "joining"]
    /\ thread' = [thread EXCEPT ![j] = "spawned"]
    /\ UNCHANGED <<cancelled, shutdown, admitted, result>>

-----------------------------------------------------------------------------
ReleaseSlots ==
    /\ admitted' = admitted + 1
    /\ running' = running + 1

(* Mutant: the closure keeps its permits. *)
SkipWorkKeepingSlots(j) ==
    /\ thread[j] = "spawned"
    /\ j \in cancelled
    /\ thread' = [thread EXCEPT ![j] = "skipped"]
    /\ UNCHANGED <<pc, cancelled, shutdown, admitted, running, waiters, result>>

(* The closure runs `work` only if the job was not cancelled meanwhile.    *)
StartWork(j) ==
    /\ thread[j] = "spawned"
    /\ j \notin cancelled
    /\ thread' = [thread EXCEPT ![j] = "working"]
    /\ UNCHANGED <<pc, cancelled, shutdown, admitted, running, waiters, result>>

SkipWork(j) ==
    /\ thread[j] = "spawned"
    /\ j \in cancelled
    /\ thread' = [thread EXCEPT ![j] = "skipped"]
    /\ ReleaseSlots
    /\ UNCHANGED <<pc, cancelled, shutdown, waiters, result>>

(* `work` returns a value, also when it stopped at a checkpoint, or panics. *)
FinishWork(j) ==
    /\ thread[j] = "working"
    /\ \E end \in {"value", "panicked"} : thread' = [thread EXCEPT ![j] = end]
    /\ ReleaseSlots
    /\ UNCHANGED <<pc, cancelled, shutdown, waiters, result>>

(* What run makes of the finished closure: a value is delivered only while *)
(* the token is not cancelled.                                             *)
Outcome(j) ==
    CASE thread[j] = "value" /\ j \notin cancelled -> "Ok"
      [] thread[j] = "panicked" -> "Failed"
      [] OTHER -> "Cancelled"

Join(j) ==
    /\ pc[j] = "joining"
    /\ thread[j] \in Returned
    /\ pc' = [pc EXCEPT ![j] = "answered"]
    /\ result' = [result EXCEPT ![j] = Outcome(j)]
    /\ UNCHANGED <<thread, cancelled, shutdown, admitted, running, waiters>>

-----------------------------------------------------------------------------
(* Mutant: a dropped request keeps its place in the queue. *)
DropStayingQueued(j) ==
    /\ pc[j] \in {"waiting", "joining"}
    /\ pc' = [pc EXCEPT ![j] = "dropped"]
    /\ cancelled' = cancelled \union {j}
    /\ admitted' = IF InFuture(j) THEN admitted + 1 ELSE admitted
    /\ UNCHANGED <<thread, shutdown, running, waiters, result>>

(* The request is dropped at an await.  The drop guard cancels the token;  *)
(* a waiting future gives back its permit and its place in the queue, a    *)
(* joining one only detaches the closure.                                  *)
Drop(j) ==
    /\ pc[j] \in {"waiting", "joining"}
    /\ pc' = [pc EXCEPT ![j] = "dropped"]
    /\ cancelled' = cancelled \union {j}
    /\ admitted' = IF InFuture(j) THEN admitted + 1 ELSE admitted
    /\ waiters' = Without(waiters, j)
    /\ UNCHANGED <<thread, shutdown, running, result>>

(* HeavyWork::shutdown cancels the parent of every job's token. *)
Shutdown ==
    /\ ~shutdown
    /\ shutdown' = TRUE
    /\ cancelled' = cancelled \union {j \in Jobs : pc[j] # "new"}
    /\ UNCHANGED <<pc, thread, admitted, running, waiters, result>>

Future(j) ==
    \/ CancelWaiting(j) \/ PollPermit(j) \/ Pending(j) \/ Acquire(j) \/ Join(j)

Closure(j) == StartWork(j) \/ SkipWork(j) \/ FinishWork(j)

Next ==
    \/ \E j \in Jobs : Reject(j) \/ Admit(j) \/ Future(j) \/ Closure(j) \/ Drop(j)
    \/ Shutdown

(* The runtime polls woken futures and runs spawned closures, and a heavy  *)
(* closure ends: its loops are finite and stop early at checkpoints.       *)
(* Nothing obliges a client to call, to cancel or to shut down.            *)
Fairness == \A j \in Jobs : WF_vars(Future(j)) /\ WF_vars(Closure(j))

Spec == Init /\ [][Next]_vars /\ Fairness

-----------------------------------------------------------------------------
TypeOK ==
    /\ pc \in [Jobs -> FutureStates]
    /\ thread \in [Jobs -> ThreadStates]
    /\ cancelled \subseteq Jobs
    /\ shutdown \in BOOLEAN
    /\ admitted \in 0 .. Capacity
    /\ running \in 0 .. Running
    /\ waiters \in Seq(Jobs)
    /\ result \in [Jobs -> Results]

(* Every permit is free or owned by exactly one job: by its future, or by  *)
(* its closure, also when the request that started it is long gone.        *)
(* active_jobs documents exactly this count.                               *)
SlotsAccounted ==
    /\ admitted + Cardinality({j \in Jobs : InFuture(j) \/ InClosure(j)}) = Capacity
    /\ running + Cardinality({j \in Jobs : InClosure(j)}) = Running

(* Never more closures execute than `running`, and never more jobs are in  *)
(* the pool than `running` and `queued` together, whatever was dropped.    *)
LoadBounded ==
    /\ Cardinality({j \in Jobs : thread[j] = "working"}) <= Running
    /\ Cardinality({j \in Jobs : InFuture(j) \/ InClosure(j)}) <= Capacity

(* HeavyWork::run's promise that a result is never delivered after         *)
(* cancellation: neither to a dropped request nor after a shutdown.        *)
NoDeliveryAfterCancellation ==
    [][\A j \in Jobs :
          result[j] # "Ok" /\ result'[j] = "Ok"
              => ~shutdown /\ pc[j] # "dropped" /\ thread[j] = "value"]_vars

(* HeavyWork::shutdown's promise that no new job starts: from then on no   *)
(* closure begins its work, not even one that already has its slots.       *)
NoWorkStartsAfterShutdown ==
    [][\A j \in Jobs :
          thread[j] # "working" /\ thread'[j] = "working" => ~shutdown]_vars

(* An accepted job is answered, unless its request goes away: no wake-up   *)
(* of the queue is lost when a job before it is dropped or cancelled.      *)
AcceptedIsAnswered ==
    \A j \in Jobs : pc[j] = "waiting" ~> pc[j] \in {"answered", "dropped"}

(* After a shutdown every slot comes back, also the slots of closures      *)
(* whose requests are gone.                                                *)
ShutdownDrains == shutdown ~> (admitted = Capacity /\ running = Running)

-----------------------------------------------------------------------------
(* A job has its place in the pool until its closure returns, or until it  *)
(* leaves the queue.                                                       *)
Place(j) ==
    IF pc[j] = "new" \/ result[j] = "Overloaded" THEN "outside"
    ELSE IF InFuture(j) \/ thread[j] = "spawned" THEN "accepted"
    ELSE IF thread[j] = "working" THEN "working"
    ELSE IF thread[j] = "value" THEN "done"
    ELSE IF thread[j] = "panicked" THEN "failed"
    ELSE "left"

Pool == INSTANCE WorkPool WITH
            place <- [j \in Jobs |-> Place(j)],
            answer <- result,
            gone <- {j \in Jobs : pc[j] = "dropped"},
            closed <- shutdown

(* Seen from outside, HeavyWork::run does what WorkPool promises: a caller *)
(* is refused only when the pool is full, no more jobs work than may, what *)
(* nobody wants any more neither begins nor is delivered.                  *)
ImplementsPool == Pool!Spec
=============================================================================
