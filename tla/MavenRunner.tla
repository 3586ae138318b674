----------------------------- MODULE MavenRunner -----------------------------
(***************************************************************************)
(* How Maven is run (src/project.rs): one permit for the whole server, a   *)
(* child in a process group of its own, a deadline, the readers of its     *)
(* output, the cleanup of the group, and the files that focused tests and  *)
(* effective POM requests exchange with it.                                *)
(*                                                                         *)
(* A run is one call.  Its child may start processes of three kinds: in    *)
(* its group and writing to its pipes, in its group with an output of      *)
(* their own, and outside the group but still holding the pipes.  All runs *)
(* are in one project; the contents of its report and POM files are the    *)
(* run that wrote them.  A process that was killed does nothing but die.   *)
(***************************************************************************)
EXTENDS Integers, Sequences

CONSTANTS
    Runs,         \* the calls, each made once
    Kinds,        \* among "plain", "test" (focused test) and "pom" (effective POM)
    MaxAttempts,  \* MAX_ATTEMPTS of spawn_maven
    None

ASSUME RunnerAssumption == MaxAttempts \in Nat \ {0} /\ None \notin Runs

VARIABLES
    permit,    \* run that holds the permit, or None
    queue,     \* runs that wait for it
    kind,      \* what each run is, "none" before and after
    pc,        \* where it is
    attempt,   \* attempts of spawn_maven so far
    main,      \* its child: none, alive, dying or how it ended
    kids,      \* kinds of live processes its child started
    dying,     \* those among them that were killed
    waited,    \* wait_result
    output,    \* pipe_results
    timed_out,
    result,    \* MavenRunStatus
    got,       \* whose reports or effective POM the run returned
    snapshot,  \* report_snapshot
    report,    \* run that last wrote the test reports
    pom,       \* run that wrote the effective POM file, None when there is no file
    last,      \* run whose result is last_test_result
    cut,       \* history: processes were killed that still could write to the pipes
    tested     \* history: test run that last parsed its reports

call == <<kind, attempt, snapshot>>
child == <<main, kids, dying, cut>>
collected == <<waited, output, timed_out>>
files == <<report, pom>>
answers == <<result, got, last, tested>>
vars == <<permit, queue, pc, call, child, collected, files, answers>>

Ended == {"done", "dropped"}
Exits == {"ok", "failed", "killed"}
Grouped == {"child", "daemon"}
Started == Grouped \union {"escaped"}
Writing == {"child", "escaped"}

Init ==
    /\ permit = None /\ queue = <<>>
    /\ kind = [r \in Runs |-> "none"]
    /\ pc = [r \in Runs |-> "idle"]
    /\ attempt = [r \in Runs |-> 0]
    /\ main = [r \in Runs |-> "none"]
    /\ kids = [r \in Runs |-> {}] /\ dying = [r \in Runs |-> {}]
    /\ waited = [r \in Runs |-> "none"]
    /\ output = [r \in Runs |-> "open"]
    /\ timed_out = [r \in Runs |-> FALSE]
    /\ result = [r \in Runs |-> "none"]
    /\ got = [r \in Runs |-> None]
    /\ snapshot = [r \in Runs |-> None]
    /\ report = None /\ pom = None /\ last = None /\ tested = None
    /\ cut = [r \in Runs |-> FALSE]

Goto(r, step) == pc' = [pc EXCEPT ![r] = step]

(* killpg with SIGKILL *)
Kill(r) ==
    /\ main' = [main EXCEPT ![r] = IF @ = "alive" THEN "dying" ELSE @]
    /\ kids' = [kids EXCEPT ![r] = @ \ Grouped]
    /\ dying' = [dying EXCEPT ![r] = @ \union (kids[r] \intersect Grouped)]
    /\ cut' = [cut EXCEPT ![r] = @ \/ main[r] = "alive" \/ "child" \in kids[r]]

(* The call is over and its local variables go.  What it had killed, and   *)
(* what left its group, concerns nobody any more: such processes hold      *)
(* nothing but pipes that were closed.                                     *)
Forget(r) ==
    /\ kind' = [kind EXCEPT ![r] = "none"]
    /\ attempt' = [attempt EXCEPT ![r] = 0]
    /\ snapshot' = [snapshot EXCEPT ![r] = None]
    /\ waited' = [waited EXCEPT ![r] = "none"]
    /\ output' = [output EXCEPT ![r] = "open"]
    /\ timed_out' = [timed_out EXCEPT ![r] = FALSE]
    /\ result' = [result EXCEPT ![r] = "none"]
    /\ got' = [got EXCEPT ![r] = None]
    /\ cut' = [cut EXCEPT ![r] = FALSE]
    /\ dying' = [dying EXCEPT ![r] = {}]

Surviving(r) == /\ main' = [main EXCEPT ![r] = IF @ = "alive" THEN @ ELSE "none"]
                /\ kids' = [kids EXCEPT ![r] = @ \intersect Grouped]

-----------------------------------------------------------------------------
Call(r) ==
    /\ pc[r] = "idle"
    /\ \E k \in Kinds : kind' = [kind EXCEPT ![r] = k]
    /\ queue' = Append(queue, r)
    /\ Goto(r, "waiting")
    /\ UNCHANGED <<permit, attempt, snapshot, child, collected, files, answers>>

(* Mutant: earlier reports are not told from new ones. *)
AcquireWithoutSnapshot(r) ==
    /\ pc[r] = "waiting"
    /\ permit = None /\ queue # <<>> /\ Head(queue) = r
    /\ permit' = r
    /\ queue' = Tail(queue)
    /\ pom' = IF kind[r] = "pom" THEN None ELSE pom
    /\ Goto(r, "prepare")
    /\ UNCHANGED <<call, child, collected, report, answers>>

(* acquire_permit, then what the run prepares: a focused test remembers    *)
(* the reports, an effective POM request deletes an earlier output.        *)
Acquire(r) ==
    /\ pc[r] = "waiting"
    /\ permit = None /\ queue # <<>> /\ Head(queue) = r
    /\ permit' = r
    /\ queue' = Tail(queue)
    /\ snapshot' = [snapshot EXCEPT ![r] = IF kind[r] = "test" THEN report ELSE @]
    /\ pom' = IF kind[r] = "pom" THEN None ELSE pom
    /\ Goto(r, "prepare")
    /\ UNCHANGED <<kind, attempt, child, collected, report, answers>>

(* runner_error of a run without a child *)
Fail(r) ==
    /\ result' = [result EXCEPT ![r] = "runner_error"]
    /\ Goto(r, "finish")
    /\ UNCHANGED <<got, last, tested>>

(* run_child: validated_executable and configure_java_environment, whose   *)
(* jenv has a timeout of its own.                                          *)
Prepare(r) ==
    /\ pc[r] = "prepare"
    /\ \/ Goto(r, "spawn") /\ UNCHANGED answers
       \/ Fail(r)
    /\ UNCHANGED <<permit, queue, call, child, collected, files>>

(* spawn_maven *)
Spawn(r) ==
    /\ pc[r] = "spawn"
    /\ main' = [main EXCEPT ![r] = "alive"]
    /\ Goto(r, "running")
    /\ UNCHANGED <<permit, queue, call, kids, dying, cut, collected, files, answers>>

(* The executable is busy (ETXTBSY). *)
SpawnBusy(r) ==
    /\ pc[r] = "spawn"
    /\ attempt' = [attempt EXCEPT ![r] = @ + 1]
    /\ IF attempt[r] + 1 < MaxAttempts THEN UNCHANGED <<pc, answers>> ELSE Fail(r)
    /\ UNCHANGED <<permit, queue, kind, snapshot, child, collected, files>>

SpawnFails(r) ==
    /\ pc[r] = "spawn"
    /\ Fail(r)
    /\ UNCHANGED <<permit, queue, call, child, collected, files>>

-----------------------------------------------------------------------------
(* The processes of a run *)
Fork(r) ==
    /\ main[r] = "alive"
    /\ \E k \in Started \ (kids[r] \union dying[r]) :
          kids' = [kids EXCEPT ![r] = @ \union {k}]
    /\ UNCHANGED <<permit, queue, pc, call, main, dying, cut, collected, files, answers>>

Exit(r) ==
    /\ main[r] = "alive"
    /\ \E how \in {"ok", "failed"} : main' = [main EXCEPT ![r] = how]
    /\ UNCHANGED <<permit, queue, pc, call, kids, dying, cut, collected, files, answers>>

KidExits(r) ==
    /\ \E k \in kids[r] : kids' = [kids EXCEPT ![r] = @ \ {k}]
    /\ UNCHANGED <<permit, queue, pc, call, main, dying, cut, collected, files, answers>>

Die(r) ==
    /\ \/ /\ main[r] = "dying"
          /\ main' = [main EXCEPT ![r] = "killed"]
          /\ UNCHANGED dying
       \/ /\ \E k \in dying[r] : dying' = [dying EXCEPT ![r] = @ \ {k}]
          /\ UNCHANGED main
    /\ UNCHANGED <<permit, queue, pc, call, kids, cut, collected, files, answers>>

(* A process of the group that is running and was not killed. *)
Active(r) == main[r] = "alive" \/ kids[r] \intersect Grouped # {}

WriteFile(r) ==
    /\ Active(r)
    /\ \/ kind[r] = "pom" /\ pom' = r /\ UNCHANGED report
       \/ kind[r] # "pom" /\ report' = r /\ UNCHANGED pom
    /\ UNCHANGED <<permit, queue, pc, call, child, collected, answers>>

-----------------------------------------------------------------------------
(* The pipes are at their end when nobody can write to them any more.      *)
Eof(r) ==
    main[r] \in Exits /\ (kids[r] \union dying[r]) \intersect Writing = {}

CollectExit(r) ==
    /\ pc[r] \in {"running", "cleanup"}
    /\ waited[r] = "none"
    /\ main[r] \in Exits
    /\ waited' = [waited EXCEPT ![r] = main[r]]
    /\ UNCHANGED <<permit, queue, pc, call, child, output, timed_out, files, answers>>

(* read_bounded of both pipes; during cleanup the exit comes first. *)
CollectOutput(r) ==
    /\ pc[r] = "running" \/ (pc[r] = "cleanup" /\ waited[r] # "none")
    /\ output[r] = "open"
    /\ Eof(r)
    /\ output' = [output EXCEPT ![r] = "complete"]
    /\ UNCHANGED <<permit, queue, pc, call, child, waited, timed_out, files, answers>>

ReadFails(r) ==
    /\ pc[r] = "running" \/ (pc[r] = "cleanup" /\ waited[r] # "none")
    /\ output[r] = "open"
    /\ output' = [output EXCEPT ![r] = "error"]
    /\ UNCHANGED <<permit, queue, pc, call, child, waited, timed_out, files, answers>>

Collected(r) == waited[r] # "none" /\ output[r] # "open"

(* Mutant: a child that has exited is a success, however late. *)
StatusOfExit(r) ==
    IF waited[r] = "error" \/ output[r] = "error" THEN "runner_error"
    ELSE IF waited[r] = "ok" THEN "success"
    ELSE IF timed_out[r] THEN "timeout"
    ELSE "build_failure"

Status(r) ==
    IF waited[r] = "error" \/ output[r] = "error" THEN "runner_error"
    ELSE IF timed_out[r] THEN "timeout"
    ELSE IF waited[r] = "ok" THEN "success"
    ELSE "build_failure"

Conclude(r) ==
    /\ result' = [result EXCEPT ![r] = Status(r)]
    /\ Goto(r, "finish")
    /\ UNCHANGED <<got, last, tested>>

(* Everything is there before the deadline; what is left of the group goes. *)
Complete(r) ==
    /\ pc[r] = "running"
    /\ Collected(r)
    /\ Kill(r)
    /\ Conclude(r)
    /\ UNCHANGED <<permit, queue, call, collected, files>>

Deadline(r) ==
    /\ pc[r] = "running"
    /\ ~Collected(r)
    /\ timed_out' = [timed_out EXCEPT ![r] = TRUE]
    /\ Kill(r)
    /\ Goto(r, "cleanup")
    /\ UNCHANGED <<permit, queue, call, waited, output, files, answers>>

(* Mutant: only the exit has a limit, the readers are awaited. *)
CleanupDeadlineOfExit(r) ==
    /\ pc[r] = "cleanup"
    /\ waited[r] = "none"
    /\ waited' = [waited EXCEPT ![r] = "error"]
    /\ UNCHANGED <<permit, queue, pc, call, child, output, timed_out, files, answers>>

(* The second that the exit and the readers have after the kill is over.   *)
CleanupDeadline(r) ==
    /\ pc[r] = "cleanup"
    /\ ~Collected(r)
    /\ waited' = [waited EXCEPT ![r] = IF @ = "none" THEN "error" ELSE @]
    /\ output' = [output EXCEPT ![r] = IF @ = "open" THEN "empty" ELSE @]
    /\ UNCHANGED <<permit, queue, pc, call, child, timed_out, files, answers>>

(* Without an exit status the guard stays armed and kills once more. *)
Settle(r) ==
    /\ pc[r] = "cleanup"
    /\ Collected(r)
    /\ IF waited[r] = "error" THEN Kill(r) ELSE UNCHANGED child
    /\ Conclude(r)
    /\ UNCHANGED <<permit, queue, call, collected, files>>

-----------------------------------------------------------------------------
Return(r) ==
    /\ Goto(r, "done")
    /\ permit' = None
    /\ Forget(r)
    /\ Surviving(r)
    /\ UNCHANGED queue

(* updated_reports of a focused test, the output of an effective POM run.  *)
Obtained(r) ==
    IF kind[r] = "test" /\ report # snapshot[r] THEN report
    ELSE IF kind[r] = "pom" THEN pom
    ELSE None

(* Mutant: the permit is given back before the result is saved. *)
FinishReleasing(r) ==
    /\ pc[r] = "finish"
    /\ got' = [got EXCEPT ![r] = Obtained(r)]
    /\ tested' = IF kind[r] = "test" THEN r ELSE tested
    /\ permit' = None
    /\ Goto(r, "save")
    /\ UNCHANGED <<queue, call, child, collected, files, result, last>>

(* run_focused_test parses the reports, effective_pom its output.          *)
Finish(r) ==
    /\ pc[r] = "finish"
    /\ got' = [got EXCEPT ![r] = Obtained(r)]
    /\ tested' = IF kind[r] = "test" THEN r ELSE tested
    /\ Goto(r, "save")
    /\ UNCHANGED <<permit, queue, call, child, collected, files, result, last>>

(* A focused test saves its result; an effective POM's output is dropped.  *)
Save(r) ==
    /\ pc[r] = "save"
    /\ last' = IF kind[r] = "test" THEN r ELSE last
    /\ pom' = IF kind[r] = "pom" THEN None ELSE pom
    /\ Return(r)
    /\ UNCHANGED <<report, tested>>

Awaits(r) ==
    \/ pc[r] \in {"waiting", "prepare", "spawn", "running", "cleanup"}
    \/ pc[r] = "save" /\ kind[r] = "test"

Leave(r) ==
    /\ queue' = SelectSeq(queue, LAMBDA q : q # r)
    /\ permit' = IF permit = r THEN None ELSE permit
    /\ Goto(r, "dropped")
    /\ Forget(r)

(* Mutant: only the child itself is killed. *)
CancelChild(r) ==
    /\ Awaits(r)
    /\ main' = [main EXCEPT ![r] = "none"]
    /\ kids' = [kids EXCEPT ![r] = @ \intersect Grouped]
    /\ pom' = IF permit = r /\ kind[r] = "pom" THEN None ELSE pom
    /\ Leave(r)
    /\ UNCHANGED <<report, last, tested>>

(* The call is cancelled at an await.  What it owns is dropped from the    *)
(* inside out: ProcessGroupGuard, which kills the group of a running       *)
(* child, EffectivePomOutput, then the permit.                             *)
Cancel(r) ==
    /\ Awaits(r)
    /\ IF pc[r] \in {"running", "cleanup"}
       THEN /\ main' = [main EXCEPT ![r] = "none"]
            /\ kids' = [kids EXCEPT ![r] = {}]
       ELSE Surviving(r)
    /\ pom' = IF permit = r /\ kind[r] = "pom" THEN None ELSE pom
    /\ Leave(r)
    /\ UNCHANGED <<report, last, tested>>

-----------------------------------------------------------------------------
Server(r) ==
    \/ Acquire(r) \/ Prepare(r) \/ Spawn(r) \/ SpawnBusy(r) \/ SpawnFails(r)
    \/ CollectExit(r) \/ CollectOutput(r) \/ Complete(r) \/ Settle(r)
    \/ Finish(r) \/ Save(r)
Timers(r) == Deadline(r) \/ CleanupDeadline(r)
Processes(r) == Fork(r) \/ Exit(r) \/ KidExits(r) \/ WriteFile(r)

Next ==
    \E r \in Runs :
        \/ Call(r) \/ Server(r) \/ Timers(r) \/ ReadFails(r) \/ Cancel(r)
        \/ Processes(r) \/ Die(r)

(* Futures are polled and timers fire; Maven itself may hang.              *)
Fairness == \A r \in Runs : WF_vars(Server(r)) /\ WF_vars(Timers(r))

Spec == Init /\ [][Next]_vars /\ Fairness

-----------------------------------------------------------------------------
Steps == {"idle", "waiting", "prepare", "spawn", "running", "cleanup", "finish", "save"} \union Ended

StateOK ==
    /\ permit \in Runs \union {None}
    /\ kind \in [Runs -> Kinds \union {"none"}] /\ pc \in [Runs -> Steps]
    /\ attempt \in [Runs -> 0 .. MaxAttempts]
    /\ main \in [Runs -> {"none", "alive", "dying"} \union Exits]
    /\ kids \in [Runs -> SUBSET Started] /\ dying \in [Runs -> SUBSET Grouped]
    /\ waited \in [Runs -> {"none", "error"} \union Exits]
    /\ output \in [Runs -> {"open", "complete", "error", "empty"}]
    /\ timed_out \in [Runs -> BOOLEAN] /\ cut \in [Runs -> BOOLEAN]
    /\ result \in [Runs -> {"none", "success", "build_failure", "timeout", "runner_error"}]
    /\ got \in [Runs -> Runs \union {None}] /\ snapshot \in [Runs -> Runs \union {None}]
    /\ report \in Runs \union {None} /\ pom \in Runs \union {None}
    /\ last \in Runs \union {None} /\ tested \in Runs \union {None}

TypeOK == queue \in Seq(Runs) /\ StateOK

(* "All tools run at most one Maven process at a time across the entire    *)
(* STDIO server": a process of a run's group that was not killed belongs   *)
(* to the run that holds the permit, also after timeouts, failures and     *)
(* cancellations and whatever the child left behind in its group.          *)
OneMavenAtATime == \A r \in Runs : Active(r) => permit = r

(* A run reported as successful exited with success on its own, before the *)
(* deadline, and its output is all that its processes wrote: nobody was    *)
(* killed who still could write to the pipes.                              *)
SuccessIsTrue ==
    \A r \in Runs :
        result[r] = "success" => main[r] = "ok" /\ output[r] = "complete" /\ ~cut[r]

OwnResults == \A r \in Runs : got[r] \in {None, r}
TemporaryOutputRemoved == pom # None => permit = pom

(* "Concurrent requests therefore report only their own updated test       *)
(* reports", and an effective POM is the one that its own run wrote:       *)
(* "temporary output is removed on success, failure, timeout or request    *)
(* cancellation", so there is a file only while a request for it holds the *)
(* permit.                                                                 *)
OwnFiles == OwnResults /\ TemporaryOutputRemoved

(* get_last_maven_test_failures "returns the last completed focused test": *)
(* a test that parsed its reports later is not overwritten by an earlier   *)
(* one that is slow to save.                                               *)
LastTestIsLatest == tested # None /\ pc[tested] = "done" => last = tested

(* Every call ends, even if Maven hangs, ignores its pipes' end or leaves  *)
(* processes that keep the pipes open: the permit comes back.              *)
RunsEnd == \A r \in Runs : pc[r] = "waiting" ~> pc[r] \in Ended
=============================================================================
