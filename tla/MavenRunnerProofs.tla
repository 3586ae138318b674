-------------------------- MODULE MavenRunnerProofs --------------------------
(***************************************************************************)
(* One Maven at a time, truthful results and nobody else's files, for any  *)
(* number of runs.                                                         *)
(***************************************************************************)
EXTENDS MavenRunner, TLAPS

Holding == {"prepare", "spawn", "running", "cleanup", "finish", "save"}

(* The permit belongs to the run that is past the queue and not at its end. *)
PermitOK == \A r \in Runs : pc[r] \in Holding <=> permit = r

(* A run without a child has no processes and nothing collected. *)
Fresh(r) ==
    /\ main[r] = "none" /\ kids[r] = {} /\ dying[r] = {} /\ ~cut[r]
    /\ waited[r] = "none" /\ output[r] = "open" /\ ~timed_out[r]

FreshOK ==
    \A r \in Runs :
        /\ pc[r] \in {"idle", "waiting", "prepare", "spawn"} \union Ended => Fresh(r)
        /\ pc[r] \in {"idle", "waiting", "prepare"} \union Ended => attempt[r] = 0
        /\ pc[r] = "spawn" => attempt[r] < MaxAttempts
        /\ pc[r] \notin {"finish", "save"} => result[r] = "none"

(* Once the group was killed none of its processes is active. *)
GroupOK == \A r \in Runs : Active(r) => pc[r] = "running"

(* What was collected is what the processes did. *)
CollectedOK ==
    \A r \in Runs :
        /\ waited[r] \in Exits => main[r] = waited[r]
        /\ output[r] = "complete" => Eof(r)
        /\ pc[r] = "running" => ~cut[r] /\ output[r] # "empty"
        /\ pc[r] = "cleanup" => timed_out[r]

(* The files of the project are those from before the run, or its own.     *)
FilesOK ==
    /\ pom # None => permit = pom /\ kind[pom] = "pom"
    /\ \A r \in Runs : permit = r /\ kind[r] = "test"
                           => report \in {snapshot[r], r}

(* Whoever is about to save was the last to parse its reports. *)
TestedOK ==
    \A r \in Runs :
        /\ pc[r] = "save" /\ kind[r] = "test" => tested = r
        /\ tested = r => pc[r] \in {"save"} \union Ended
        /\ tested = r /\ pc[r] = "save" => kind[r] = "test"

IInv ==
    /\ StateOK /\ PermitOK /\ FreshOK /\ GroupOK /\ CollectedOK /\ FilesOK /\ TestedOK
    /\ SuccessIsTrue /\ OwnResults /\ LastTestIsLatest

USE RunnerAssumption DEF call, child, collected, files, answers, Goto, Holding, Ended, Exits,
    Grouped, Started, Writing, Steps, Fresh, Active, Eof, IInv

(* No run has begun. *)
LEMMA InitIInv == Init => IInv
<1> SUFFICES ASSUME Init PROVE IInv
  OBVIOUS
<1>1. StateOK
  BY DEF Init, StateOK
<1>2. PermitOK
  BY DEF Init, PermitOK
<1>3. FreshOK
  BY DEF Init, FreshOK
<1>4. GroupOK
  BY DEF Init, GroupOK
<1>5. CollectedOK
  BY DEF Init, CollectedOK
<1>6. FilesOK
  BY DEF Init, FilesOK
<1>7. TestedOK
  BY DEF Init, TestedOK
<1>8. SuccessIsTrue
  BY DEF Init, SuccessIsTrue
<1>9. OwnResults
  BY DEF Init, OwnResults
<1>10. LastTestIsLatest
  BY DEF Init, LastTestIsLatest
<1>11. QED
  BY <1>1, <1>2, <1>3, <1>4, <1>5, <1>6, <1>7, <1>8, <1>9, <1>10

(* A new call has neither permit nor child. *)
LEMMA CallStep == ASSUME IInv, NEW r \in Runs, Call(r) PROVE IInv'
<1>1. StateOK'
  BY DEF Call, StateOK
<1>2. (PermitOK /\ FreshOK)'
  BY DEF Call, StateOK, PermitOK, FreshOK
<1>3. (GroupOK /\ CollectedOK /\ SuccessIsTrue)'
  BY DEF Call, StateOK, FreshOK, GroupOK, CollectedOK, SuccessIsTrue
<1>4. (FilesOK /\ OwnResults)'
  <2>1. /\ pom' = pom /\ permit' = permit /\ report' = report
        /\ snapshot' = snapshot /\ got' = got
    BY DEF Call
  <2>2. permit # r
    BY DEF Call, PermitOK
  <2>3. \A q \in Runs \ {r} : kind'[q] = kind[q]
    BY DEF Call, StateOK
  <2>4. QED
    BY <2>1, <2>2, <2>3 DEF StateOK, FilesOK, OwnResults
<1>5. (TestedOK /\ LastTestIsLatest)'
  BY DEF Call, StateOK, PermitOK, TestedOK, LastTestIsLatest
<1>6. QED
  BY <1>1, <1>2, <1>3, <1>4, <1>5

(* The queue's head gets a free permit; reports and output are as of now. *)
LEMMA AcquireStep == ASSUME IInv, NEW r \in Runs, Acquire(r) PROVE IInv'
<1>1. StateOK'
  BY DEF Acquire, StateOK
<1>2. (PermitOK /\ FreshOK)'
  BY DEF Acquire, StateOK, PermitOK, FreshOK
<1>3. (GroupOK /\ CollectedOK /\ SuccessIsTrue)'
  BY DEF Acquire, StateOK, FreshOK, GroupOK, CollectedOK, SuccessIsTrue
<1>4. (FilesOK /\ OwnResults)'
  BY DEF Acquire, StateOK, PermitOK, GroupOK, FilesOK, OwnResults
<1>5. (TestedOK /\ LastTestIsLatest)'
  BY DEF Acquire, StateOK, PermitOK, TestedOK, LastTestIsLatest
<1>6. QED
  BY <1>1, <1>2, <1>3, <1>4, <1>5

(* No child yet. *)
LEMMA PrepareStep == ASSUME IInv, NEW r \in Runs, Prepare(r) PROVE IInv'
<1>1. StateOK'
  BY DEF Prepare, Fail, StateOK
<1>2. (PermitOK /\ FreshOK)'
  BY DEF Prepare, Fail, StateOK, PermitOK, FreshOK
<1>3. (GroupOK /\ CollectedOK /\ SuccessIsTrue)'
  BY DEF Prepare, Fail, StateOK, FreshOK, GroupOK, CollectedOK, SuccessIsTrue
<1>4. (FilesOK /\ OwnResults)'
  BY DEF Prepare, Fail, StateOK, PermitOK, GroupOK, FilesOK, OwnResults
<1>5. (TestedOK /\ LastTestIsLatest)'
  BY DEF Prepare, Fail, StateOK, PermitOK, TestedOK, LastTestIsLatest
<1>6. QED
  BY <1>1, <1>2, <1>3, <1>4, <1>5

(* The first active process belongs to the permit's holder. *)
LEMMA SpawnStep == ASSUME IInv, NEW r \in Runs, Spawn(r) PROVE IInv'
<1>1. StateOK'
  BY DEF Spawn, StateOK
<1>2. (PermitOK /\ FreshOK)'
  BY DEF Spawn, StateOK, PermitOK, FreshOK
<1>3. (GroupOK /\ CollectedOK /\ SuccessIsTrue)'
  BY DEF Spawn, StateOK, FreshOK, GroupOK, CollectedOK, SuccessIsTrue
<1>4. (FilesOK /\ OwnResults)'
  BY DEF Spawn, StateOK, PermitOK, GroupOK, FilesOK, OwnResults
<1>5. (TestedOK /\ LastTestIsLatest)'
  BY DEF Spawn, StateOK, PermitOK, TestedOK, LastTestIsLatest
<1>6. QED
  BY <1>1, <1>2, <1>3, <1>4, <1>5

(* The attempts are counted. *)
LEMMA SpawnBusyStep == ASSUME IInv, NEW r \in Runs, SpawnBusy(r) PROVE IInv'
<1>1. StateOK'
  BY DEF SpawnBusy, Fail, StateOK, FreshOK
<1>2. (PermitOK /\ FreshOK)'
  BY DEF SpawnBusy, Fail, StateOK, PermitOK, FreshOK
<1>3. (GroupOK /\ CollectedOK /\ SuccessIsTrue)'
  BY DEF SpawnBusy, Fail, StateOK, FreshOK, GroupOK, CollectedOK, SuccessIsTrue
<1>4. (FilesOK /\ OwnResults)'
  BY DEF SpawnBusy, Fail, StateOK, PermitOK, GroupOK, FilesOK, OwnResults
<1>5. (TestedOK /\ LastTestIsLatest)'
  BY DEF SpawnBusy, Fail, StateOK, PermitOK, TestedOK, LastTestIsLatest
<1>6. QED
  BY <1>1, <1>2, <1>3, <1>4, <1>5

(* A run without a child fails. *)
LEMMA SpawnFailsStep == ASSUME IInv, NEW r \in Runs, SpawnFails(r) PROVE IInv'
<1>1. StateOK'
  BY DEF SpawnFails, Fail, StateOK
<1>2. (PermitOK /\ FreshOK)'
  BY DEF SpawnFails, Fail, StateOK, PermitOK, FreshOK
<1>3. (GroupOK /\ CollectedOK /\ SuccessIsTrue)'
  BY DEF SpawnFails, Fail, StateOK, FreshOK, GroupOK, CollectedOK, SuccessIsTrue
<1>4. (FilesOK /\ OwnResults)'
  BY DEF SpawnFails, Fail, StateOK, PermitOK, GroupOK, FilesOK, OwnResults
<1>5. (TestedOK /\ LastTestIsLatest)'
  BY DEF SpawnFails, Fail, StateOK, PermitOK, TestedOK, LastTestIsLatest
<1>6. QED
  BY <1>1, <1>2, <1>3, <1>4, <1>5

(* The status is the child's. *)
LEMMA CollectExitStep == ASSUME IInv, NEW r \in Runs, CollectExit(r) PROVE IInv'
<1>1. StateOK'
  BY DEF CollectExit, StateOK
<1>2. (PermitOK /\ FreshOK)'
  BY DEF CollectExit, StateOK, PermitOK, FreshOK
<1>3. (GroupOK /\ CollectedOK /\ SuccessIsTrue)'
  BY DEF CollectExit, StateOK, FreshOK, GroupOK, CollectedOK, SuccessIsTrue
<1>4. (FilesOK /\ OwnResults)'
  BY DEF CollectExit, StateOK, PermitOK, GroupOK, FilesOK, OwnResults
<1>5. (TestedOK /\ LastTestIsLatest)'
  BY DEF CollectExit, StateOK, PermitOK, TestedOK, LastTestIsLatest
<1>6. QED
  BY <1>1, <1>2, <1>3, <1>4, <1>5

(* The end of the pipes is final. *)
LEMMA CollectOutputStep == ASSUME IInv, NEW r \in Runs, CollectOutput(r) PROVE IInv'
<1>1. StateOK'
  BY DEF CollectOutput, StateOK
<1>2. (PermitOK /\ FreshOK)'
  BY DEF CollectOutput, StateOK, PermitOK, FreshOK
<1>3. (GroupOK /\ CollectedOK /\ SuccessIsTrue)'
  BY DEF CollectOutput, StateOK, FreshOK, GroupOK, CollectedOK, SuccessIsTrue
<1>4. (FilesOK /\ OwnResults)'
  BY DEF CollectOutput, StateOK, PermitOK, GroupOK, FilesOK, OwnResults
<1>5. (TestedOK /\ LastTestIsLatest)'
  BY DEF CollectOutput, StateOK, PermitOK, TestedOK, LastTestIsLatest
<1>6. QED
  BY <1>1, <1>2, <1>3, <1>4, <1>5

(* An unreadable output is not a complete one. *)
LEMMA ReadFailsStep == ASSUME IInv, NEW r \in Runs, ReadFails(r) PROVE IInv'
<1>1. StateOK'
  BY DEF ReadFails, StateOK
<1>2. (PermitOK /\ FreshOK)'
  BY DEF ReadFails, StateOK, PermitOK, FreshOK
<1>3. (GroupOK /\ CollectedOK /\ SuccessIsTrue)'
  BY DEF ReadFails, StateOK, FreshOK, GroupOK, CollectedOK, SuccessIsTrue
<1>4. (FilesOK /\ OwnResults)'
  BY DEF ReadFails, StateOK, PermitOK, GroupOK, FilesOK, OwnResults
<1>5. (TestedOK /\ LastTestIsLatest)'
  BY DEF ReadFails, StateOK, PermitOK, TestedOK, LastTestIsLatest
<1>6. QED
  BY <1>1, <1>2, <1>3, <1>4, <1>5

(* Before the deadline nobody who could write was killed. *)
LEMMA CompleteStep == ASSUME IInv, NEW r \in Runs, Complete(r) PROVE IInv'
<1>1. StateOK'
  BY DEF Complete, Kill, Conclude, Status, Collected, StateOK
<1>2. (PermitOK /\ FreshOK)'
  BY DEF Complete, Kill, Conclude, Status, Collected, StateOK, PermitOK, FreshOK
<1>3. (GroupOK /\ CollectedOK /\ SuccessIsTrue)'
  BY DEF Complete, Kill, Conclude, Status, Collected, StateOK, FreshOK, GroupOK, CollectedOK, SuccessIsTrue
<1>4. (FilesOK /\ OwnResults)'
  BY DEF Complete, Kill, Conclude, Status, Collected, StateOK, PermitOK, GroupOK, FilesOK, OwnResults
<1>5. (TestedOK /\ LastTestIsLatest)'
  BY DEF Complete, Kill, Conclude, Status, Collected, StateOK, PermitOK, TestedOK, LastTestIsLatest
<1>6. QED
  BY <1>1, <1>2, <1>3, <1>4, <1>5

(* After the deadline there is no success. *)
LEMMA SettleStep == ASSUME IInv, NEW r \in Runs, Settle(r) PROVE IInv'
<1>1. StateOK'
  <2>1. CASE waited[r] = "error"
    <3>1. /\ main' \in [Runs -> {"none", "alive", "dying"} \union Exits]
          /\ kids' \in [Runs -> SUBSET Started] /\ dying' \in [Runs -> SUBSET Grouped]
      BY <2>1 DEF Settle, Kill, StateOK
    <3>2. cut' \in [Runs -> BOOLEAN]
      BY <2>1 DEF Settle, Kill, StateOK
    <3>3. result' = [result EXCEPT ![r] = "runner_error"]
      BY <2>1 DEF Settle, Conclude, Status
    <3>4. QED
      BY <2>1, <3>1, <3>2, <3>3 DEF Settle, Conclude, StateOK
  <2>2. CASE waited[r] # "error"
    BY <2>2 DEF Settle, Conclude, Status, StateOK
  <2>3. QED
    BY <2>1, <2>2
<1>2. (PermitOK /\ FreshOK)'
  BY DEF Settle, Kill, Conclude, Status, Collected, StateOK, PermitOK, FreshOK
<1>3. (GroupOK /\ CollectedOK /\ SuccessIsTrue)'
  BY DEF Settle, Kill, Conclude, Status, Collected, StateOK, FreshOK, GroupOK, CollectedOK, SuccessIsTrue
<1>4. (FilesOK /\ OwnResults)'
  BY DEF Settle, Kill, Conclude, Status, Collected, StateOK, PermitOK, GroupOK, FilesOK, OwnResults
<1>5. (TestedOK /\ LastTestIsLatest)'
  BY DEF Settle, Kill, Conclude, Status, Collected, StateOK, PermitOK, TestedOK, LastTestIsLatest
<1>6. QED
  BY <1>1, <1>2, <1>3, <1>4, <1>5

(* The kill leaves no active process. *)
LEMMA DeadlineStep == ASSUME IInv, NEW r \in Runs, Deadline(r) PROVE IInv'
<1>1. StateOK'
  BY DEF Deadline, Kill, Collected, StateOK
<1>2. (PermitOK /\ FreshOK)'
  BY DEF Deadline, Kill, Collected, StateOK, PermitOK, FreshOK
<1>3. (GroupOK /\ CollectedOK /\ SuccessIsTrue)'
  BY DEF Deadline, Kill, Collected, StateOK, FreshOK, GroupOK, CollectedOK, SuccessIsTrue
<1>4. (FilesOK /\ OwnResults)'
  BY DEF Deadline, Kill, Collected, StateOK, PermitOK, GroupOK, FilesOK, OwnResults
<1>5. (TestedOK /\ LastTestIsLatest)'
  BY DEF Deadline, Kill, Collected, StateOK, PermitOK, TestedOK, LastTestIsLatest
<1>6. QED
  BY <1>1, <1>2, <1>3, <1>4, <1>5

(* What is missing is given up. *)
LEMMA CleanupDeadlineStep == ASSUME IInv, NEW r \in Runs, CleanupDeadline(r) PROVE IInv'
<1>1. StateOK'
  BY DEF CleanupDeadline, Collected, StateOK
<1>2. (PermitOK /\ FreshOK)'
  BY DEF CleanupDeadline, Collected, StateOK, PermitOK, FreshOK
<1>3. (GroupOK /\ CollectedOK /\ SuccessIsTrue)'
  BY DEF CleanupDeadline, Collected, StateOK, FreshOK, GroupOK, CollectedOK, SuccessIsTrue
<1>4. (FilesOK /\ OwnResults)'
  BY DEF CleanupDeadline, Collected, StateOK, PermitOK, GroupOK, FilesOK, OwnResults
<1>5. (TestedOK /\ LastTestIsLatest)'
  BY DEF CleanupDeadline, Collected, StateOK, PermitOK, TestedOK, LastTestIsLatest
<1>6. QED
  BY <1>1, <1>2, <1>3, <1>4, <1>5

(* What is found is the run's own. *)
LEMMA FinishStep == ASSUME IInv, NEW r \in Runs, Finish(r) PROVE IInv'
<1>1. StateOK'
  BY DEF Finish, Obtained, StateOK
<1>2. (PermitOK /\ FreshOK)'
  BY DEF Finish, Obtained, StateOK, PermitOK, FreshOK
<1>3. (GroupOK /\ CollectedOK /\ SuccessIsTrue)'
  BY DEF Finish, Obtained, StateOK, FreshOK, GroupOK, CollectedOK, SuccessIsTrue
<1>4. (FilesOK /\ OwnResults)'
  BY DEF Finish, Obtained, StateOK, PermitOK, GroupOK, FilesOK, OwnResults
<1>5. (TestedOK /\ LastTestIsLatest)'
  BY DEF Finish, Obtained, StateOK, PermitOK, TestedOK, LastTestIsLatest
<1>6. QED
  BY <1>1, <1>2, <1>3, <1>4, <1>5

(* Only the run that parsed last saves. *)
LEMMA SaveStep == ASSUME IInv, NEW r \in Runs, Save(r) PROVE IInv'
<1>1. StateOK'
  BY DEF Save, Return, Forget, Surviving, StateOK
<1>2. (PermitOK /\ FreshOK)'
  BY DEF Save, Return, Forget, Surviving, StateOK, PermitOK, FreshOK, GroupOK
<1>3. (GroupOK /\ CollectedOK /\ SuccessIsTrue)'
  BY DEF Save, Return, Forget, Surviving, StateOK, FreshOK, GroupOK, CollectedOK, SuccessIsTrue
<1>4. (FilesOK /\ OwnResults)'
  BY DEF Save, Return, Forget, Surviving, StateOK, PermitOK, GroupOK, FilesOK, OwnResults
<1>5. (TestedOK /\ LastTestIsLatest)'
  BY DEF Save, Return, Forget, Surviving, StateOK, PermitOK, TestedOK, LastTestIsLatest
<1>6. QED
  BY <1>1, <1>2, <1>3, <1>4, <1>5

(* Group and output go before the permit. *)
LEMMA CancelStep == ASSUME IInv, NEW r \in Runs, Cancel(r) PROVE IInv'
<1>1. StateOK'
  BY DEF Cancel, Awaits, Leave, Forget, Surviving, StateOK
<1>2. (PermitOK /\ FreshOK)'
  BY DEF Cancel, Awaits, Leave, Forget, Surviving, StateOK, PermitOK, FreshOK, GroupOK
<1>3. (GroupOK /\ CollectedOK /\ SuccessIsTrue)'
  BY DEF Cancel, Awaits, Leave, Forget, Surviving, StateOK, FreshOK, GroupOK, CollectedOK, SuccessIsTrue
<1>4. (FilesOK /\ OwnResults)'
  BY DEF Cancel, Awaits, Leave, Forget, Surviving, StateOK, PermitOK, GroupOK, FilesOK, OwnResults
<1>5. (TestedOK /\ LastTestIsLatest)'
  BY DEF Cancel, Awaits, Leave, Forget, Surviving, StateOK, PermitOK, TestedOK, LastTestIsLatest
<1>6. QED
  BY <1>1, <1>2, <1>3, <1>4, <1>5

(* Only a live child starts processes. *)
LEMMA ForkStep == ASSUME IInv, NEW r \in Runs, Fork(r) PROVE IInv'
<1>1. StateOK'
  BY DEF Fork, StateOK
<1>2. (PermitOK /\ FreshOK)'
  BY DEF Fork, StateOK, PermitOK, FreshOK
<1>3. (GroupOK /\ CollectedOK /\ SuccessIsTrue)'
  BY DEF Fork, StateOK, FreshOK, GroupOK, CollectedOK, SuccessIsTrue
<1>4. (FilesOK /\ OwnResults)'
  BY DEF Fork, StateOK, PermitOK, GroupOK, FilesOK, OwnResults
<1>5. (TestedOK /\ LastTestIsLatest)'
  BY DEF Fork, StateOK, PermitOK, TestedOK, LastTestIsLatest
<1>6. QED
  BY <1>1, <1>2, <1>3, <1>4, <1>5

(* The child ends on its own. *)
LEMMA ExitStep == ASSUME IInv, NEW r \in Runs, Exit(r) PROVE IInv'
<1>1. StateOK'
  BY DEF Exit, StateOK
<1>2. (PermitOK /\ FreshOK)'
  BY DEF Exit, StateOK, PermitOK, FreshOK
<1>3. (GroupOK /\ CollectedOK /\ SuccessIsTrue)'
  BY DEF Exit, StateOK, FreshOK, GroupOK, CollectedOK, SuccessIsTrue
<1>4. (FilesOK /\ OwnResults)'
  BY DEF Exit, StateOK, PermitOK, GroupOK, FilesOK, OwnResults
<1>5. (TestedOK /\ LastTestIsLatest)'
  BY DEF Exit, StateOK, PermitOK, TestedOK, LastTestIsLatest
<1>6. QED
  BY <1>1, <1>2, <1>3, <1>4, <1>5

(* A process ends on its own. *)
LEMMA KidExitsStep == ASSUME IInv, NEW r \in Runs, KidExits(r) PROVE IInv'
<1>1. StateOK'
  BY DEF KidExits, StateOK
<1>2. (PermitOK /\ FreshOK)'
  BY DEF KidExits, StateOK, PermitOK, FreshOK
<1>3. (GroupOK /\ CollectedOK /\ SuccessIsTrue)'
  BY DEF KidExits, StateOK, FreshOK, GroupOK, CollectedOK, SuccessIsTrue
<1>4. (FilesOK /\ OwnResults)'
  BY DEF KidExits, StateOK, PermitOK, GroupOK, FilesOK, OwnResults
<1>5. (TestedOK /\ LastTestIsLatest)'
  BY DEF KidExits, StateOK, PermitOK, TestedOK, LastTestIsLatest
<1>6. QED
  BY <1>1, <1>2, <1>3, <1>4, <1>5

(* Only active processes write, so only the permit's holder. *)
LEMMA WriteFileStep == ASSUME IInv, NEW r \in Runs, WriteFile(r) PROVE IInv'
<1>1. StateOK'
  BY DEF WriteFile, StateOK
<1>2. (PermitOK /\ FreshOK)'
  BY DEF WriteFile, StateOK, PermitOK, FreshOK
<1>3. (GroupOK /\ CollectedOK /\ SuccessIsTrue)'
  BY DEF WriteFile, StateOK, FreshOK, GroupOK, CollectedOK, SuccessIsTrue
<1>4. (FilesOK /\ OwnResults)'
  BY DEF WriteFile, StateOK, PermitOK, GroupOK, FilesOK, OwnResults
<1>5. (TestedOK /\ LastTestIsLatest)'
  BY DEF WriteFile, StateOK, PermitOK, TestedOK, LastTestIsLatest
<1>6. QED
  BY <1>1, <1>2, <1>3, <1>4, <1>5

(* A killed process was not active. *)
LEMMA DieStep == ASSUME IInv, NEW r \in Runs, Die(r) PROVE IInv'
<1>1. StateOK'
  BY DEF Die, StateOK
<1>2. (PermitOK /\ FreshOK)'
  BY DEF Die, StateOK, PermitOK, FreshOK
<1>3. (GroupOK /\ CollectedOK /\ SuccessIsTrue)'
  BY DEF Die, StateOK, FreshOK, GroupOK, CollectedOK, SuccessIsTrue
<1>4. (FilesOK /\ OwnResults)'
  BY DEF Die, StateOK, PermitOK, GroupOK, FilesOK, OwnResults
<1>5. (TestedOK /\ LastTestIsLatest)'
  BY DEF Die, StateOK, PermitOK, TestedOK, LastTestIsLatest
<1>6. QED
  BY <1>1, <1>2, <1>3, <1>4, <1>5

(* Every step keeps the invariant. *)
LEMMA NextIInv == IInv /\ [Next]_vars => IInv'
<1> SUFFICES ASSUME IInv, [Next]_vars
             PROVE  IInv'
  OBVIOUS
<1>1. ASSUME NEW r \in Runs, Server(r)
      PROVE  IInv'
  BY <1>1, AcquireStep, PrepareStep, SpawnStep, SpawnBusyStep, SpawnFailsStep, CollectExitStep,
     CollectOutputStep, CompleteStep, SettleStep, FinishStep, SaveStep DEF Server
<1>2. ASSUME NEW r \in Runs, Timers(r)
      PROVE  IInv'
  BY <1>2, DeadlineStep, CleanupDeadlineStep DEF Timers
<1>3. ASSUME NEW r \in Runs, Processes(r)
      PROVE  IInv'
  BY <1>3, ForkStep, ExitStep, KidExitsStep, WriteFileStep DEF Processes
<1>4. ASSUME NEW r \in Runs, Call(r) \/ ReadFails(r) \/ Cancel(r) \/ Die(r)
      PROVE  IInv'
  BY <1>4, CallStep, ReadFailsStep, CancelStep, DieStep
<1>5. CASE UNCHANGED vars
  BY <1>5 DEF vars, StateOK, PermitOK, FreshOK, GroupOK, CollectedOK, FilesOK, TestedOK,
              SuccessIsTrue, OwnResults, LastTestIsLatest
<1>6. QED
  BY <1>1, <1>2, <1>3, <1>4, <1>5 DEF Next

(* The inductive invariant holds throughout. *)
THEOREM Inductive == Spec => []IInv
<1>1. Init => IInv
  BY InitIInv
<1>2. IInv /\ [Next]_vars => IInv'
  BY NextIInv
<1>3. QED
  BY <1>1, <1>2, PTL DEF Spec

(* At most one Maven runs at a time: every process of a run's group that   *)
(* was not killed belongs to the holder of the server's permit, whatever   *)
(* timed out, failed or was cancelled (execute_permitted, run_child,       *)
(* ProcessGroupGuard).                                                     *)
THEOREM OneMavenAlways == Spec => []OneMavenAtATime
<1>1. IInv => OneMavenAtATime
  BY DEF GroupOK, PermitOK, OneMavenAtATime
<1>2. QED
  BY <1>1, Inductive, PTL

(* Success is reported only for a child that exited with success before    *)
(* the deadline and whose output was read to its end (run_child).          *)
THEOREM SuccessAlwaysTrue == Spec => []SuccessIsTrue
<1>1. IInv => SuccessIsTrue
  OBVIOUS
<1>2. QED
  BY <1>1, Inductive, PTL

(* Reports and effective POMs that a run returns were written by its own   *)
(* processes (run_focused_test, effective_pom), and the effective POM file *)
(* exists only while its request holds the permit (EffectivePomOutput).    *)
THEOREM AlwaysOwnFiles == Spec => []OwnFiles
<1>1. IInv => OwnFiles
  BY DEF FilesOK, OwnFiles, TemporaryOutputRemoved
<1>2. QED
  BY <1>1, Inductive, PTL

(* The saved test result is the one of the test that parsed its reports    *)
(* last, unless that one is still saving or was cancelled                  *)
(* (run_focused_test).                                                     *)
THEOREM LastTestAlwaysLatest == Spec => []LastTestIsLatest
<1>1. IInv => LastTestIsLatest
  OBVIOUS
<1>2. QED
  BY <1>1, Inductive, PTL
=============================================================================
