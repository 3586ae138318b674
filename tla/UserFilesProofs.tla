--------------------------- MODULE UserFilesProofs ---------------------------
(***************************************************************************)
(* The files of a user that server processes share, for any number of      *)
(* processes and operations: a database that is not damaged is never       *)
(* deleted, and the status of a running server is kept.                    *)
(***************************************************************************)
EXTENDS CacheRecovery, RuntimeStatus, TLAPS

-----------------------------------------------------------------------------
(* The database of stored indexes. *)

(* Whoever holds the exclusive lock holds it alone. *)
LockOK ==
    \A p, q \in Procs :
        pc[p] \in ExclusiveSteps /\ pc[q] \in ExclusiveSteps \union {"opening"} => p = q

(* A file was deleted and the epoch that says so is not written yet. *)
Unrecorded(p) == pc[p] \in {"truncate", "stamp"}

(* No epoch in use is from the future, also while the new one is written.  *)
EpochsOld ==
    \A q \in Procs :
        /\ (\A p \in Procs : ~Unrecorded(p)) => observed[q] <= epoch /\ outer[q] <= epoch
        /\ \A p \in Procs : Unrecorded(p) => /\ observed[q] <= observed[p]
                                             /\ outer[q] <= observed[p]

(* A diagnosis of the present epoch is about the file at the path. *)
DiagnosisHolds ==
    (\A p \in Procs : ~Unrecorded(p)) =>
        \A q \in Procs :
            /\ pc[q] = "recover" /\ observed[q] = epoch => file \in damaged
            /\ pc[q] = "connected" /\ tries[q] = "first" /\ outer[q] = epoch => conn[q] = file

ResetIsRight == \A p \in Procs : pc[p] = "reset" => observed[p] = epoch /\ file \in damaged

ConnectedToFile == \A p \in Procs : pc[p] = "connected" => conn[p] # 0

RecoveryInv ==
    /\ TypeOK /\ LockOK /\ ConnectedToFile
    /\ ~lost => EpochsOld /\ DiagnosisHolds /\ ResetIsRight

USE DEF disk, ExclusiveSteps

LEMMA InitRecoveryInv == Init => RecoveryInv
<1> SUFFICES ASSUME Init
             PROVE  RecoveryInv
  OBVIOUS
<1>1. TypeOK
  <2>1. files \in Nat /\ file \in 0 .. files /\ epoch \in Nat /\ begun \in Nat
    BY DEF Init
  <2>2. damaged \subseteq 1 .. files /\ conn \in [Procs -> 0 .. files]
    BY DEF Init
  <2>3. outer \in [Procs -> Nat] /\ observed \in [Procs -> Nat]
    BY DEF Init
  <2>4. pc \in [Procs -> Steps] /\ tries \in [Procs -> {"first", "recovering", "last"}]
    BY DEF Init, Steps
  <2>5. lost \in BOOLEAN
    BY DEF Init
  <2>6. QED
    BY <2>1, <2>2, <2>3, <2>4, <2>5 DEF TypeOK
<1>2. LockOK /\ ConnectedToFile
  BY DEF Init, LockOK, ConnectedToFile
<1>3. EpochsOld /\ DiagnosisHolds /\ ResetIsRight
  BY DEF Init, EpochsOld, DiagnosisHolds, ResetIsRight, Unrecorded
<1>4. QED
  BY <1>1, <1>2, <1>3 DEF RecoveryInv

(* Types and locks do not depend on the epochs. *)
LEMMA TypeStep == TypeOK /\ [Next]_vars => TypeOK'
<1> SUFFICES ASSUME TypeOK, [Next]_vars
             PROVE  TypeOK'
  OBVIOUS
<1> USE DEF TypeOK, Steps, Goto, End
<1>1. ASSUME NEW p \in Procs, Begin(p) PROVE TypeOK'
  BY <1>1 DEF Begin
<1>2. ASSUME NEW p \in Procs, RecoveryEpoch(p) PROVE TypeOK'
  BY <1>2 DEF RecoveryEpoch
<1>3. ASSUME NEW p \in Procs, LockShared(p) PROVE TypeOK'
  BY <1>3 DEF LockShared
<1>4. ASSUME NEW p \in Procs, OpenDatabase(p) PROVE TypeOK'
  BY <1>4 DEF OpenDatabase, CreateIfMissing, Opened
<1>5. ASSUME NEW p \in Procs, LockExclusive(p) PROVE TypeOK'
  BY <1>5 DEF LockExclusive
<1>6. ASSUME NEW p \in Procs, Reset(p) PROVE TypeOK'
  BY <1>6 DEF Reset
<1>7. ASSUME NEW p \in Procs, TruncateEpoch(p) PROVE TypeOK'
  BY <1>7 DEF TruncateEpoch
<1>8. ASSUME NEW p \in Procs, WriteEpoch(p) PROVE TypeOK'
  BY <1>8 DEF WriteEpoch
<1>9. ASSUME NEW p \in Procs, Reopen(p) PROVE TypeOK'
  BY <1>9 DEF Reopen, Damaged, CreateIfMissing, Opened
<1>10. ASSUME NEW p \in Procs, Execute(p) PROVE TypeOK'
  BY <1>10 DEF Execute, Damaged
<1>11. ASSUME NEW p \in Procs, Interrupt(p) PROVE TypeOK'
  BY <1>11 DEF Interrupt
<1>12. ASSUME NEW p \in Procs, InterruptAfterReset(p) PROVE TypeOK'
  BY <1>12 DEF InterruptAfterReset
<1>13. CASE Damage
  BY <1>13 DEF Damage
<1>14. CASE UNCHANGED vars
  BY <1>14 DEF vars
<1>15. QED
  BY <1>1, <1>2, <1>3, <1>4, <1>5, <1>6, <1>7, <1>8, <1>9, <1>10, <1>11, <1>12,
     <1>13, <1>14 DEF Next, Step

LEMMA LockStep == TypeOK /\ LockOK /\ ConnectedToFile /\ [Next]_vars => LockOK' /\ ConnectedToFile'
<1> SUFFICES ASSUME TypeOK, LockOK, ConnectedToFile, [Next]_vars
             PROVE  LockOK' /\ ConnectedToFile'
  OBVIOUS
<1> USE DEF TypeOK, LockOK, ConnectedToFile, Goto, End
<1>1. ASSUME NEW p \in Procs, Begin(p) PROVE LockOK' /\ ConnectedToFile'
  BY <1>1 DEF Begin
<1>2. ASSUME NEW p \in Procs, RecoveryEpoch(p) PROVE LockOK' /\ ConnectedToFile'
  BY <1>2 DEF RecoveryEpoch
<1>3. ASSUME NEW p \in Procs, LockShared(p) PROVE LockOK' /\ ConnectedToFile'
  BY <1>3 DEF LockShared, ExclusiveHeld
<1>4. ASSUME NEW p \in Procs, OpenDatabase(p) PROVE LockOK' /\ ConnectedToFile'
  BY <1>4 DEF OpenDatabase, CreateIfMissing, Opened
<1>5. ASSUME NEW p \in Procs, LockExclusive(p) PROVE LockOK' /\ ConnectedToFile'
  BY <1>5 DEF LockExclusive, ExclusiveHeld, SharedHeld
<1>6. ASSUME NEW p \in Procs, Reset(p) PROVE LockOK' /\ ConnectedToFile'
  BY <1>6 DEF Reset
<1>7. ASSUME NEW p \in Procs, TruncateEpoch(p) PROVE LockOK' /\ ConnectedToFile'
  BY <1>7 DEF TruncateEpoch
<1>8. ASSUME NEW p \in Procs, WriteEpoch(p) PROVE LockOK' /\ ConnectedToFile'
  BY <1>8 DEF WriteEpoch
<1>9. ASSUME NEW p \in Procs, Reopen(p) PROVE LockOK' /\ ConnectedToFile'
  BY <1>9 DEF Reopen, Damaged, CreateIfMissing, Opened
<1>10. ASSUME NEW p \in Procs, Execute(p) PROVE LockOK' /\ ConnectedToFile'
  BY <1>10 DEF Execute, Damaged
<1>11. ASSUME NEW p \in Procs, Interrupt(p) PROVE LockOK' /\ ConnectedToFile'
  BY <1>11 DEF Interrupt
<1>12. ASSUME NEW p \in Procs, InterruptAfterReset(p) PROVE LockOK' /\ ConnectedToFile'
  BY <1>12 DEF InterruptAfterReset
<1>13. CASE Damage
  BY <1>13 DEF Damage
<1>14. CASE UNCHANGED vars
  BY <1>14 DEF vars
<1>15. QED
  BY <1>1, <1>2, <1>3, <1>4, <1>5, <1>6, <1>7, <1>8, <1>9, <1>10, <1>11, <1>12,
     <1>13, <1>14 DEF Next, Step

(* What the epochs say stays true as long as every deletion is recorded.   *)
EpochsOK == EpochsOld /\ DiagnosisHolds /\ ResetIsRight

LEMMA EpochStep == RecoveryInv /\ ~lost /\ [Next]_vars /\ ~lost' => EpochsOK'
<1> SUFFICES ASSUME TypeOK, LockOK, ConnectedToFile, EpochsOK, ~lost, [Next]_vars, ~lost'
             PROVE  EpochsOK'
  BY DEF RecoveryInv, EpochsOK
<1> USE DEF TypeOK, LockOK, EpochsOK, EpochsOld, DiagnosisHolds, ResetIsRight,
            Unrecorded, Goto, End
<1>1. ASSUME NEW p \in Procs, Begin(p) PROVE EpochsOK'
  BY <1>1 DEF Begin
<1>2. ASSUME NEW p \in Procs, RecoveryEpoch(p) PROVE EpochsOK'
  BY <1>2 DEF RecoveryEpoch, ExclusiveHeld
<1>3. ASSUME NEW p \in Procs, LockShared(p) PROVE EpochsOK'
  BY <1>3 DEF LockShared, ExclusiveHeld
<1>4. ASSUME NEW p \in Procs, OpenDatabase(p) PROVE EpochsOK'
  BY <1>4 DEF OpenDatabase, CreateIfMissing, Opened, ConnectedToFile
<1>5. ASSUME NEW p \in Procs, LockExclusive(p) PROVE EpochsOK'
  BY <1>5 DEF LockExclusive, ExclusiveHeld, SharedHeld
<1>6. ASSUME NEW p \in Procs, Reset(p) PROVE EpochsOK'
  BY <1>6 DEF Reset
<1>7. ASSUME NEW p \in Procs, TruncateEpoch(p) PROVE EpochsOK'
  BY <1>7 DEF TruncateEpoch
<1>8. ASSUME NEW p \in Procs, WriteEpoch(p) PROVE EpochsOK'
  BY <1>8 DEF WriteEpoch
<1>9. ASSUME NEW p \in Procs, Reopen(p) PROVE EpochsOK'
  BY <1>9 DEF Reopen, Damaged, CreateIfMissing, Opened, ConnectedToFile
<1>10. ASSUME NEW p \in Procs, Execute(p) PROVE EpochsOK'
  BY <1>10 DEF Execute, Damaged
<1>11. ASSUME NEW p \in Procs, Interrupt(p) PROVE EpochsOK'
  BY <1>11 DEF Interrupt
<1>12. ASSUME NEW p \in Procs, InterruptAfterReset(p) PROVE EpochsOK'
  BY <1>12 DEF InterruptAfterReset
<1>13. CASE Damage
  BY <1>13 DEF Damage
<1>14. CASE UNCHANGED vars
  BY <1>14 DEF vars
<1>15. QED
  BY <1>1, <1>2, <1>3, <1>4, <1>5, <1>6, <1>7, <1>8, <1>9, <1>10, <1>11, <1>12,
     <1>13, <1>14 DEF Next, Step

(* A deletion that was not recorded is never forgotten. *)
LEMMA LostStays == TypeOK /\ [Next]_vars /\ lost => lost'
BY DEF TypeOK, Next, Step, Begin, RecoveryEpoch, LockShared, OpenDatabase, LockExclusive,
       Reset, TruncateEpoch, WriteEpoch, Reopen, Execute, Damage, Interrupt,
       InterruptAfterReset, vars

LEMMA NextRecoveryInv == RecoveryInv /\ [Next]_vars => RecoveryInv'
<1> SUFFICES ASSUME RecoveryInv, [Next]_vars
             PROVE  RecoveryInv'
  OBVIOUS
<1>1. TypeOK' /\ LockOK' /\ ConnectedToFile'
  BY TypeStep, LockStep DEF RecoveryInv
<1>2. ~lost' => EpochsOK'
  BY EpochStep, LostStays DEF RecoveryInv
<1>3. QED
  BY <1>1, <1>2 DEF RecoveryInv, EpochsOK

(* The inductive invariant of the recovery protocol (src/index_cache.rs):  *)
(* types, the exclusive lock, and what each recorded epoch says.           *)
THEOREM RecoveryInvariant == Spec => []RecoveryInv
<1>1. Init => RecoveryInv
  BY InitRecoveryInv
<1>2. RecoveryInv /\ [Next]_vars => RecoveryInv'
  BY NextRecoveryInv
<1>3. QED
  BY <1>1, <1>2, PTL DEF Spec

(* Every variable of the recovery protocol keeps its type: file numbers    *)
(* stay within the files created (try_open, recover, write_epoch).         *)
THEOREM TypeCorrect == Spec => []TypeOK
<1>1. RecoveryInv => TypeOK
  BY DEF RecoveryInv
<1>2. QED
  BY <1>1, RecoveryInvariant, PTL

(* Only recover deletes the database, and it deletes a damaged one as long *)
(* as every earlier deletion was recorded in the lock file.                *)
THEOREM GoodDatabaseAlwaysKept == Spec => GoodDatabaseKept
<1>1. ASSUME RecoveryInv, [Next]_vars, ~lost, file # 0, file \notin damaged
      PROVE  file' = file
  <2>1. ASSUME NEW p \in Procs, Reset(p) PROVE FALSE
    BY <1>1, <2>1 DEF RecoveryInv, ResetIsRight, Reset
  <2>2. QED
    BY <1>1, <2>1 DEF Next, Step, Begin, RecoveryEpoch, LockShared, OpenDatabase,
       CreateIfMissing, Opened, LockExclusive, TruncateEpoch, WriteEpoch, Reopen, Execute,
       Damage, Interrupt, InterruptAfterReset, vars
<1>2. RecoveryInv /\ [Next]_vars =>
          [~lost /\ file # 0 /\ file \notin damaged => file' = file]_vars
  BY <1>1
<1>3. QED
  BY <1>2, RecoveryInvariant, PTL DEF Spec, GoodDatabaseKept

-----------------------------------------------------------------------------
(* The status files. *)

(* A status is of a process that had the PID; 0 is no process. *)
FileOK(f, n) == f # None => f.instance \in 1 .. n

ReaderOK(q, n) ==
    /\ DOMAIN q = {"pc", "seen", "quarantine"}
    /\ q.seen \in 0 .. n
    /\ FileOK(q.quarantine, n)
    /\ q.pc \in {"idle", "probe", "dead", "done"} => q.quarantine = None
    /\ q.pc \in {"recheck", "link"} => q.quarantine # None

(* A reader removes only what a process wrote that does not run, and while *)
(* nobody puts an old status back, the one at the path is the running      *)
(* process's.                                                              *)
Holds(readers, i) ==
    \E r \in Readers : readers[r].quarantine # None /\ readers[r].quarantine.instance = i

Removable(q, n) == q.pc \in {"dead", "recheck"} /\ n # 0 => q.seen # n

Publishers == [dirty : BOOLEAN, pending : BOOLEAN, closed : BOOLEAN, written : Nat]

StatusInv ==
    /\ instances \in Nat /\ alive \in {0, instances} /\ version \in Nat
    /\ publisher \in Publishers
    /\ DOMAIN reader = Readers
    /\ FileOK(status, instances)
    /\ \A r \in Readers : ReaderOK(reader[r], instances) /\ Removable(reader[r], alive)
    /\ alive # 0 /\ ~revived => status = None \/ status.instance = alive
    /\ alive # 0 /\ ~publisher.closed /\ ~revived =>
          status # None \/ Holds(reader, alive)

LEMMA Kept == StatusInv => LiveStatusKept
BY DEF StatusInv, LiveStatusKept, Quarantined, Holds

LEMMA InitStatusInv == StatusInit => StatusInv
BY DEF StatusInit, StatusInv, Unpublished, Publishers, ReaderOK, FileOK, Removable

(* What a process writes is a file. *)
LEMMA Written ==
    ASSUME NEW i \in Nat, NEW v \in Nat
    PROVE  [instance |-> i, version |-> v] # None
BY NoStatusAssumption

(* A new process gets a number that no file and no reader has. *)
LEMMA RegisterStep ==
    ASSUME StatusInv, Register
    PROVE  StatusInv'
<1>1. /\ instances \in Nat /\ instances' = instances + 1 /\ alive' = instances + 1
      /\ reader' = reader /\ DOMAIN reader = Readers
      /\ status' = [instance |-> instances + 1, version |-> 0]
  BY DEF Register, StatusInv
<1>2. ASSUME NEW q, ReaderOK(q, instances)
      PROVE  ReaderOK(q, instances + 1) /\ Removable(q, instances + 1)
  BY <1>1, <1>2 DEF ReaderOK, FileOK, Removable
<1>3. FileOK(status', instances') /\ status'.instance = alive'
  BY <1>1 DEF FileOK
<1>4. \A r \in Readers : ReaderOK(reader'[r], instances') /\ Removable(reader'[r], alive')
  BY <1>1, <1>2 DEF StatusInv
<1>5. status' # None /\ version' \in Nat /\ publisher' \in Publishers
  BY <1>1, Written DEF Register, Unpublished, Publishers
<1> QED
  BY <1>1, <1>3, <1>4, <1>5 DEF StatusInv

(* A step of the running process: the readers stay where they are, and the *)
(* file at the path stays or is the process's own.                         *)
LEMMA ServerKeeps ==
    ASSUME StatusInv, UNCHANGED <<instances, alive, reader, revived>>, alive # 0,
           version' \in Nat, publisher' \in Publishers,
           publisher'.closed = publisher.closed,
           \/ status' = status
           \/ status' = [instance |-> alive, version |-> version]
    PROVE  StatusInv'
<1>1. FileOK(status', instances) /\ (status = None \/ status'.instance = alive \/ status' = status)
  BY DEF StatusInv, FileOK
<1>2. status' = status \/ status' # None
  BY Written DEF StatusInv
<1>3. CASE status' = status
  BY <1>3 DEF StatusInv
<1>4. CASE status' = [instance |-> alive, version |-> version]
  BY <1>1, <1>2, <1>4, Written DEF StatusInv
<1> QED
  BY <1>3, <1>4

LEMMA WriteKeeps ==
    ASSUME StatusInv, NEW state \in Publishers, Write(state)
    PROVE  /\ publisher' \in Publishers /\ publisher'.closed = state.closed
           /\ \/ status' = status
              \/ status' = [instance |-> alive, version |-> version]
BY DEF Write, Publishers, StatusInv

LEMMA ServerStep ==
    ASSUME StatusInv, Change \/ Server
    PROVE  StatusInv'
<1>1. publisher \in Publishers /\ version \in Nat
  BY DEF StatusInv
<1>2. CASE Change
  <2>1. version' \in Nat
    BY <1>1, <1>2 DEF Change
  <2> QED
    BY <1>1, <1>2, <2>1, ServerKeeps DEF Change
<1>3. CASE UpdateCache
  <2>1. CASE publisher.closed
    BY <1>1, <1>3, <2>1, ServerKeeps DEF UpdateCache, Skip
  <2>2. CASE ~publisher.closed
    <3>1. Write(publisher)
      BY <1>3, <2>2 DEF UpdateCache
    <3> QED
      BY <1>1, <1>3, <3>1, WriteKeeps, ServerKeeps DEF UpdateCache
  <2> QED
    BY <2>1, <2>2
<1>4. CASE RecordHit
  <2>1. publisher' \in Publishers /\ publisher'.closed = publisher.closed
    BY <1>1, <1>4 DEF RecordHit, Publishers
  <2> QED
    BY <1>1, <1>4, <2>1, ServerKeeps DEF RecordHit
<1>5. CASE FlushHits
  <2> DEFINE state == [publisher EXCEPT !.pending = FALSE]
  <2>1. state \in Publishers /\ state.closed = publisher.closed
    BY <1>1 DEF Publishers
  <2>2. CASE Skip(state)
    BY <1>1, <1>5, <2>1, <2>2, ServerKeeps DEF FlushHits, Skip
  <2>3. CASE Write(state)
    <3> HIDE DEF state
    <3> QED
      BY <1>1, <1>5, <2>1, <2>3, WriteKeeps, ServerKeeps DEF FlushHits
  <2> QED
    BY <1>5, <2>2, <2>3 DEF FlushHits
<1> QED
  BY <1>2, <1>3, <1>4, <1>5 DEF Server

(* Closing removes the file, and asks for none. *)
LEMMA CloseStep ==
    ASSUME StatusInv, Close
    PROVE  StatusInv'
<1>1. publisher' \in Publishers /\ publisher'.closed
  BY DEF Close, StatusInv, Publishers
<1>2. UNCHANGED <<instances, alive, version, reader, revived>> /\ status' = None
  BY DEF Close, process
<1> QED
  BY <1>1, <1>2 DEF StatusInv, FileOK

LEMMA ExitStep ==
    ASSUME StatusInv, Exit
    PROVE  StatusInv'
<1>1. /\ UNCHANGED <<instances, version, reader, publisher>> /\ alive' = 0
      /\ status' \in {None, status}
  BY DEF Exit
<1>2. FileOK(status', instances)
  BY <1>1 DEF StatusInv, FileOK
<1>3. \A r \in Readers : Removable(reader[r], 0)
  BY DEF Removable
<1> QED
  BY <1>1, <1>2, <1>3 DEF StatusInv

-----------------------------------------------------------------------------
(* Has(q, i): a reader in state q has the status of process i in           *)
(* quarantine.                                                             *)
Has(q, i) == q.quarantine # None /\ q.quarantine.instance = i

(* A step of a reader keeps the invariant if it leaves the reader in a     *)
(* good state, and neither the path nor its quarantine without the status  *)
(* of the running process when one of them had it.                         *)
LEMMA ReaderMoves ==
    ASSUME StatusInv, NEW r \in Readers, NEW q,
           reader' = [reader EXCEPT ![r] = q],
           UNCHANGED <<instances, alive, version, publisher>>,
           revived => revived',
           ReaderOK(q, instances), Removable(q, alive), FileOK(status', instances),
           alive # 0 /\ ~revived' => status' = None \/ status'.instance = alive,
           alive # 0 /\ ~revived' /\ (status # None \/ Has(reader[r], alive)) =>
               status' # None \/ Has(q, alive)
    PROVE  StatusInv'
<1>1. /\ DOMAIN reader = Readers /\ DOMAIN reader' = Readers /\ reader'[r] = q
      /\ \A s \in Readers \ {r} : reader'[s] = reader[s]
  BY DEF StatusInv
<1>2. \A s \in Readers : ReaderOK(reader'[s], instances) /\ Removable(reader'[s], alive)
  BY <1>1 DEF StatusInv
<1>3. ASSUME alive # 0, ~publisher.closed, ~revived'
      PROVE  status' # None \/ Holds(reader', alive)
  <2>1. status # None \/ Holds(reader, alive)
    BY <1>3 DEF StatusInv
  <2>2. CASE status # None \/ Has(reader[r], alive)
    BY <1>1, <1>3, <2>2 DEF Has, Holds
  <2>3. CASE \E s \in Readers \ {r} : Has(reader[s], alive)
    BY <1>1, <2>3 DEF Has, Holds
  <2> QED
    BY <2>1, <2>2, <2>3 DEF Has, Holds
<1> QED
  BY <1>1, <1>2, <1>3 DEF StatusInv

(* What a reader's step starts from *)
LEMMA ReaderState ==
    ASSUME StatusInv, NEW r \in Readers
    PROVE  /\ DOMAIN reader[r] = {"pc", "seen", "quarantine"}
           /\ ReaderOK(reader[r], instances) /\ Removable(reader[r], alive)
           /\ FileOK(status, instances)
           /\ alive # 0 /\ ~revived => status = None \/ status.instance = alive
BY DEF StatusInv, ReaderOK

LEMMA LookStep ==
    ASSUME StatusInv, NEW r \in Readers, ReadStatus(r) \/ Probe(r) \/ ReaderDies(r)
    PROVE  StatusInv'
<1>1. /\ UNCHANGED <<instances, alive, version, publisher, status, revived>>
      /\ reader[r].pc # "killed"
  BY DEF ReadStatus, Probe, ReaderDies, process, At
<1>2. CASE ReadStatus(r)
  <2> DEFINE q == IF status = None THEN [reader[r] EXCEPT !.pc = "done"]
                  ELSE [reader[r] EXCEPT !.pc = "probe", !.seen = status.instance]
  <2>1. reader' = [reader EXCEPT ![r] = q] /\ reader[r].pc = "idle"
    BY <1>2 DEF ReadStatus, At
  <2>2. ReaderOK(q, instances) /\ Removable(q, alive) /\ q.quarantine = reader[r].quarantine
    BY <2>1, ReaderState DEF ReaderOK, Removable, FileOK, StatusInv
  <2> HIDE DEF q
  <2> QED
    BY <1>1, <2>1, <2>2, ReaderState, ReaderMoves DEF Has
<1>3. CASE Probe(r)
  <2> DEFINE q == [reader[r] EXCEPT !.pc = IF reader[r].seen = alive THEN "done" ELSE "dead"]
  <2>1. reader' = [reader EXCEPT ![r] = q] /\ reader[r].pc = "probe"
    BY <1>3 DEF Probe, At, GotoReader
  <2>2. ReaderOK(q, instances) /\ Removable(q, alive) /\ q.quarantine = reader[r].quarantine
    BY <2>1, ReaderState DEF ReaderOK, Removable, FileOK
  <2> HIDE DEF q
  <2> QED
    BY <1>1, <2>1, <2>2, ReaderState, ReaderMoves DEF Has
<1>4. CASE ReaderDies(r)
  <2> DEFINE q == [reader[r] EXCEPT !.pc = "killed"]
  <2>1. reader' = [reader EXCEPT ![r] = q]
    BY <1>4 DEF ReaderDies, GotoReader
  <2>2. ReaderOK(q, instances) /\ Removable(q, alive) /\ q.quarantine = reader[r].quarantine
    BY ReaderState DEF ReaderOK, Removable, FileOK
  <2> HIDE DEF q
  <2> QED
    BY <1>1, <2>1, <2>2, ReaderState, ReaderMoves DEF Has
<1> QED
  BY <1>2, <1>3, <1>4

(* What is moved away is in quarantine. *)
LEMMA QuarantineStep ==
    ASSUME StatusInv, NEW r \in Readers, Quarantine(r)
    PROVE  StatusInv'
<1>1. /\ UNCHANGED <<instances, alive, version, publisher, revived>> /\ status' = None
      /\ reader[r].pc = "dead"
  BY DEF Quarantine, process, At
<1>2. CASE status = None
  <2> DEFINE q == [reader[r] EXCEPT !.pc = "done"]
  <2>1. reader' = [reader EXCEPT ![r] = q]
    BY <1>2 DEF Quarantine, GotoReader
  <2>2. ReaderOK(q, instances) /\ Removable(q, alive) /\ q.quarantine = reader[r].quarantine
    BY <1>1, ReaderState DEF ReaderOK, Removable, FileOK
  <2> HIDE DEF q
  <2> QED
    BY <1>1, <1>2, <2>1, <2>2, ReaderState, ReaderMoves DEF Has
<1>3. CASE status # None
  <2> DEFINE q == [reader[r] EXCEPT !.pc = "recheck", !.quarantine = status]
  <2>1. reader' = [reader EXCEPT ![r] = q]
    BY <1>3 DEF Quarantine
  <2>2. ReaderOK(q, instances) /\ Removable(q, alive) /\ q.quarantine = status
    BY <1>1, <1>3, ReaderState DEF ReaderOK, Removable
  <2> HIDE DEF q
  <2>3. FileOK(status', instances) /\ (alive # 0 /\ ~revived => Has(q, alive))
    BY <1>1, <1>3, <2>2, ReaderState DEF FileOK, Has
  <2> QED
    BY <1>1, <1>3, <2>1, <2>2, <2>3, ReaderMoves
<1> QED
  BY <1>2, <1>3

(* Only a status that a dead process wrote is deleted. *)
LEMMA RecheckStep ==
    ASSUME StatusInv, NEW r \in Readers, RecheckDead(r)
    PROVE  StatusInv'
<1>1. /\ UNCHANGED <<instances, alive, version, publisher, status, revived>>
      /\ reader[r].pc = "recheck"
  BY DEF RecheckDead, process, At
<1>2. CASE reader[r].quarantine.instance = reader[r].seen
  <2> DEFINE q == [reader[r] EXCEPT !.pc = "done", !.quarantine = None]
  <2>1. reader' = [reader EXCEPT ![r] = q]
    BY <1>2 DEF RecheckDead, Emptied
  <2>2. /\ ReaderOK(q, instances) /\ Removable(q, alive)
        /\ alive # 0 => ~Has(reader[r], alive)
    BY <1>1, <1>2, ReaderState DEF ReaderOK, Removable, FileOK, Has
  <2> HIDE DEF q
  <2> QED
    BY <1>1, <2>1, <2>2, ReaderState, ReaderMoves
<1>3. CASE reader[r].quarantine.instance # reader[r].seen
  <2> DEFINE q == [reader[r] EXCEPT !.pc = "link"]
  <2>1. reader' = [reader EXCEPT ![r] = q]
    BY <1>3 DEF RecheckDead, GotoReader
  <2>2. ReaderOK(q, instances) /\ Removable(q, alive) /\ q.quarantine = reader[r].quarantine
    BY <1>1, ReaderState DEF ReaderOK, Removable, FileOK
  <2> HIDE DEF q
  <2> QED
    BY <1>1, <2>1, <2>2, ReaderState, ReaderMoves DEF Has
<1> QED
  BY <1>2, <1>3

(* The status put back is the running process's, or revived is set. *)
LEMMA LinkBackStep ==
    ASSUME StatusInv, NEW r \in Readers, LinkBack(r)
    PROVE  StatusInv'
<1> DEFINE q == [reader[r] EXCEPT !.pc = "done", !.quarantine = None]
<1>1. /\ UNCHANGED <<instances, alive, version, publisher>>
      /\ reader[r].pc = "link" /\ reader' = [reader EXCEPT ![r] = q]
      /\ status' = IF status = None THEN reader[r].quarantine ELSE status
      /\ revived' = (revived \/ (status = None /\ reader[r].quarantine.instance # alive))
  BY DEF LinkBack, process, At, Emptied
<1>2. ReaderOK(q, instances) /\ Removable(q, alive)
  BY <1>1, ReaderState DEF ReaderOK, Removable, FileOK
<1>3. reader[r].quarantine # None /\ FileOK(reader[r].quarantine, instances)
  BY <1>1, ReaderState DEF ReaderOK
<1> HIDE DEF q
<1>4. status' # None /\ FileOK(status', instances)
  BY <1>1, <1>3, ReaderState
<1>5. /\ revived => revived'
      /\ alive # 0 /\ ~revived' => status'.instance = alive
  <2>1. CASE status = None
    BY <1>1, <2>1
  <2>2. CASE status # None
    BY <1>1, <2>2, ReaderState
  <2> QED
    BY <2>1, <2>2
<1> QED
  BY <1>1, <1>2, <1>4, <1>5, ReaderMoves

-----------------------------------------------------------------------------
LEMMA NextStatusInv == StatusInv /\ [StatusNext]_statusVars => StatusInv'
<1> SUFFICES ASSUME StatusInv, [StatusNext]_statusVars
             PROVE  StatusInv'
  OBVIOUS
<1>1. CASE Register
  BY <1>1, RegisterStep
<1>2. CASE Change \/ Server
  BY <1>2, ServerStep
<1>3. CASE Close
  BY <1>3, CloseStep
<1>4. CASE Exit
  BY <1>4, ExitStep
<1>5. ASSUME NEW r \in Readers, Reader(r) \/ ReaderDies(r)
      PROVE  StatusInv'
  BY <1>5, LookStep, QuarantineStep, RecheckStep, LinkBackStep DEF Reader
<1>6. CASE UNCHANGED statusVars
  BY <1>6 DEF statusVars, StatusInv
<1> QED
  BY <1>1, <1>2, <1>3, <1>4, <1>5, <1>6 DEF StatusNext

(* What a reader is about to delete was not written by the process that    *)
(* runs (remove_dead_status_file), in every state of a behaviour.          *)
THEOREM StatusInvariant == StatusSpec => []StatusInv
BY InitStatusInv, NextStatusInv, PTL DEF StatusSpec

(* For any number of processes that get one PID and of readers that list   *)
(* and clean the status files at the same time: the status of a running    *)
(* server that has not closed it is at its path or in a reader's           *)
(* quarantine, as long as no reader has put the status of an earlier       *)
(* process back (remove_dead_status_file).                                 *)
THEOREM LiveStatusKeptHolds == StatusSpec => []LiveStatusKept
BY StatusInvariant, Kept, PTL
=============================================================================
