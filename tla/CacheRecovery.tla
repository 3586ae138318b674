---------------------------- MODULE CacheRecovery ----------------------------
(***************************************************************************)
(* How the processes of one user share the database of the persistent      *)
(* index cache and replace it when it is damaged (src/index_cache.rs).     *)
(*                                                                         *)
(* A lock file orders recoveries: whoever opens the database holds it      *)
(* shared, whoever replaces the database holds it exclusively.  Its text   *)
(* is the recovery epoch, which tells a process whether the file it found  *)
(* damaged is still the one at the path.  SQLite's transactions are        *)
(* atomic, so what matters of a database is which file it is and whether   *)
(* it is damaged; a file without a schema yet is completed by anybody who  *)
(* opens it.  A process may be connected to a file that was deleted.       *)
(***************************************************************************)
EXTENDS Integers, FiniteSets

CONSTANTS
    Procs,          \* server processes
    MaxOperations,  \* bound on the cache operations of all processes
    MaxDamages      \* bound on the files that get damaged

ASSUME RecoveryAssumption == MaxOperations \in Nat /\ MaxDamages \in Nat

VARIABLES
    file,      \* the database file at the path, 0 when there is none
    files,     \* database files created so far, numbered from 1
    damaged,   \* files that are corrupt or of another format
    epoch,     \* the epoch in the lock file, 0 when it is empty
    pc,        \* where each process is
    tries,     \* what a damaged database means to the running operation
    outer,     \* epoch that write read before its first attempt
    observed,  \* epoch that goes with the latest diagnosis
    conn,      \* file each process is connected to
    begun,     \* operations begun so far
    lost       \* history: a recovery deleted the file and recorded no epoch

vars == <<file, files, damaged, epoch, pc, tries, outer, observed, conn, begun, lost>>
disk == <<file, files, damaged, epoch>>

(* Mutant: open keeps its shared lock while it waits to recover. *)
SharedWhileRecovering == \E p \in Procs : pc[p] \in {"opening", "recover"}

SharedHeld == \E p \in Procs : pc[p] = "opening"

ExclusiveSteps == {"reset", "truncate", "stamp", "reopen"}
ExclusiveHeld == \E p \in Procs : pc[p] \in ExclusiveSteps

Goto(p, step) == pc' = [pc EXCEPT ![p] = step]

(* The operation returns; its local variables go. *)
End(p) ==
    /\ Goto(p, "idle")
    /\ tries' = [tries EXCEPT ![p] = "last"]
    /\ outer' = [outer EXCEPT ![p] = 0]
    /\ observed' = [observed EXCEPT ![p] = 0]
    /\ conn' = [conn EXCEPT ![p] = 0]

Init ==
    /\ file = 0 /\ files = 0 /\ damaged = {} /\ epoch = 0
    /\ pc = [p \in Procs |-> "idle"]
    /\ tries = [p \in Procs |-> "last"]
    /\ outer = [p \in Procs |-> 0]
    /\ observed = [p \in Procs |-> 0]
    /\ conn = [p \in Procs |-> 0]
    /\ begun = 0
    /\ lost = FALSE

-----------------------------------------------------------------------------
(* reader, load_classpath and forget_project_classpaths open the database  *)
(* once; write reads the epoch first and tries a second time.              *)
Begin(p) ==
    /\ pc[p] = "idle"
    /\ begun < MaxOperations
    /\ begun' = begun + 1
    /\ \/ Goto(p, "open") /\ tries' = [tries EXCEPT ![p] = "last"]
       \/ Goto(p, "epoch") /\ tries' = [tries EXCEPT ![p] = "first"]
    /\ UNCHANGED <<disk, outer, observed, conn, lost>>

(* recovery_epoch, in write *)
RecoveryEpoch(p) ==
    /\ pc[p] = "epoch"
    /\ ~ExclusiveHeld
    /\ outer' = [outer EXCEPT ![p] = epoch]
    /\ Goto(p, "open")
    /\ UNCHANGED <<disk, tries, observed, conn, begun, lost>>

(* open: the epoch is read under the shared lock that is held until the    *)
(* database is open.                                                       *)
LockShared(p) ==
    /\ pc[p] = "open"
    /\ ~ExclusiveHeld
    /\ observed' = [observed EXCEPT ![p] = epoch]
    /\ Goto(p, "opening")
    /\ UNCHANGED <<disk, tries, outer, conn, begun, lost>>

(* try_open creates a missing file. *)
Opened == IF file = 0 THEN files + 1 ELSE file

CreateIfMissing ==
    /\ file' = Opened
    /\ files' = IF file = 0 THEN files + 1 ELSE files
    /\ UNCHANGED <<damaged, epoch>>

OpenDatabase(p) ==
    /\ pc[p] = "opening"
    /\ CreateIfMissing
    /\ \/ /\ file \in damaged
          /\ Goto(p, "recover")
          /\ UNCHANGED conn
       \/ /\ file \notin damaged
          /\ Goto(p, "connected")
          /\ conn' = [conn EXCEPT ![p] = Opened]
    /\ UNCHANGED <<tries, outer, observed, begun, lost>>

-----------------------------------------------------------------------------
(* Mutant: the epoch is not looked at again under the exclusive lock. *)
LockAndReset(p) ==
    /\ pc[p] = "recover"
    /\ ~SharedHeld /\ ~ExclusiveHeld
    /\ Goto(p, "reset")
    /\ UNCHANGED <<disk, tries, outer, observed, conn, begun, lost>>

(* recover, under the exclusive lock up to and including the reopening.    *)
LockExclusive(p) ==
    /\ pc[p] = "recover"
    /\ ~SharedHeld /\ ~ExclusiveHeld
    /\ Goto(p, IF epoch = observed[p] THEN "reset" ELSE "reopen")
    /\ UNCHANGED <<disk, tries, outer, observed, conn, begun, lost>>

Reset(p) ==
    /\ pc[p] = "reset"
    /\ file' = 0
    /\ Goto(p, "truncate")
    /\ UNCHANGED <<files, damaged, epoch, tries, outer, observed, conn, begun, lost>>

(* write_epoch empties the lock file before it writes. *)
TruncateEpoch(p) ==
    /\ pc[p] = "truncate"
    /\ epoch' = 0
    /\ Goto(p, "stamp")
    /\ UNCHANGED <<file, files, damaged, tries, outer, observed, conn, begun, lost>>

WriteEpoch(p) ==
    /\ pc[p] = "stamp"
    /\ epoch' = observed[p] + 1
    /\ Goto(p, "reopen")
    /\ UNCHANGED <<file, files, damaged, tries, outer, observed, conn, begun, lost>>

(* The operation ran into a damaged database outside open's own diagnosis: *)
(* write recovers with the epoch it read first and tries once more, every  *)
(* other operation ends.                                                   *)
Damaged(p) ==
    \/ /\ tries[p] = "first"
       /\ Goto(p, "recover")
       /\ tries' = [tries EXCEPT ![p] = "recovering"]
       /\ observed' = [observed EXCEPT ![p] = outer[p]]
       /\ conn' = [conn EXCEPT ![p] = 0]
       /\ UNCHANGED outer
    \/ /\ tries[p] # "first"
       /\ End(p)

Reopen(p) ==
    /\ pc[p] = "reopen"
    /\ CreateIfMissing
    /\ \/ /\ file \in damaged
          /\ Damaged(p)
       \/ /\ file \notin damaged
          /\ tries[p] = "recovering"
          /\ tries' = [tries EXCEPT ![p] = "last"]
          /\ Goto(p, "open")
          /\ UNCHANGED <<outer, observed, conn>>
       \/ /\ file \notin damaged
          /\ tries[p] # "recovering"
          /\ Goto(p, "connected")
          /\ conn' = [conn EXCEPT ![p] = Opened]
          /\ UNCHANGED <<tries, outer, observed>>
    /\ UNCHANGED <<begun, lost>>

(* The statements of the operation on its connection, without any lock.    *)
Execute(p) ==
    /\ pc[p] = "connected"
    /\ \/ /\ conn[p] \in damaged
          /\ Damaged(p)
       \/ /\ conn[p] \notin damaged
          /\ End(p)
    /\ UNCHANGED <<disk, begun, lost>>

-----------------------------------------------------------------------------
(* The database at the path gets damaged. *)
Damage ==
    /\ file # 0
    /\ Cardinality(damaged) < MaxDamages
    /\ damaged' = damaged \union {file}
    /\ UNCHANGED <<file, files, epoch, pc, tries, outer, observed, conn, begun, lost>>

(* A process dies or its operation ends with an error: its locks go.       *)
Interrupt(p) ==
    /\ pc[p] \notin {"idle", "truncate", "stamp"}
    /\ End(p)
    /\ UNCHANGED <<disk, begun, lost>>

InterruptAfterReset(p) ==
    /\ pc[p] \in {"truncate", "stamp"}
    /\ End(p)
    /\ lost' = TRUE
    /\ UNCHANGED <<disk, begun>>

Step(p) ==
    \/ RecoveryEpoch(p) \/ LockShared(p) \/ OpenDatabase(p)
    \/ LockExclusive(p) \/ Reset(p) \/ TruncateEpoch(p) \/ WriteEpoch(p) \/ Reopen(p)
    \/ Execute(p)

Next ==
    \/ \E p \in Procs : Begin(p) \/ Step(p) \/ Interrupt(p) \/ InterruptAfterReset(p)
    \/ Damage

(* A running operation goes on when it can; nobody has to start one.       *)
Fairness == \A p \in Procs : WF_vars(Step(p))

Spec == Init /\ [][Next]_vars /\ Fairness

-----------------------------------------------------------------------------
Steps == {"idle", "epoch", "open", "opening", "recover", "connected"} \union ExclusiveSteps

TypeOK ==
    /\ files \in Nat /\ file \in 0 .. files /\ damaged \subseteq 1 .. files
    /\ epoch \in Nat
    /\ pc \in [Procs -> Steps]
    /\ tries \in [Procs -> {"first", "recovering", "last"}]
    /\ outer \in [Procs -> Nat] /\ observed \in [Procs -> Nat]
    /\ conn \in [Procs -> 0 .. files]
    /\ begun \in Nat /\ lost \in BOOLEAN

(* As long as no recovery was cut short between deleting the file and      *)
(* recording it, a database that is not damaged is never deleted: of all   *)
(* processes that found one file damaged only the first replaces it,       *)
(* however late the others come and whatever the file's successor is       *)
(* connected to by then (recover, open, write).                            *)
GoodDatabaseKept ==
    [][~lost /\ file # 0 /\ file \notin damaged => file' = file]_vars

(* The same without the condition, as recover's comment has it.            *)
DiagnosedFileReplaced ==
    [][file # 0 /\ file \notin damaged => file' = file]_vars

(* No operation waits for ever for the lock, least of all for its own: the *)
(* shared lock is given back before the exclusive one is asked for.        *)
OperationsEnd == \A p \in Procs : pc[p] # "idle" ~> pc[p] = "idle"
=============================================================================
