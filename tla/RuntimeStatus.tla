---------------------------- MODULE RuntimeStatus ----------------------------
(***************************************************************************)
(* The status file of a server process and the readers that list and clean *)
(* such files (src/runtime_stats.rs, and src/server.rs where it publishes).*)
(*                                                                         *)
(* A status file is named after the PID of its process, so only processes  *)
(* with the same PID meet at one path.  The model follows one PID: its     *)
(* successive processes are numbered, at most one of them runs at a time.  *)
(* A file is the process that wrote it and the version of the cache it     *)
(* describes.  Writing goes through a temporary file and a rename, which   *)
(* makes it one step.                                                      *)
(***************************************************************************)
EXTENDS Integers, FiniteSets

CONSTANTS
    Readers,       \* runs of `maven-mcp stats`, each made once
    MaxInstances,  \* bound on the processes that get the PID
    MaxVersion,    \* bound on the changes of the first process's cache, and of each
                   \* later one's less by one
    None

(* No file is no status. *)
ASSUME NoStatusAssumption == None \notin [instance : Nat, version : Nat]

VARIABLES
    status,      \* the file at <pid>.json, or None
    instances,   \* processes that had the PID so far
    alive,       \* the one that runs, or 0
    version,     \* version of its cache, counted by every change and hit
    changes,     \* changes whose calls have yet to publish the status
    hits,        \* hits counted in the cache that their calls have yet to record
    publisher,   \* PublisherState: dirty, pending, closed, and the version written
    reader,      \* step, the status seen, and what is in quarantine
    failed,      \* history: a write failed in the running process
    revived      \* history: the status of an earlier process was put back meanwhile

statusVars ==
    <<status, instances, alive, version, changes, hits, publisher, reader, failed, revived>>
process == <<instances, alive, version, changes, hits, failed>>

Unpublished == [dirty |-> FALSE, pending |-> FALSE, closed |-> FALSE, written |-> 0]

StatusInit ==
    /\ status = None
    /\ instances = 0 /\ alive = 0
    /\ version = 0 /\ changes = 0 /\ hits = 0
    /\ publisher = Unpublished
    /\ reader = [r \in Readers |-> [pc |-> "idle", seen |-> 0, quarantine |-> None]]
    /\ failed = FALSE /\ revived = FALSE

-----------------------------------------------------------------------------
(* register: a new process publishes its first status. *)
Register ==
    /\ alive = 0
    /\ instances < MaxInstances
    /\ instances' = instances + 1
    /\ alive' = instances + 1
    /\ version' = 0 /\ changes' = 0 /\ hits' = 0
    /\ failed' = FALSE /\ revived' = FALSE
    /\ publisher' = Unpublished
    /\ status' = [instance |-> instances + 1, version |-> 0]
    /\ UNCHANGED reader

(* A call changes the cache, or counts a hit in it, under the cache mutex; *)
(* what it does about the status comes later.                              *)
Change ==
    /\ alive # 0
    /\ version + instances <= MaxVersion
    /\ version' = version + 1
    /\ \/ changes' = changes + 1 /\ UNCHANGED hits
       \/ hits' = hits + 1 /\ UNCHANGED changes
    /\ UNCHANGED <<status, instances, alive, publisher, reader, failed, revived>>

(* write: dirty is cleared first, also when the file is not written then.  *)
Write(state) ==
    \/ /\ status' = [instance |-> alive, version |-> version]
       /\ publisher' = [state EXCEPT !.dirty = FALSE, !.written = version]
       /\ UNCHANGED failed
    \/ /\ failed' = TRUE
       /\ publisher' = [state EXCEPT !.dirty = FALSE]
       /\ UNCHANGED status

Skip(state) == publisher' = state /\ UNCHANGED <<status, failed>>

(* publish_runtime_status, update_cache *)
UpdateCache ==
    /\ alive # 0
    /\ changes > 0
    /\ changes' = changes - 1
    /\ IF publisher.closed THEN Skip(publisher) ELSE Write(publisher)
    /\ UNCHANGED <<instances, alive, version, hits, reader, revived>>

(* Mutant: a hit during a scheduled write counts as covered. *)
RecordHitUnlessPending ==
    /\ alive # 0
    /\ hits > 0
    /\ hits' = hits - 1
    /\ publisher' = IF publisher.closed \/ publisher.pending THEN publisher
                    ELSE [publisher EXCEPT !.dirty = TRUE, !.pending = TRUE]
    /\ UNCHANGED <<status, instances, alive, version, changes, reader, failed, revived>>

(* publish_runtime_status_after_hit, record_hit: the first hit schedules a *)
(* write, at once or after a delay.                                        *)
RecordHit ==
    /\ alive # 0
    /\ hits > 0
    /\ hits' = hits - 1
    /\ publisher' = IF publisher.closed THEN publisher
                    ELSE [publisher EXCEPT !.dirty = TRUE, !.pending = TRUE]
    /\ UNCHANGED <<status, instances, alive, version, changes, reader, failed, revived>>

(* flush_runtime_hits, flush_hits: the scheduled write *)
FlushHits ==
    LET state == [publisher EXCEPT !.pending = FALSE]
    IN  /\ alive # 0
        /\ publisher.pending
        /\ IF publisher.closed \/ ~publisher.dirty THEN Skip(state) ELSE Write(state)
        /\ UNCHANGED <<instances, alive, version, changes, hits, reader, revived>>

(* close removes whatever is at the path. *)
Close ==
    /\ alive # 0
    /\ ~publisher.closed
    /\ publisher' = [publisher EXCEPT !.closed = TRUE]
    /\ status' = None
    /\ UNCHANGED <<process, reader, revived>>

(* The process ends, with its destructors or without. *)
Exit ==
    /\ alive # 0
    /\ alive' = 0
    /\ \/ status' = None
       \/ UNCHANGED status
    /\ UNCHANGED <<instances, version, changes, hits, publisher, reader, failed, revived>>

-----------------------------------------------------------------------------
At(r, pc) == reader[r].pc = pc
GotoReader(r, pc) == reader' = [reader EXCEPT ![r].pc = pc]

(* read_runtime_report_from: read_status_file *)
ReadStatus(r) ==
    /\ At(r, "idle")
    /\ reader' = [reader EXCEPT ![r] =
           IF status = None THEN [@ EXCEPT !.pc = "done"]
           ELSE [@ EXCEPT !.pc = "probe", !.seen = status.instance]]
    /\ UNCHANGED <<status, process, publisher, revived>>

(* instance_liveness: the PID is looked up, then its start time.           *)
Probe(r) ==
    /\ At(r, "probe")
    /\ GotoReader(r, IF reader[r].seen = alive THEN "done" ELSE "dead")
    /\ UNCHANGED <<status, process, publisher, revived>>

(* Mutant: the dead process's file is removed by its name. *)
RemoveByName(r) ==
    /\ At(r, "dead")
    /\ status' = None
    /\ GotoReader(r, "done")
    /\ UNCHANGED <<process, publisher, revived>>

(* remove_dead_status_file: the file is moved away and looked at again.    *)
Quarantine(r) ==
    /\ At(r, "dead")
    /\ \/ status = None /\ GotoReader(r, "done")
       \/ status # None /\ reader' = [reader EXCEPT ![r].pc = "recheck", ![r].quarantine = status]
    /\ status' = None
    /\ UNCHANGED <<process, publisher, revived>>

Emptied(r) == reader' = [reader EXCEPT ![r].pc = "done", ![r].quarantine = None]

RecheckDead(r) ==
    /\ At(r, "recheck")
    /\ IF reader[r].quarantine.instance = reader[r].seen THEN Emptied(r)
       ELSE GotoReader(r, "link")
    /\ UNCHANGED <<status, process, publisher, revived>>

(* hard_link fails when there is a file at the path. *)
LinkBack(r) ==
    /\ At(r, "link")
    /\ status' = IF status = None THEN reader[r].quarantine ELSE status
    /\ revived' = (revived \/ (status = None /\ reader[r].quarantine.instance # alive))
    /\ Emptied(r)
    /\ UNCHANGED <<process, publisher>>

(* The reader is killed; what is in quarantine stays there. *)
ReaderDies(r) ==
    /\ reader[r].pc \in {"recheck", "link"}
    /\ GotoReader(r, "killed")
    /\ UNCHANGED <<status, process, publisher, revived>>

Server == UpdateCache \/ RecordHit \/ FlushHits
Reader(r) == ReadStatus(r) \/ Probe(r) \/ Quarantine(r) \/ RecheckDead(r) \/ LinkBack(r)

StatusNext ==
    \/ Register \/ Change \/ Server \/ Close \/ Exit
    \/ \E r \in Readers : Reader(r) \/ ReaderDies(r)

(* Calls and scheduled writes of a running process go on. *)
StatusFairness == WF_statusVars(UpdateCache) /\ WF_statusVars(RecordHit) /\ WF_statusVars(FlushHits)

StatusSpec == StatusInit /\ [][StatusNext]_statusVars /\ StatusFairness

-----------------------------------------------------------------------------
Quarantined(i) ==
    \E r \in Readers : reader[r].quarantine # None /\ reader[r].quarantine.instance = i

(* "Only a process proven gone has its file deleted": the status of a      *)
(* running server that has not closed it is at its path or in the          *)
(* quarantine of a reader, although a reader may take it for the file of   *)
(* an earlier process with the same PID (remove_dead_status_file).  It can *)
(* be lost only after another reader put the status of an earlier process  *)
(* back: then hard_link finds that one and not "a newer publication".      *)
LiveStatusKept ==
    alive # 0 /\ ~publisher.closed /\ ~revived =>
        \/ status # None /\ status.instance = alive
        \/ Quarantined(alive)

(* Every hit and every change reaches the file, unless the server stops    *)
(* first or cannot write: a hit is covered by the write that is scheduled  *)
(* when it is recorded (record_hit, flush_hits).                           *)
ChangesArePublished ==
    \A v \in 1 .. MaxVersion :
        (alive # 0 /\ version = v) ~>
            (publisher.written >= v \/ publisher.closed \/ failed \/ alive = 0)
=============================================================================
