----------------------------- MODULE MCUserFiles -----------------------------
(* The files of a user that server processes share: the database of stored *)
(* indexes and the status files.  They do not interact, and a behaviour is *)
(* one of the one or of the other.                                         *)
EXTENDS CacheRecovery, RuntimeStatus

VARIABLE subject    \* "database" or "status"

MCInit == Init /\ StatusInit /\ subject \in {"database", "status"}

MCNext ==
    \/ subject = "database" /\ Next /\ UNCHANGED <<statusVars, subject>>
    \/ subject = "status" /\ StatusNext /\ UNCHANGED <<vars, subject>>

MCSpec == MCInit /\ [][MCNext]_<<vars, statusVars, subject>> /\ Fairness /\ StatusFairness
=============================================================================
