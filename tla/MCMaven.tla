------------------------------- MODULE MCMaven -------------------------------
(* The Maven runs of a server and the life of its process.  The two do not *)
(* interact here, and a behaviour is one of the one or of the other.       *)
EXTENDS MavenRunner, ServerLife

VARIABLE subject    \* "runs" or "life"

MCInit == Init /\ LifeInit /\ subject \in {"runs", "life"}

MCNext ==
    \/ subject = "runs" /\ Next /\ UNCHANGED <<lifeVars, subject>>
    \/ subject = "life" /\ LifeNext /\ UNCHANGED <<vars, subject>>

(* Nothing that fairness obliges is enabled in the initial states, in      *)
(* which the other of the two stays.                                       *)
MCSpec == MCInit /\ [][MCNext]_<<vars, lifeVars, subject>> /\ Fairness /\ LifeFairness
=============================================================================
