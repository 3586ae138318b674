------------------------------ MODULE WorkPool ------------------------------
(***************************************************************************)
(* What the pool of heavy jobs promises to its callers and to the machine, *)
(* without futures, threads, tokens or permits: HeavyWork implements it.   *)
(*                                                                         *)
(* A job is accepted while there is room, begins its work only while it is *)
(* wanted, and is answered once, unless its request has gone.  Nothing is  *)
(* said about the order in which accepted jobs begin, nor that they do.    *)
(***************************************************************************)
EXTENDS Integers, FiniteSets

CONSTANTS Jobs, Running, Capacity

VARIABLES
    place,   \* of each job: outside, accepted, working, done, failed, left
    answer,  \* what the caller was told
    gone,    \* jobs whose request is gone
    closed   \* whether the pool is shut down

vars == <<place, answer, gone, closed>>

Working == {j \in Jobs : place[j] = "working"}
Inside == {j \in Jobs : place[j] \in {"accepted", "working"}}
Unwanted(j) == closed \/ j \in gone

Init ==
    /\ place = [j \in Jobs |-> "outside"]
    /\ answer = [j \in Jobs |-> "none"]
    /\ gone = {}
    /\ closed = FALSE

Refuse(j) ==
    /\ place[j] = "outside" /\ answer[j] = "none"
    /\ Cardinality(Inside) = Capacity
    /\ answer' = [answer EXCEPT ![j] = "Overloaded"]
    /\ UNCHANGED <<place, gone, closed>>

Accept(j) ==
    /\ place[j] = "outside" /\ answer[j] = "none"
    /\ Cardinality(Inside) < Capacity
    /\ place' = [place EXCEPT ![j] = "accepted"]
    /\ UNCHANGED <<answer, gone, closed>>

Begin(j) ==
    /\ place[j] = "accepted" /\ ~Unwanted(j)
    /\ Cardinality(Working) < Running
    /\ place' = [place EXCEPT ![j] = "working"]
    /\ UNCHANGED <<answer, gone, closed>>

(* A job that is not wanted any more leaves; its caller may be told later. *)
Leave(j) ==
    /\ place[j] = "accepted" /\ Unwanted(j)
    /\ place' = [place EXCEPT ![j] = "left"]
    /\ answer' \in {answer, [answer EXCEPT ![j] = "Cancelled"]}
    /\ answer' # answer => j \notin gone
    /\ UNCHANGED <<gone, closed>>

End(j) ==
    /\ place[j] = "working"
    /\ \E end \in {"done", "failed"} : place' = [place EXCEPT ![j] = end]
    /\ UNCHANGED <<answer, gone, closed>>

(* Nothing is delivered once the pool is closed. *)
AnswerOf(j) ==
    IF place[j] = "failed" THEN "Failed"
    ELSE IF place[j] = "done" /\ ~closed THEN "Ok"
    ELSE "Cancelled"

Answer(j) ==
    /\ place[j] \in {"done", "failed", "left"}
    /\ answer[j] = "none" /\ j \notin gone
    /\ answer' = [answer EXCEPT ![j] = AnswerOf(j)]
    /\ UNCHANGED <<place, gone, closed>>

(* The request goes; the job may leave with it, if it has not begun. *)
Abandon(j) ==
    /\ place[j] # "outside" /\ answer[j] = "none" /\ j \notin gone
    /\ gone' = gone \cup {j}
    /\ \/ UNCHANGED place
       \/ place[j] = "accepted" /\ place' = [place EXCEPT ![j] = "left"]
    /\ UNCHANGED <<answer, closed>>

Close ==
    /\ ~closed
    /\ closed' = TRUE
    /\ UNCHANGED <<place, answer, gone>>

Next ==
    \/ \E j \in Jobs : \/ Refuse(j) \/ Accept(j) \/ Begin(j) \/ Leave(j)
                       \/ End(j) \/ Answer(j) \/ Abandon(j)
    \/ Close

Spec == Init /\ [][Next]_vars
=============================================================================
