------------------------------ MODULE MCQueries ------------------------------
(* One behaviour of the walk over the POMs, of a question to an index, or  *)
(* of a text that is read; the three do not interact.                      *)
EXTENDS MCModelInputs, MCIndexQueries, MCMavenOutput

NoWalk ==
    /\ pom = [p \in Poms |-> Missing] /\ config = {}
    /\ pending = {} /\ visited = {} /\ inputs = {} /\ references = {} /\ files = 0
    /\ outcome = "declined"
NoQuestion == question = NoAnswer /\ search = NoSearch /\ answer = NoAnswer
NothingToRead == text = NoText /\ loop = NoText /\ reading = NoText

MCInit ==
    \/ Init /\ NoQuestion /\ NothingToRead
    \/ NoWalk /\ QueryInit /\ NothingToRead
    \/ NoWalk /\ NoQuestion /\ OutputInit

MCNext ==
    \/ Next /\ UNCHANGED <<queryVars, outputVars>>
    \/ QueryNext /\ UNCHANGED <<vars, outputVars>>
    \/ OutputNext /\ UNCHANGED <<vars, queryVars>>

MCSpec ==
    /\ MCInit /\ [][MCNext]_<<vars, queryVars, outputVars>>
    /\ WF_<<vars, queryVars, outputVars>>(MCNext)

(* The loops end: the walk over POMs that may refer to each other in       *)
(* circles (walk), the search of a hierarchy that may have cycles          *)
(* (search_type_hierarchy), the matching of a pattern that goes back to    *)
(* its last star (wildcard_matches) and the discovery of modules in        *)
(* directories that may be linked in circles (discover_module).            *)
AllEnd ==
    <>(/\ outcome # "walking"
       /\ question # NoAnswer => answer # NoAnswer
       /\ text # NoText => reading # NoText)
=============================================================================
