--------------------------- MODULE MCIndexService ---------------------------
(* Instances of IndexService for TLC.  Roots are numbers so that projects  *)
(* can differ in size.                                                     *)
EXTENDS IndexService, TLC

CallSymmetry == Permutations(Reqs)

QueryOrRefresh == [p \in Reqs |-> {"query", "refresh"}]
(* One call refreshes and the other runs Maven; both query. *)
EachItsOwn ==
    LET first == CHOOSE p \in Reqs : TRUE
    IN [p \in Reqs |-> IF p = first THEN {"query", "refresh"} ELSE {"query", "maven"}]

OneByteEach == [r \in Roots |-> 1]
TwoBytesEach == [r \in Roots |-> 2]
SmallAndLarge == [r \in Roots |-> 2 * r - 1]
=============================================================================
