---------------------------- MODULE MCStoredIndex ----------------------------
(* Instances of StoredIndex for TLC.  Contents are numbered in the order   *)
(* of the edits, so a set of contents says which edit has which effect.    *)
EXTENDS StoredIndex, TLC

ServerSymmetry == Permutations(Servers)

OneContext == [s \in Servers |-> "context"]
OwnVariable == [s \in Servers |-> s]
EntriesOfContent == [c \in 0..MaxEdits |-> c + 1]
=============================================================================
