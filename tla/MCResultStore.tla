---------------------------- MODULE MCResultStore ----------------------------
(* An instance of ResultStore for TLC: "a" is a plain character, "w" one   *)
(* of two bytes, "q" one byte that escapes to many.  The texts are one     *)
(* that fits a response, one of a single page, one of two pages that fill  *)
(* their budget and one that the store refuses.  Two of the second fill    *)
(* the store by their number, the second and the third by their bytes.     *)
EXTENDS ResultStore

MixedTexts ==
    {<<"a">>, <<"a", "w">>, <<"a", "w", "q">>, <<"a", "a", "w", "w", "w">>}
Lengths == [a |-> 1, w |-> 2, q |-> 1]
Costs == [a |-> 2, w |-> 4, q |-> 6]
=============================================================================
