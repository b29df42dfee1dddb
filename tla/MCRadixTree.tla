----------------------------- MODULE MCRadixTree -----------------------------
(***************************************************************************)
(* Instances of RadixTree for TLC: strings over the two characters 1 and 2.*)
(***************************************************************************)
EXTENDS RadixTree

(* Chains of prefixes, siblings that split in the middle of a label and    *)
(* the empty string.                                                       *)
MCKeys == {<< >>, <<1>>, <<1, 1, 2>>, <<1, 2, 1>>, <<1, 2, 2>>}

(* every string of up to two characters, the keys, and one beside them *)
MCQueries == UNION {[1..n -> {1, 2}] : n \in 0..2} \cup MCKeys \cup {<<1, 1, 1>>}
=============================================================================
