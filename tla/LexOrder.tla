------------------------------ MODULE LexOrder ------------------------------
(***************************************************************************)
(* What radix_tree.hpp takes from std::string: the order in which a        *)
(* std::map<std::string, ...> keeps its keys, the longest common prefix    *)
(* and substr().  A string is a sequence of characters and a character is  *)
(* a natural number.                                                       *)
(***************************************************************************)
EXTENDS Naturals, SequencesExt

Nul == << >>

(* std::string::substr(begin, num), for begin <= size() *)
Substr(s, begin, num) == SubSeq(s, begin + 1, Min({begin + num, Len(s)}))

(* The number of leading characters two strings share. *)
CommonLen(a, b) ==
  LET len == Min({Len(a), Len(b)})
  IN  Min({i \in 1..len : a[i] # b[i]} \cup {len + 1}) - 1

(* operator< of std::string *)
LexLess(a, b) ==
  LET n == CommonLen(a, b)
  IN  /\ n < Len(b)
      /\ n = Len(a) \/ a[n + 1] < b[n + 1]

(* The least string of a nonempty set: the key at begin() of a std::map. *)
First(S) == CHOOSE a \in S : \A b \in S \ {a} : LexLess(a, b)

InOrder(s) == \A i \in 1..Len(s) - 1 : LexLess(s[i], s[i + 1])
=============================================================================
