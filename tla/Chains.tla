------------------------------- MODULE Chains -------------------------------
(***************************************************************************)
(* Singly linked lists: next is a function from cells to cells or null.    *)
(* MemoryPool keeps two such lists, the free slots and the blocks, and     *)
(* StackAlloc a third, the nodes of the stack.                             *)
(***************************************************************************)
EXTENDS Naturals, FiniteSets

(* f numbers the n cells of S from the tail, f[1], to the head.            *)
Lists(f, n, S, head, next, null) ==
  /\ f \in [1..n -> S]
  /\ \A s \in S : \E i \in 1..n : f[i] = s
  /\ \A i, j \in 1..n : f[i] = f[j] => i = j
  /\ head = IF n = 0 THEN null ELSE f[n]
  /\ \A i \in 1..n : next[f[i]] = IF i = 1 THEN null ELSE f[i - 1]

(* Following next from head visits every member of S exactly once, leaves  *)
(* S never and ends at null.                                               *)
Chain(S, head, next, null) ==
  /\ IsFiniteSet(S)
  /\ \E f \in [1..Cardinality(S) -> S] :
       Lists(f, Cardinality(S), S, head, next, null)
=============================================================================
