----------------------------- MODULE LifoStack -----------------------------
(***************************************************************************)
(* What StackAlloc promises: a last-in first-out stack.  returned is what  *)
(* the last pop() or top() answered, EMPTY when pop() threw because there  *)
(* was nothing to pop.                                                     *)
(***************************************************************************)
EXTENDS Naturals, Sequences

CONSTANTS Data, EMPTY, NONE

VARIABLES stack, returned

vars == <<stack, returned>>

Init == stack = << >> /\ returned = NONE

Push(d) == stack' = <<d>> \o stack /\ UNCHANGED returned

Pop == IF stack = << >>
       THEN returned' = EMPTY /\ UNCHANGED stack
       ELSE returned' = Head(stack) /\ stack' = Tail(stack)

Top == /\ stack # << >>
       /\ returned' = Head(stack) /\ UNCHANGED stack

Clear == stack' = << >> /\ UNCHANGED returned

Next == (\E d \in Data : Push(d)) \/ Pop \/ Top \/ Clear

Spec == Init /\ [][Next]_vars
=============================================================================
