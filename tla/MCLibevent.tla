----------------------------- MODULE MCLibevent -----------------------------
(***************************************************************************)
(* An instance of LibeventDialogue for TLC.                                *)
(***************************************************************************)
EXTENDS LibeventDialogue

CONSTANTS c1, c2

(* One client sends a zero before another byte, one sends none. *)
MCNuls == {<<c1, 1>>}
=============================================================================
