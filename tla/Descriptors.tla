---------------------------- MODULE Descriptors ----------------------------
(***************************************************************************)
(* The table of descriptors of a server process.  accept4() gives out the  *)
(* lowest number that is free, so the number of a closed connection is the *)
(* next one to be used.                                                    *)
(***************************************************************************)
EXTENDS Tcp

CONSTANTS
  Fds,    \* the numbers left for clients
  NONE    \* no connection

ASSUME DescriptorAssumption == Fds \subseteq Nat /\ NONE \notin Conns

VARIABLE conn   \* conn[f]: the connection open as f, or NONE

OpenFds == {f \in Fds : conn[f] # NONE}

AllClosed == conn = [f \in Fds |-> NONE]

AcceptAs(c, f) == /\ Accept(c)
                  /\ f \in Fds \ OpenFds
                  /\ \A g \in Fds \ OpenFds : f <= g
                  /\ conn' = [conn EXCEPT ![f] = c]

(* close() of a number that is not open changes nothing. *)
CloseFd(f) == conn' = [conn EXCEPT ![f] = NONE]

Accepted(c) == tcp[c].client = "accepted"
Released(c) == Accepted(c) /\ \A f \in Fds : conn[f] # c
=============================================================================
