---------------------------- MODULE EchoService ----------------------------
(***************************************************************************)
(* What every TCP server of the tutorial promises a client: the bytes it   *)
(* sent come back, in order and without gaps.  A byte is <<c, i>>, the     *)
(* i-th byte the client of connection c sent.                              *)
(***************************************************************************)
EXTENDS Naturals, Sequences

CONSTANT Conns

VARIABLES sent,    \* sent[c]: how many bytes the client has sent
          echoed   \* echoed[c]: what the server has sent back

vars == <<sent, echoed>>

Bytes(c, n) == [i \in 1..n |-> <<c, i>>]

Init == /\ sent = [c \in Conns |-> 0]
        /\ echoed = [c \in Conns |-> << >>]

Send(c) == /\ sent'[c] > sent[c]
           /\ sent' = [sent EXCEPT ![c] = sent'[c]]
           /\ UNCHANGED echoed

Echo(c) == \E n \in Len(echoed[c]) + 1..sent[c] :
             /\ echoed' = [echoed EXCEPT ![c] = Bytes(c, n)]
             /\ UNCHANGED sent

Next == \E c \in Conns : Send(c) \/ Echo(c)

Spec == Init /\ [][Next]_vars
=============================================================================
