-------------------------- MODULE LibeventDialogue --------------------------
(***************************************************************************)
(* The libevent server and its clients, which run                          *)
(* libevent_client_withbuffer.cxx.  Each is one thread in                  *)
(* event_base_dispatch(), so that a handler is one step, as in the server. *)
(***************************************************************************)
EXTENDS LibeventServer, FiniteSets

CONSTANTS
  LineSize,     \* the most bytes the client takes from the terminal at a time
  ClientBuf     \* the most bytes its char msg[] takes from the input buffer

ASSUME ClientAssumption == LineSize \in Nat \ {0} /\ ClientBuf \in Nat \ {0}

VARIABLE client   \* client[c]: the client of connection c

vars == <<tcp, baseVars, client>>

Client ==
  [pc    : {"start", "dispatch", "finished", "gone", "overrun"},
   bev   : Buffers,
   cmd   : BOOLEAN,        \* ev_cmd, the event of the terminal, is there
   typed : 0..MaxBytes]    \* bytes read from the terminal

Init ==
  /\ TcpInit /\ BaseInit
  /\ client = [c \in Conns |-> [pc |-> "start", bev |-> "none", cmd |-> FALSE,
                                typed |-> 0]]
-----------------------------------------------------------------------------
(* A client. *)

Set(c, value) == client' = [client EXCEPT ![c] = value]
Runs(c) == client[c].pc = "dispatch"
Alive(c) == Runs(c) /\ client[c].bev = "open"

(* tcp_connect_server(); a refused connection ends the program. *)
Connects(c) ==
  /\ client[c].pc = "start"
  /\ \/ /\ base = "dispatch" /\ Connect(c)
        /\ Set(c, [client[c] EXCEPT !.pc = "dispatch", !.bev = "open", !.cmd = TRUE])
     \/ /\ base # "dispatch" /\ UNCHANGED tcp
        /\ Set(c, [client[c] EXCEPT !.pc = "finished"])
  /\ UNCHANGED baseVars

(* cmd_msg_cb().  At the end of its input it writes no bytes, for ever. *)
CmdMsgCb(c) ==
  /\ Runs(c) /\ client[c].cmd
  /\ \E n \in 1..Smaller(LineSize, MaxBytes - client[c].typed) :
       Set(c, [client[c] EXCEPT !.typed = @ + n])
  /\ UNCHANGED <<tcp, baseVars>>

\* the output buffer holds the bytes that were typed and not sent
ClientWrites(c) == /\ Alive(c) /\ Send(c) /\ tcp'[c].sent <= client[c].typed
                   /\ UNCHANGED <<client, baseVars>>

(* server_msg_cb() shows what has come, in which there is no zero.  The    *)
(* zero it writes behind a full msg is out of bounds: anything may happen, *)
(* and the model follows the client no further.                            *)
ClientReads(c) ==
  /\ Alive(c) /\ Receive(c)
  /\ IF tcp[c].unread - tcp'[c].unread >= ClientBuf
     THEN Set(c, [client[c] EXCEPT !.pc = "overrun"])
     ELSE UNCHANGED client
  /\ UNCHANGED baseVars

EventKept(c) == client[c].cmd                      \* mutant of FreesEvent
FreesEvent(c) == FALSE

(* event_cb(): the server is gone, and what it sent may be lost. *)
ClientEventCb(c) ==
  /\ Alive(c) /\ base = "killed"
  /\ Set(c, [client[c] EXCEPT !.bev = "freed", !.cmd = FreesEvent(c)])
  /\ UNCHANGED <<tcp, baseVars>>

(* event_base_dispatch() returns when no event is left. *)
Finishes(c) == /\ Runs(c) /\ client[c].bev = "freed" /\ ~client[c].cmd
               /\ Set(c, [client[c] EXCEPT !.pc = "finished"])
               /\ UNCHANGED <<tcp, baseVars>>

(* A signal, or the _exit() of cmd_msg_cb(). *)
Leaves(c) == /\ Alive(c) /\ Close(c)
             /\ Set(c, [client[c] EXCEPT !.pc = "gone"])
             /\ UNCHANGED baseVars

ClientStep(c) == ClientWrites(c) \/ ClientReads(c) \/ ClientEventCb(c) \/ Finishes(c)
-----------------------------------------------------------------------------
Arrives(c) == ResetArrives(c) /\ UNCHANGED <<baseVars, client>>

Next == \/ BaseStep /\ UNCHANGED client
        \/ \E c \in Conns : \/ ClientStep(c) \/ Arrives(c)
                            \/ Connects(c) \/ CmdMsgCb(c) \/ Leaves(c)

Spec == Init /\ [][Next]_vars

(* The event loops run and resets arrive; nothing is assumed of the users. *)
(* One condition is enough: none of the steps can be repeated for ever.    *)
FairSpec ==
  Spec /\ WF_vars(\/ BaseStep /\ UNCHANGED client
                  \/ \E c \in Conns : ClientStep(c) \/ Arrives(c))
-----------------------------------------------------------------------------
TypeOK == BaseTypeOK /\ client \in [Conns -> Client]

Shown(c) == SubSeq(tcp[c].echoed, 1, Len(tcp[c].echoed) - tcp[c].unread)

(* The server has read byte k, and it is not in its answers. *)
CutOff(c, k) == /\ \A i \in 1..Len(tcp[c].up) : tcp[c].up[i][2] > k
                /\ Skipped(c, tcp[c].echoed \o output[c], k)

(* What a user types comes back on his terminal, but for what a zero he    *)
(* typed cuts off, unless the connection ends or one of the two programs   *)
(* writes past an array.                                                   *)
ShownInTheEnd ==
  /\ []TypeOK
  /\ \A c \in Conns : \A k \in 1..MaxBytes :
       client[c].typed >= k
         ~> \/ \E i \in Own(Shown(c)) : Shown(c)[i] = <<c, k>>
            \/ tcp[c].sent >= k /\ CutOff(c, k)
            \/ Closed(c) \/ client[c].pc = "overrun" \/ base \in {"killed", "overrun"}

(* When one end goes, the other frees its bufferevent, and a client whose  *)
(* server has gone returns from its loop, until one of them writes past an *)
(* array.                                                                  *)
EndsReleased ==
  \A c \in Conns :
    /\ (bev[c] = "open" /\ Closed(c)) ~> (bev[c] = "freed" \/ base \in {"killed", "overrun"})
    /\ (Runs(c) /\ base = "killed") ~> ~Runs(c)
=============================================================================
