----------------------------- MODULE IterServer -----------------------------
(***************************************************************************)
(* The echo server that serves one client after the other                  *)
(* (TCPServerDemo/src/server.cxx).                                         *)
(***************************************************************************)
EXTENDS Tcp

CONSTANT NONE   \* no client yet

ASSUME IterAssumption == NONE \notin Conns

VARIABLES pc,           \* "accept", "read", "write", "close"; "killed" by SIGPIPE
          client_sock, message

serverVars == <<pc, client_sock, message>>
vars == <<tcp, serverVars>>

ServerInit == TcpInit /\ pc = "accept" /\ client_sock = NONE /\ message = << >>
-----------------------------------------------------------------------------
AcceptClient(c) == /\ pc = "accept" /\ pc' = "read"
                   /\ Accept(c) /\ client_sock' = c /\ message' = << >>

FirstByte == message' = SubSeq(Data(client_sock), 1, 1)     \* mutant of Taken
Taken == message' = Data(client_sock)

(* A read() that fails is taken for data: write() of (size_t)-1 bytes      *)
(* fails without an effect and the loop goes on.                           *)
Reads == /\ pc = "read"
         /\ \/ ReadData(client_sock) /\ Taken /\ pc' = "write"
            \/ ReadFails(client_sock) /\ UNCHANGED <<message, pc>>
            \/ ReadEof(client_sock) /\ pc' = "close" /\ UNCHANGED message
         /\ UNCHANGED client_sock

OneAnswer == pc' = "close" /\ message' = << >>              \* mutant of ReadsOn

(* memset(), and back to the condition of the while *)
ReadsOn == pc' = "read" /\ message' = << >>

Writes == /\ pc = "write"
          /\ \/ WriteAll(client_sock, message) /\ ReadsOn
             \/ WriteFails(client_sock) /\ ReadsOn
             \/ WriteKills(client_sock) /\ pc' = "killed" /\ UNCHANGED message
          /\ UNCHANGED client_sock

NextClientFirst == pc' = "read"                             \* mutant of AcceptNext
AcceptNext == pc' = "accept"

Closes == pc = "close" /\ AcceptNext /\ UNCHANGED <<tcp, client_sock, message>>

ServerStep == (\E c \in Conns : AcceptClient(c)) \/ Reads \/ Writes \/ Closes

(* The process is scheduled and resets arrive. *)
Fairness == WF_vars(ServerStep) /\ \A c \in Conns : WF_tcp(ResetArrives(c))
-----------------------------------------------------------------------------
ServerTypeOK == /\ tcp \in [Conns -> Connection]
                /\ pc \in {"accept", "read", "write", "close", "killed"}
                /\ client_sock \in Conns \cup {NONE}
                /\ message \in Buffer

Queued(c) == tcp[c].client = "queued"
Accepted(c) == tcp[c].client = "accepted"
Served(c) == Accepted(c) /\ (pc = "accept" \/ client_sock # c)

(* If every client it talks to hangs up some day, whether it reads its     *)
(* answers or not, the server comes to all that are waiting, unless a      *)
(* write() after a reset ends it.                                          *)
ServedInTurn ==
  (\A d \in Conns : Accepted(d) ~> Closed(d)) =>
    \A c \in Conns : Queued(c) ~> (Served(c) \/ pc = "killed")
=============================================================================
