----------------------------- MODULE ForkServer -----------------------------
(***************************************************************************)
(* The echo server that forks a child per client                           *)
(* (TCPServerDemoMultiProcess/src/server.cxx).  The parent accepts, forks  *)
(* and closes its copy of the socket; SIGCHLD interrupts it anywhere and   *)
(* its handler waits for one child.  A child is named by the connection it *)
(* was forked for.                                                         *)
(***************************************************************************)
EXTENDS Tcp, FiniteSets

CONSTANTS Parent, Serv   \* the process, and the listening socket

ASSUME NamesAssumption ==
  IsFiniteSet(Conns) /\ Parent \notin Conns /\ Serv \notin Conns

VARIABLES
  pc,           \* where the parent is in fork_workproc()
  client_sock,  \* its local variable
  fds,          \* fds[p]: the sockets process p has open
  child,        \* child[c]: the state of the child as the kernel keeps it
  cpc, buf,     \* where the child is in ChildProcessWork(), and its buf
  sigchld,      \* SIGCHLD is pending for the parent: one bit, not a count
  handler,      \* the parent is inside read_childproc()
  coalesced     \* history: SIGCHLDs raised while one was pending

vars == <<tcp, pc, client_sock, fds, child, cpc, buf, sigchld, handler, coalesced>>

parentVars == <<pc, client_sock>>
childVars == <<cpc, buf>>
signalVars == <<sigchld, handler, coalesced>>

Procs == {Parent} \cup Conns

Init ==
  /\ TcpInit
  /\ pc = "accept" /\ client_sock = Serv
  /\ fds = [p \in Procs |-> IF p = Parent THEN {Serv} ELSE {}]
  /\ child = [c \in Conns |-> "none"]
  /\ cpc = [c \in Conns |-> "start"]
  /\ buf = [c \in Conns |-> << >>]
  /\ sigchld = FALSE /\ handler = FALSE /\ coalesced = 0
-----------------------------------------------------------------------------
NotClosed(p, sock) == UNCHANGED fds                 \* mutant of Closes

(* close(sock) in process p *)
Closes(p, sock) == fds' = [fds EXCEPT ![p] = @ \ {sock}]

(* The parent: fork_workproc().  An accept4() that fails, with EINTR for   *)
(* one, changes nothing and is called again.                               *)

ParentAccept(c) ==
  /\ ~handler /\ pc = "accept"
  /\ Accept(c)
  /\ client_sock' = c
  /\ fds' = [fds EXCEPT ![Parent] = @ \cup {c}]
  /\ pc' = "fork"
  /\ UNCHANGED <<child, childVars, signalVars>>

ParentForks ==
  /\ ~handler /\ pc = "fork"
  /\ child' = [child EXCEPT ![client_sock] = "running"]
  /\ fds' = [fds EXCEPT ![client_sock] = fds[Parent]]
  /\ pc' = "close"
  /\ UNCHANGED <<tcp, client_sock, childVars, signalVars>>

(* close(client_sock), in the parent or because fork() failed *)
ParentClosesClient ==
  /\ ~handler /\ pc \in {"fork", "close"}
  /\ Closes(Parent, client_sock)
  /\ pc' = "accept"
  /\ UNCHANGED <<tcp, client_sock, child, childVars, signalVars>>
-----------------------------------------------------------------------------
(* SIGCHLD: delivered anywhere in the parent, blocked in its own handler *)

SignalDelivered ==
  /\ sigchld /\ ~handler
  /\ sigchld' = FALSE /\ handler' = TRUE
  /\ UNCHANGED <<tcp, parentVars, fds, child, childVars, coalesced>>

Zombies == {c \in Conns : child[c] = "zombie"}

WaitForNone == UNCHANGED child                      \* mutant of WaitForOne

(* waitpid(-1, &status, WNOHANG) *)
WaitForOne == IF Zombies = {} THEN UNCHANGED child
              ELSE \E c \in Zombies : child' = [child EXCEPT ![c] = "reaped"]

read_childproc ==
  /\ handler
  /\ WaitForOne
  /\ handler' = FALSE
  /\ UNCHANGED <<tcp, parentVars, fds, childVars, sigchld, coalesced>>
-----------------------------------------------------------------------------
(* A child: ChildProcessWork() *)

At(c, place) == child[c] = "running" /\ cpc[c] = place

Goto(c, place) == cpc' = [cpc EXCEPT ![c] = place]

ChildClosesServ(c) ==
  /\ At(c, "start") /\ Goto(c, "read")
  /\ Closes(c, Serv)
  /\ UNCHANGED <<tcp, parentVars, child, buf, signalVars>>

FilledForAll(c) == [d \in Conns |-> Data(c)]        \* mutant of Filled
Filled(c) == [buf EXCEPT ![c] = Data(c)]

(* After a read() that answers -1 the child writes (size_t)-1 bytes, which *)
(* fails without an effect, and reads again.                               *)
ChildReads(c) ==
  /\ At(c, "read")
  /\ \/ /\ ReadData(c) /\ buf' = Filled(c)
        /\ Goto(c, "write")
     \/ ReadFails(c) /\ UNCHANGED childVars
     \/ ReadEof(c) /\ Goto(c, "close") /\ UNCHANGED buf
  /\ UNCHANGED <<parentVars, fds, child, signalVars>>

(* The process ends, by _exit() or by SIGPIPE; the kernel closes its       *)
(* sockets and raises SIGCHLD, which is lost when one is pending.          *)
Exit(c) ==
  /\ child' = [child EXCEPT ![c] = "zombie"]
  /\ fds' = [fds EXCEPT ![c] = {}]
  /\ sigchld' = TRUE
  /\ coalesced' = IF sigchld THEN coalesced + 1 ELSE coalesced
  /\ UNCHANGED handler

ReadsOnce(c) ==                                     \* mutant of ReadsOn
  Goto(c, "close") /\ buf' = [buf EXCEPT ![c] = << >>]

(* memset(buf, 0, BUFFSIZE), and back to the read() *)
ReadsOn(c) == Goto(c, "read") /\ buf' = [buf EXCEPT ![c] = << >>]

ChildWrites(c) ==
  /\ At(c, "write")
  /\ \/ /\ WriteAll(c, buf[c]) \/ WriteFails(c)
        /\ ReadsOn(c)
        /\ UNCHANGED <<fds, child, signalVars>>
     \/ WriteKills(c) /\ Exit(c) /\ UNCHANGED childVars
  /\ UNCHANGED parentVars

ChildCloses(c) ==
  /\ At(c, "close") /\ Goto(c, "exit")
  /\ Closes(c, c)
  /\ UNCHANGED <<tcp, parentVars, child, buf, signalVars>>

ChildExits(c) == /\ At(c, "exit") /\ Exit(c)
                 /\ UNCHANGED <<tcp, parentVars, childVars>>

ChildStep(c) == \/ ChildClosesServ(c) \/ ChildReads(c) \/ ChildWrites(c)
                \/ ChildCloses(c) \/ ChildExits(c)
-----------------------------------------------------------------------------
ParentStep == \/ \E c \in Conns : ParentAccept(c)
              \/ ParentForks \/ ParentClosesClient

Next == \/ ParentStep \/ SignalDelivered \/ read_childproc
        \/ \E c \in Conns :
             \/ ChildStep(c)
             \/ Outside(c) /\ UNCHANGED <<parentVars, fds, child, childVars, signalVars>>

Spec == Init /\ [][Next]_vars

(* Every process is scheduled, the kernel delivers signals and packets. *)
FairSpec ==
  /\ Spec
  /\ WF_vars(ParentStep) /\ WF_vars(SignalDelivered) /\ WF_vars(read_childproc)
  /\ \A c \in Conns : WF_vars(ChildStep(c)) /\ WF_tcp(ResetArrives(c))
-----------------------------------------------------------------------------
TypeOK ==
  /\ tcp \in [Conns -> Connection]
  /\ pc \in {"accept", "fork", "close"} /\ client_sock \in Conns \cup {Serv}
  /\ fds \in [Procs -> SUBSET (Conns \cup {Serv})]
  /\ child \in [Conns -> {"none", "running", "zombie", "reaped"}]
  /\ cpc \in [Conns -> {"start", "read", "write", "close", "exit"}]
  /\ buf \in [Conns -> Buffer]
  /\ sigchld \in BOOLEAN /\ handler \in BOOLEAN /\ coalesced \in Nat

(* A child can reach no client but its own, and past its first step not    *)
(* the listening socket either; between two clients the parent holds only  *)
(* that one.  A socket kept open by a third process would hide the end of  *)
(* the connection from the client.                                         *)
Isolated ==
  /\ \A c \in Conns :
       /\ fds[c] \subseteq {c, Serv}
       /\ cpc[c] # "start" => fds[c] \subseteq {c}
  /\ pc = "accept" => fds[Parent] = {Serv}

(* A child that ended is waiting to be reaped exactly for as long as a     *)
(* signal is pending, the handler is running or its SIGCHLD was merged     *)
(* into another child's.                                                   *)
ZombiesAccounted ==
  Cardinality(Zombies) = coalesced + (IF sigchld THEN 1 ELSE 0)
                                   + (IF handler THEN 1 ELSE 0)

Accepted(c) == tcp[c].client = "accepted"
Released(c) == Accepted(c) /\ \A p \in Procs : c \notin fds[p]
Refused(c) == Released(c) /\ child[c] = "none"   \* fork() failed for it

(* A connection its client has closed is closed by the server too, whether *)
(* the client's end arrives as an end of file, as an error of read() or as *)
(* a signal, and also when fork() fails.                                   *)
ConnectionsReleased ==
  \A c \in Conns : (Accepted(c) /\ Closed(c)) ~> Released(c)

(* A client that stays, and again and again leaves room for more answers,  *)
(* gets all its bytes back unless fork() failed for it, although the other *)
(* clients do not read theirs and children end meanwhile.                  *)
EverythingEchoed ==
  \A c \in Conns : \A n \in 1..MaxBytes :
    []<>(tcp[c].unread < SendRoom) =>
      ((tcp[c].client # "none" /\ tcp[c].sent = n)
         ~> (Len(tcp[c].echoed) >= n \/ Closed(c) \/ Refused(c)))
=============================================================================
