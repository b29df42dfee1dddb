---------------------------- MODULE EpollServer ----------------------------
(***************************************************************************)
(* epoll_workproc() of EPOLL/src/server.cxx: one thread, a level-triggered *)
(* listening socket and edge-triggered, non-blocking client sockets, each  *)
(* of which is read until it has no more.                                  *)
(***************************************************************************)
EXTENDS Descriptors, FiniteSets

CONSTANTS
  Serv,        \* the listening socket
  EpollSize    \* epoll_size: the most events one epoll_wait() answers

ASSUME EpollAssumption == Serv \in Nat \ Fds /\ EpollSize \in Nat \ {0}

VARIABLES
  ready,   \* the client descriptors on epoll's ready list
  batch,   \* the events of ep_events still to be handled
  pc,      \* "wait", "loop", "accept", "read", "write"; "ended", "killed" by SIGPIPE
  fd,      \* ep_events[i].data.fd
  buf

vars == <<tcp, conn, ready, batch, pc, fd, buf>>

Init == /\ TcpInit
        /\ AllClosed
        /\ ready = {} /\ batch = {}
        /\ pc = "wait" /\ fd = Serv /\ buf = << >>

Pending == {c \in Conns : tcp[c].client = "queued"}

(* An event of connection c puts its descriptor on the ready list when it  *)
(* makes read() answer something new: the edge.                            *)
Edge(c) == \/ tcp'[c].up # tcp[c].up
           \/ {"fin", "dead"} \cap tcp'[c].marks # {"fin", "dead"} \cap tcp[c].marks

OutsideEvent(c) ==
  /\ Outside(c)
  /\ ready' = IF Edge(c) THEN ready \cup {f \in Fds : conn[f] = c} ELSE ready
  /\ UNCHANGED <<conn, batch, pc, fd, buf>>
-----------------------------------------------------------------------------
(* epoll_wait(): what it may answer, and the call, which takes the client  *)
(* descriptors it answers, and those that turn out not to be readable,     *)
(* off the ready list.  A timeout or an empty answer waits again.          *)
Reported == {f \in ready : Readable(conn[f])}
              \cup (IF Pending = {} THEN {} ELSE {Serv})

EpollWait ==
  /\ pc = "wait" /\ Reported # {}
  /\ batch' \in SUBSET Reported
  /\ Cardinality(batch') = Smaller(EpollSize, Cardinality(Reported))
  /\ ready' = (ready \cap Reported) \ batch'
  /\ pc' = "loop"
  /\ UNCHANGED <<tcp, conn, fd, buf>>

(* epoll_wait() that fails, as it does with EINTR when the process was     *)
(* stopped and continued, ends the loop, and main() returns: the end of    *)
(* the process closes every socket of it.                                  *)
WaitFails ==
  /\ pc = "wait" /\ pc' = "ended"
  /\ UNCHANGED <<tcp, conn, ready, batch, fd, buf>>

(* for (i = 0; i < event_cnt; i++): the events come in any order *)
NextEvent ==
  /\ pc = "loop"
  /\ IF batch = {} THEN pc' = "wait" /\ UNCHANGED <<batch, fd>>
     ELSE /\ fd' \in batch
          /\ batch' = batch \ {fd'}
          /\ pc' = IF fd' = Serv THEN "accept" ELSE "read"
  /\ UNCHANGED <<tcp, conn, ready, buf>>

(* accept4() and EPOLL_CTL_ADD, which reports at once what already arrived *)
AcceptClient(c) ==
  /\ pc = "accept"
  /\ \E f \in Fds :
       /\ AcceptAs(c, f)
       /\ ready' = IF Readable(c) THEN ready \cup {f} ELSE ready
  /\ pc' = "loop"
  /\ UNCHANGED <<batch, fd, buf>>

(* accept4() that fails, for want of a number or for another reason,       *)
(* answers -1, and EPOLL_CTL_ADD fails for it: as serv_sock is             *)
(* level-triggered, the next epoll_wait() reports it again.                *)
AcceptFails ==
  /\ pc = "accept" /\ pc' = "loop"
  /\ UNCHANGED <<tcp, conn, ready, batch, fd, buf>>

HangUpForgotten == pc' = "loop" /\ UNCHANGED <<conn, ready>>  \* mutant of HangUp
HangUpLeavesEvent ==                                          \* mutant of HangUp
  CloseFd(fd) /\ pc' = "loop" /\ UNCHANGED ready

(* EPOLL_CTL_DEL and close() *)
HangUp == /\ CloseFd(fd)
          /\ ready' = ready \ {fd}
          /\ pc' = "loop"

(* read(): data, or -1 with EAGAIN or with another error, or 0 *)
Read ==
  /\ pc = "read"
  /\ LET c == conn[fd] IN
     \/ /\ ReadData(c) /\ buf' = Data(c) /\ pc' = "write"
        /\ UNCHANGED <<conn, ready>>
     \/ ~Readable(c) /\ pc' = "loop" /\ UNCHANGED <<tcp, conn, ready, buf>>
     \/ ReadFails(c) /\ UNCHANGED <<conn, ready, buf, pc>>
     \/ ReadEof(c) /\ HangUp /\ UNCHANGED buf
  /\ UNCHANGED <<batch, fd>>

ReadOnce == pc' = "loop" /\ buf' = << >>                       \* mutant of ReadOn
WriteAgain == pc' \in {"read", "write"} /\ UNCHANGED buf        \* mutant of ReadOn

(* while (true): the buffer is cleared and the next read() follows *)
ReadOn == pc' = "read" /\ buf' = << >>

(* write() takes what there is room for, and nobody looks at its answer *)
Write ==
  /\ pc = "write"
  /\ LET c == conn[fd] IN
     \/ /\ WriteTakes(c, buf, Smaller(Len(buf), Room(c))) \/ WriteFails(c)
        /\ ReadOn
     \/ WriteKills(c) /\ pc' = "killed" /\ UNCHANGED buf
  /\ UNCHANGED <<conn, ready, batch, fd>>

Accepts == \E c \in Conns : AcceptClient(c)

ServerStep == EpollWait \/ NextEvent \/ Accepts \/ AcceptFails \/ Read \/ Write

Next == ServerStep \/ WaitFails \/ \E c \in Conns : OutsideEvent(c)

Spec == Init /\ [][Next]_vars

(* The server's thread is scheduled, and resets arrive.  That accept4()    *)
(* ever succeeds is not assumed, nor that epoll_wait() does not fail.      *)
FairSpec == /\ Spec /\ WF_vars(ServerStep)
            /\ \A c \in Conns : WF_vars(ResetArrives(c) /\ OutsideEvent(c))
-----------------------------------------------------------------------------
TypeOK == /\ tcp \in [Conns -> Connection]
          /\ conn \in [Fds -> Conns \cup {NONE}]
          /\ ready \subseteq Fds /\ batch \subseteq Fds \cup {Serv}
          /\ pc \in {"wait", "loop", "accept", "read", "write", "ended", "killed"}
          /\ fd \in Fds \cup {Serv}
          /\ buf \in Buffer

(* No edge is lost: a descriptor with something to read is on the ready    *)
(* list, in the batch, or the one being drained.  Otherwise its client     *)
(* would wait for an answer until it sends again.                          *)
NoLostEdge ==
  \A f \in OpenFds :
    Readable(conn[f]) => \/ f \in ready \cup batch
                         \/ f = fd /\ pc \in {"read", "write", "killed"}

(* An event that waits in ep_events still belongs to an open descriptor,   *)
(* and no descriptor stands for two connections, although numbers are      *)
(* reused within a batch.                                                  *)
NoStaleEvent ==
  /\ TypeOK
  /\ (batch \cup ready) \cap Fds \subseteq OpenFds
  /\ pc \in {"read", "write"} => fd \in OpenFds
  /\ \A f, g \in OpenFds : conn[f] = conn[g] => f = g

(* The service is over: the process has ended, its sockets with it. *)
Ended == pc \in {"ended", "killed"}

(* The server closes every connection its client has closed, as long as    *)
(* its process runs.                                                       *)
ConnectionsReleased ==
  \A c \in Conns : (Accepted(c) /\ Closed(c)) ~> (Ended \/ Released(c))

(* All numbers are in use, and by clients that have not hung up. *)
Exhausted == \A f \in Fds : conn[f] # NONE /\ ~Closed(conn[f])

FailsAnyway == OpenFds # Fds /\ AcceptFails

(* What a client has sent is answered although nothing more arrives, as    *)
(* long as the process runs: of a client that was accepted whatever        *)
(* accept4() answers to others, of one that waits in the queue unless the  *)
(* clients that hold the numbers stay, or accept4() fails again and again  *)
(* for another reason than that.                                           *)
EverythingEchoed ==
  LET Asks(c, place, n) == tcp[c].client = place /\ tcp[c].sent = n
      Answered(c, n) == Len(tcp[c].echoed) >= n \/ Closed(c) \/ Ended
  IN /\ \A c \in Conns : \A n \in 1..MaxBytes :
          Asks(c, "accepted", n) ~> Answered(c, n)
     /\ \/ []<><<FailsAnyway>>_vars
        \/ \A c \in Conns : \A n \in 1..MaxBytes :
             Asks(c, "queued", n) ~> (Answered(c, n) \/ []Exhausted)

(* "the data that was read is returned to the client": what has been       *)
(* returned is a beginning of what was sent.                               *)
ReturnsWhatItRead ==
  \A c \in Conns : tcp[c].echoed = Echo!Bytes(c, Len(tcp[c].echoed))
=============================================================================
